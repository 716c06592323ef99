------------------------ MODULE TensorParallelProofs ------------------------
(***************************************************************************)
(* A model over any number of ranks, for every shape of its layers, every  *)
(* checkpoint and every sequence of calls:                                 *)
(*   - each rank reads each call once, in order and whole, until rank 0    *)
(*     writes over one that a rank has still to read; the first such call  *)
(*     is never a run;                                                     *)
(*   - a checkpoint that load_model accepts is on the ranks, whole and in  *)
(*     its places;                                                         *)
(*   - in every run until then, the ranks together compute what one        *)
(*     process would.                                                      *)
(***************************************************************************)
EXTENDS TensorParallel, DequeTheorems

-----------------------------------------------------------------------------
(* The calls.                                                              *)

(* Rank r has taken note of call m: it executes it, has executed it, or    *)
(* has left with it.                                                       *)
Took(r, m) ==
    /\ r \notin event
    /\ \/ at[r] = "wait" /\ executed[r] = m
       \/ at[r] = "execute" /\ got[r] = m /\ executed[r] = m - 1
       \/ at[r] = "left" /\ executed[r] = m /\ m \in 1..Current /\ IsExit(m)

(* Its event is set for call m, which it has still to find in the buffer.  *)
Reading(r, m) ==
    /\ r \in event
    /\ \/ at[r] = "wait" /\ executed[r] = m - 1
       \/ at[r] = "execute" /\ got[r] = m - 1 /\ executed[r] = m - 2
       \/ at[r] = "read" /\ executed[r] = m - 1
       \/ at[r] = "load" /\ executed[r] = m - 1 /\ size[r] = m
       \/ at[r] = "clear" /\ executed[r] = m - 1 /\ got[r] = m

(* A call that is over at rank 0: a rank may have it still to read if it   *)
(* does not need every rank.                                               *)
Over(r, m) == Took(r, m) \/ (Reading(r, m) /\ ~ NeedsAll(m))

(* How far rank r can be, by where rank 0 is: never two calls behind, as   *)
(* long as no call has been written over.                                  *)
InStep(r) ==
    CASE pc = "idle"                     -> Over(r, Current)
      [] pc = "length"                   -> Over(r, Current - 1)
      [] pc = "payload"                  -> Took(r, Current - 1)
      [] pc \in {"join", "down"}         -> Took(r, Current)
      [] pc = "set"                      -> IF r \in toSet THEN Took(r, Current - 1)
                                            ELSE Took(r, Current) \/ Reading(r, Current)
      [] pc = "local"                    -> Took(r, Current) \/ Reading(r, Current)

Types ==
    /\ pc \in {"idle", "length", "payload", "set", "local", "join", "down"}
    /\ calls \in Seq(Method \cup {"exit"})
    /\ toSet \subseteq Rank /\ event \subseteq Rank
    /\ at \in [Rank -> {"wait", "read", "load", "clear", "execute", "left"}]
    /\ size \in [Rank -> Nat] /\ got \in [Rank -> Nat] /\ executed \in [Rank -> Nat]

(* Nothing is called after exit, and the buffer holds the last call once   *)
(* it has been written.                                                    *)
ExitIsLast == \A n \in 1..Current : IsExit(n) => n = Current /\ pc # "idle"
Written ==
    /\ pc # "idle" => Current > 0
    /\ pc \in {"payload", "set", "local", "idle"} => length = Current
    /\ pc \in {"set", "local", "idle"} => payload = Current
    /\ pc = "length" => length = Current - 1
    /\ pc \in {"length", "payload"} => payload = Current - 1
    /\ pc = "join" => IsExit(Current)

BroadcastInv == Types /\ ExitIsLast /\ Written /\ \A r \in Rank : InStep(r)

(* In what runs on after that, one thing stays: which call it was.         *)
Overran ==
    /\ calls \in Seq(Method \cup {"exit"})
    /\ overrun # 0 => overrun \in 1..Current /\ ~ NeedsAll(overrun)
DeliveryInv == Overran /\ (overrun = 0 => BroadcastInv)

(* A step of one rank leaves the others where they are.                    *)
LEMMA OthersStay ==
    ASSUME NEW r \in Rank, NEW o \in Rank \ {r}, Types, UNCHANGED driver,
           at'[o] = at[o], size'[o] = size[o], got'[o] = got[o], executed'[o] = executed[o],
           o \in event' <=> o \in event, InStep(o)
    PROVE  InStep(o)'
<1>1. Current' = Current /\ pc' = pc /\ calls' = calls /\ toSet' = toSet
  BY DEF driver, Current
<1>2. \A m : Took(o, m) => Took(o, m)'
  BY <1>1 DEF Took, IsExit
<1>3. \A m : Reading(o, m) => Reading(o, m)'
  BY <1>1 DEF Reading
<1>4. \A m : NeedsAll(m)' <=> NeedsAll(m)
  BY <1>1 DEF NeedsAll, IsExit
<1>5. \A m : Over(o, m) => Over(o, m)'
  BY <1>2, <1>3, <1>4 DEF Over
<1> QED BY <1>1, <1>2, <1>3, <1>5 DEF InStep, Types

(* A step of one rank that keeps its invariant keeps the whole of it.      *)
LEMMA LoopKeeps ==
    ASSUME NEW r \in Rank, BroadcastInv, UNCHANGED <<driver, buffer>>, Types', InStep(r)',
           \A o \in Rank \ {r} :
              /\ at'[o] = at[o] /\ size'[o] = size[o] /\ got'[o] = got[o]
              /\ executed'[o] = executed[o]
              /\ o \in event' <=> o \in event
    PROVE  BroadcastInv'
<1>1. ExitIsLast'
  BY DEF BroadcastInv, ExitIsLast, IsExit, Current, driver
<1>2. Written'
  BY DEF BroadcastInv, Written, IsExit, Current, driver, buffer
<1>3. \A o \in Rank \ {r} : InStep(o)'
  BY OthersStay DEF BroadcastInv
<1> QED BY <1>1, <1>2, <1>3 DEF BroadcastInv

(* A rank reads the current call, or one that rank 0 is through with and   *)
(* has not begun to write over; that call is whole in the buffer.          *)
ToRead == IF pc = "length" THEN Current - 1 ELSE Current

LEMMA ReaderInStep ==
    ASSUME NEW r \in Rank, BroadcastInv
    PROVE  /\ Current \in Nat
           /\ r \in event \/ at[r] \in {"read", "load", "clear"} =>
                /\ Reading(r, ToRead)
                /\ pc \in {"idle", "length", "set", "local"} /\ (pc = "set" => r \notin toSet)
                /\ pc \in {"idle", "length"} => ~ NeedsAll(ToRead)
                /\ length = ToRead /\ payload = ToRead
                /\ ToRead \in 1..Current
<1>1. Current \in Nat
  BY DEF BroadcastInv, Types, Current
<1> SUFFICES ASSUME r \in event \/ at[r] \in {"read", "load", "clear"}
             PROVE  /\ Reading(r, ToRead)
                    /\ pc \in {"idle", "length", "set", "local"} /\ (pc = "set" => r \notin toSet)
                    /\ pc \in {"idle", "length"} => ~ NeedsAll(ToRead)
                    /\ length = ToRead /\ payload = ToRead
                    /\ ToRead \in 1..Current
  BY <1>1
<1>2. \A m : ~ Took(r, m)
  BY DEF Took
<1>3. /\ pc \in {"idle", "length", "set", "local"} /\ (pc = "set" => r \notin toSet)
      /\ Reading(r, ToRead) /\ (pc \in {"idle", "length"} => ~ NeedsAll(ToRead))
  BY <1>2 DEF BroadcastInv, Types, InStep, Over, ToRead
<1>4. length = ToRead /\ payload = ToRead
  BY <1>3 DEF BroadcastInv, Written, ToRead
<1>5. ToRead \in Int /\ ToRead <= Current
  BY <1>1 DEF ToRead
<1>6. executed[r] \in Nat /\ got[r] \in Nat
  BY DEF BroadcastInv, Types
<1>7. ToRead >= 1
  BY <1>3, <1>5, <1>6 DEF Reading
<1> QED BY <1>1, <1>3, <1>4, <1>5, <1>7

LEMMA Initially == Init => BroadcastInv
<1> SUFFICES ASSUME Init PROVE BroadcastInv
  OBVIOUS
<1>1. Current = 0
  BY DEF Init, Current
<1>2. Types
  BY DEF Init, Types, Garbage
<1>3. ExitIsLast /\ Written
  BY <1>1 DEF Init, ExitIsLast, Written
<1>4. ASSUME NEW r \in Rank PROVE InStep(r)
  BY <1>1, <1>4 DEF Init, InStep, Over, Took
<1> QED BY <1>2, <1>3, <1>4 DEF BroadcastInv

LEMMA CallKeeps ==
    ASSUME NEW m \in Method \cup {"exit"}, BroadcastInv, Call(m)
    PROVE  BroadcastInv'
<1>1. /\ calls \in Seq(Method \cup {"exit"}) /\ calls' = Append(calls, m)
      /\ pc = "idle" /\ pc' = "length"
      /\ UNCHANGED <<toSet, length, payload, event, at, size, got, executed>>
  BY DEF BroadcastInv, Types, Call, buffer, loops
<1>2. /\ Current \in Nat /\ Current' = Current + 1
      /\ \A n \in 1..Current : calls'[n] = calls[n]
  BY <1>1 DEF Current
<1>3. Types'
  BY <1>1 DEF BroadcastInv, Types
<1>4. \A n \in 1..Current : ~ IsExit(n)
  BY <1>1 DEF BroadcastInv, ExitIsLast
<1>5. ExitIsLast'
  <2> SUFFICES ASSUME NEW n \in 1..Current', IsExit(n)'
               PROVE  n = Current' /\ pc' # "idle"
    BY DEF ExitIsLast
  <2>1. n \in 1..Current => calls'[n] = calls[n] /\ calls[n] # "exit"
    BY <1>2, <1>4 DEF IsExit
  <2>2. calls'[n] = "exit"
    BY DEF IsExit
  <2> QED BY <1>1, <1>2, <2>1, <2>2
<1>6. Written'
  BY <1>1, <1>2 DEF BroadcastInv, Written
<1>7. ASSUME NEW r \in Rank PROVE InStep(r)'
  <2>1. Over(r, Current)
    BY <1>1 DEF BroadcastInv, InStep
  <2>2. ASSUME Took(r, Current) PROVE Took(r, Current - 1)'
    BY <1>1, <1>2, <1>4, <2>2 DEF Took, IsExit
  <2>3. ASSUME Reading(r, Current), ~ NeedsAll(Current)
        PROVE  Reading(r, Current - 1)' /\ ~ NeedsAll(Current - 1)'
    <3>1. executed[r] \in Nat /\ got[r] \in Nat
      BY DEF BroadcastInv, Types
    <3>2. Current \in 1..Current /\ Current' - 1 = Current
      BY <1>2, <2>3, <3>1 DEF Reading
    <3>3. calls'[Current' - 1] = calls[Current]
      BY <1>2, <3>2
    <3> QED BY <1>1, <2>3, <3>2, <3>3 DEF Reading, NeedsAll, IsExit
  <2> QED BY <1>1, <2>1, <2>2, <2>3 DEF InStep, Over
<1> QED BY <1>3, <1>5, <1>6, <1>7 DEF BroadcastInv

LEMMA WriteKeeps ==
    ASSUME BroadcastInv, overrun = 0, overrun' = 0, WriteLength \/ WritePayload
    PROVE  BroadcastInv'
<1>1. /\ UNCHANGED <<calls, event, at, size, got, executed>>
      /\ pc \in {"length", "payload"} /\ Current \in Nat /\ Current' = Current
      /\ \/ /\ pc = "length" /\ pc' = "payload" /\ event = {}
            /\ length' = Current /\ UNCHANGED <<toSet, payload>>
         \/ pc = "payload" /\ pc' = "set" /\ payload' = Current /\ toSet' = Rank /\ UNCHANGED length
  <2>1. UNCHANGED <<calls, event, at, size, got, executed>>
    BY DEF WriteLength, WritePayload, loops
  <2>2. CASE WriteLength
    <3>1. pc = "length" /\ (event # {} => Current - 1 = 0)
      BY <2>2 DEF WriteLength
    <3>2. event = {}
      <4> SUFFICES ASSUME NEW r \in Rank, r \in event PROVE FALSE
        BY DEF BroadcastInv, Types
      <4>1. ToRead = Current - 1 /\ ToRead \in 1..Current /\ Current \in Nat
        BY <3>1, ReaderInStep DEF ToRead
      <4> QED BY <3>1, <4>1
    <3> QED BY <2>1, <2>2, <3>2 DEF WriteLength, Current, BroadcastInv, Types
  <2> QED BY <2>1, <2>2 DEF BroadcastInv, Types, WritePayload, Current
<1>2. Types'
  BY <1>1 DEF BroadcastInv, Types
<1>3. ExitIsLast'
  BY <1>1 DEF BroadcastInv, ExitIsLast, IsExit
<1>4. Written'
  BY <1>1 DEF BroadcastInv, Written
<1>5. ASSUME NEW r \in Rank PROVE InStep(r)'
  <2>1. Took(r, Current - 1)
    BY <1>1 DEF BroadcastInv, InStep, Over, Reading
  <2>2. Took(r, Current - 1)'
    BY <1>1, <2>1 DEF Took, IsExit
  <2> QED BY <1>1, <2>2 DEF InStep
<1> QED BY <1>2, <1>3, <1>4, <1>5 DEF BroadcastInv

LEMMA SetEventKeeps ==
    ASSUME NEW s \in Rank, BroadcastInv, SetEvent(s)
    PROVE  BroadcastInv'
<1>1. /\ UNCHANGED <<calls, length, payload, at, size, got, executed>>
      /\ pc = "set" /\ s \in toSet
      /\ event' = event \cup {s} /\ toSet' = toSet \ {s}
      /\ pc' \in {"set", "local"} /\ (pc' = "local" => toSet' = {})
      /\ Current \in Nat /\ Current' = Current
  BY DEF BroadcastInv, Types, SetEvent, buffer, loops, Current
<1>2. Types'
  BY <1>1 DEF BroadcastInv, Types
<1>3. ExitIsLast'
  BY <1>1 DEF BroadcastInv, ExitIsLast, IsExit
<1>4. Written'
  BY <1>1 DEF BroadcastInv, Written
<1>5. ASSUME NEW r \in Rank PROVE InStep(r)'
  <2>1. CASE r = s
    <3>1. Took(r, Current - 1) /\ Current > 0
      BY <1>1, <2>1 DEF BroadcastInv, InStep, Written
    <3>2. at[r] # "left"
      BY <1>1, <3>1 DEF BroadcastInv, ExitIsLast, Took
    <3>3. Reading(r, Current)'
      BY <1>1, <2>1, <3>1, <3>2 DEF Took, Reading
    <3> QED BY <1>1, <2>1, <3>3 DEF InStep
  <2>2. CASE r # s
    <3>1. /\ r \in toSet => Took(r, Current - 1)
          /\ r \notin toSet => Took(r, Current) \/ Reading(r, Current)
      BY <1>1 DEF BroadcastInv, InStep
    <3>2. /\ r \in toSet => Took(r, Current - 1)'
          /\ r \notin toSet => Took(r, Current)' \/ Reading(r, Current)'
      BY <1>1, <2>2, <3>1 DEF Took, Reading, IsExit
    <3> QED BY <1>1, <2>2, <3>2 DEF InStep
  <2> QED BY <2>1, <2>2
<1> QED BY <1>2, <1>3, <1>4, <1>5 DEF BroadcastInv

(* Rank 0 gets through a call that needs every rank only when each has     *)
(* joined it: this is where other calls are left to be read.               *)
LEMMA ExecuteLocalKeeps ==
    ASSUME BroadcastInv, ExecuteLocal
    PROVE  BroadcastInv'
<1>1. /\ UNCHANGED <<calls, toSet, length, payload, event, at, size, got, executed>>
      /\ pc = "local" /\ pc' = IF IsExit(Current) THEN "join" ELSE "idle"
      /\ calls \in Seq(Method \cup {"exit"})
      /\ Current \in Nat /\ Current' = Current /\ Current > 0
      /\ NeedsAll(Current) => AllIn(Current)
  BY DEF BroadcastInv, Types, Written, ExecuteLocal, buffer, loops, Current
<1>2. Types'
  BY <1>1 DEF BroadcastInv, Types
<1>3. ExitIsLast'
  BY <1>1 DEF BroadcastInv, ExitIsLast, IsExit
<1>4. Written'
  BY <1>1 DEF BroadcastInv, Written, IsExit
<1>5. ASSUME NEW r \in Rank PROVE InStep(r)'
  <2>1. executed[r] \in Nat /\ got[r] \in Nat
    BY DEF BroadcastInv, Types
  <2>2. Took(r, Current) \/ Reading(r, Current)
    BY <1>1 DEF BroadcastInv, InStep
  <2>3. NeedsAll(Current) => ~ Reading(r, Current)
    <3> SUFFICES ASSUME NeedsAll(Current) PROVE ~ Reading(r, Current)
      OBVIOUS
    <3>1. executed[r] >= Current \/ (at[r] = "execute" /\ got[r] = Current)
      BY <1>1 DEF AllIn
    <3> QED BY <1>1, <2>1, <3>1 DEF Reading
  <2>4. Took(r, Current) => Took(r, Current)'
    BY <1>1 DEF Took, IsExit
  <2>5. Reading(r, Current) => Reading(r, Current)'
    BY <1>1 DEF Reading
  <2>6. NeedsAll(Current)' <=> NeedsAll(Current)
    BY <1>1 DEF NeedsAll, IsExit
  <2>7. IsExit(Current) => NeedsAll(Current)
    BY DEF NeedsAll
  <2> QED BY <1>1, <2>2, <2>3, <2>4, <2>5, <2>6, <2>7 DEF InStep, Over
<1> QED BY <1>2, <1>3, <1>4, <1>5 DEF BroadcastInv

LEMMA JoinKeeps ==
    ASSUME BroadcastInv, Join
    PROVE  BroadcastInv'
<1>1. /\ UNCHANGED <<calls, toSet, length, payload, event, at, size, got, executed>>
      /\ pc = "join" /\ pc' = "down" /\ Current' = Current
  BY DEF Join, buffer, loops, Current
<1>2. Types' /\ ExitIsLast' /\ Written'
  BY <1>1 DEF BroadcastInv, Types, ExitIsLast, Written, IsExit
<1>3. ASSUME NEW r \in Rank PROVE InStep(r)'
  <2>1. Took(r, Current)
    BY <1>1 DEF BroadcastInv, InStep
  <2>2. Took(r, Current)'
    BY <1>1, <2>1 DEF Took, IsExit
  <2> QED BY <1>1, <2>2 DEF InStep
<1> QED BY <1>2, <1>3 DEF BroadcastInv

(* A rank that waits for its event, or reads the buffer and clears it.     *)
LEMMA ReadKeeps ==
    ASSUME NEW r \in Rank, BroadcastInv,
           WaitEvent(r) \/ ReadLength(r) \/ LoadPayload(r) \/ ClearEvent(r)
    PROVE  BroadcastInv'
<1>1. r \in event \/ at[r] \in {"read", "load", "clear"}
  BY DEF WaitEvent, ReadLength, LoadPayload, ClearEvent
<1>2. /\ Reading(r, ToRead) /\ Current \in Nat /\ ToRead \in 1..Current
      /\ pc \in {"idle", "length", "set", "local"} /\ (pc = "set" => r \notin toSet)
      /\ pc \in {"idle", "length"} => ~ NeedsAll(ToRead)
      /\ length = ToRead /\ payload = ToRead
  BY <1>1, ReaderInStep
<1>3. UNCHANGED <<driver, buffer>> /\ UNCHANGED executed
  BY DEF WaitEvent, ReadLength, LoadPayload, ClearEvent, driver
<1>4. /\ Types /\ Current' = Current /\ ToRead' = ToRead /\ pc' = pc /\ toSet' = toSet
      /\ calls' = calls
  BY <1>3 DEF BroadcastInv, driver, Current, ToRead
<1>5. ASSUME Reading(r, ToRead)' \/ Took(r, ToRead)'
      PROVE  InStep(r)'
  <2>1. pc \in {"idle", "length"} => ~ NeedsAll(ToRead)'
    BY <1>2, <1>4 DEF NeedsAll, IsExit
  <2> QED BY <1>2, <1>4, <1>5, <2>1 DEF InStep, Over, ToRead
<1>6. CASE WaitEvent(r)
  <2>1. Reading(r, ToRead)'
    BY <1>2, <1>4, <1>6 DEF Reading, WaitEvent, Types
  <2>2. Types'
    BY <1>3, <1>4, <1>6 DEF Types, WaitEvent, driver
  <2>3. InStep(r)'
    BY <1>5, <2>1
  <2> QED BY <1>3, <1>4, <1>6, <2>2, <2>3, LoopKeeps DEF WaitEvent, Types
<1>7. CASE ReadLength(r)
  <2>1. Reading(r, ToRead)'
    BY <1>2, <1>4, <1>7 DEF Reading, ReadLength, Types
  <2>2. Types'
    BY <1>2, <1>3, <1>4, <1>7 DEF Types, ReadLength, driver
  <2>3. InStep(r)'
    BY <1>5, <2>1
  <2> QED BY <1>3, <1>4, <1>7, <2>2, <2>3, LoopKeeps DEF ReadLength, Types
<1>8. CASE LoadPayload(r)
  <2>1. at[r] = "load" /\ size[r] = payload
    BY <1>2, <1>8 DEF Reading, LoadPayload
  <2>2. /\ got' = [got EXCEPT ![r] = ToRead]
        /\ at' = [at EXCEPT ![r] = "clear"]
        /\ UNCHANGED <<event, size, executed>>
    <3>1. PICK n \in {payload} \cup (IF size[r] = payload THEN {} ELSE {Garbage}) :
             /\ got' = [got EXCEPT ![r] = n]
             /\ at'  = [at EXCEPT ![r] = IF n = Garbage THEN "dead" ELSE "clear"]
      BY <1>8 DEF LoadPayload
    <3>2. n = ToRead /\ n # Garbage
      BY <1>2, <2>1, <3>1 DEF Garbage
    <3>3. UNCHANGED <<event, size, executed>>
      BY <1>8 DEF LoadPayload
    <3> QED BY <3>1, <3>2, <3>3
  <2>3. Reading(r, ToRead)'
    BY <1>2, <1>4, <2>1, <2>2 DEF Reading, Types
  <2>4. Types'
    BY <1>2, <1>3, <1>4, <2>2 DEF Types, driver
  <2>5. InStep(r)'
    BY <1>5, <2>3
  <2> QED BY <1>3, <1>4, <2>2, <2>4, <2>5, LoopKeeps DEF Types
<1>9. CASE ClearEvent(r)
  <2>1. Took(r, ToRead)'
    BY <1>2, <1>4, <1>9 DEF Reading, Took, ClearEvent, Types
  <2>2. Types'
    BY <1>3, <1>4, <1>9 DEF Types, ClearEvent, driver
  <2>3. InStep(r)'
    BY <1>5, <2>1
  <2> QED BY <1>3, <1>4, <1>9, <2>2, <2>3, LoopKeeps DEF ClearEvent, Types
<1> QED BY <1>6, <1>7, <1>8, <1>9

LEMMA ExecuteKeeps ==
    ASSUME NEW r \in Rank, BroadcastInv, Execute(r)
    PROVE  BroadcastInv'
<1>1. /\ at[r] = "execute" /\ executed' = [executed EXCEPT ![r] = got[r]]
      /\ at' = [at EXCEPT ![r] = IF IsExit(got[r]) THEN "left" ELSE "wait"]
      /\ UNCHANGED <<driver, buffer, event, size, got>>
  BY DEF Execute
<1>2. Types /\ Current \in Nat /\ InStep(r)
  BY DEF BroadcastInv, Types, Current
<1>3. /\ Current' = Current /\ pc' = pc /\ toSet' = toSet /\ calls' = calls
      /\ at'[r] = IF IsExit(got[r]) THEN "left" ELSE "wait"
      /\ executed'[r] = got[r]
  BY <1>1, <1>2 DEF driver, Current, Types
<1>4. Types'
  BY <1>1, <1>2 DEF Types, driver
<1>5. ASSUME NEW m \in {Current - 1, Current}, Took(r, m)
      PROVE  Took(r, m)'
  <2>1. got[r] = m /\ executed[r] = m - 1 /\ m \in 1..Current /\ r \notin event
    BY <1>1, <1>2, <1>5 DEF Took, Types
  <2> QED BY <1>1, <1>3, <2>1 DEF Took, IsExit
<1>6. ASSUME NEW m \in {Current - 1, Current}, Reading(r, m)
      PROVE  Reading(r, m)'
  <2>1. got[r] = m - 1 /\ executed[r] = m - 2 /\ m - 1 \in 1..Current /\ m - 1 # Current
    BY <1>1, <1>2, <1>6 DEF Reading, Types
  <2>2. ~ IsExit(got[r])
    BY <1>2, <2>1 DEF BroadcastInv, ExitIsLast
  <2> QED BY <1>1, <1>3, <1>6, <2>1, <2>2 DEF Reading
<1>7. \A m : NeedsAll(m)' <=> NeedsAll(m)
  BY <1>3 DEF NeedsAll, IsExit
<1>8. \A m \in {Current - 1, Current} : Over(r, m) => Over(r, m)'
  BY <1>5, <1>6, <1>7 DEF Over
<1>9. InStep(r)'
  BY <1>2, <1>3, <1>5, <1>6, <1>8 DEF InStep, Types
<1> QED BY <1>1, <1>2, <1>4, <1>9, LoopKeeps DEF Types

LEMMA StepKeeps ==
    ASSUME BroadcastInv, overrun = 0, overrun' = 0, [Next]_vars
    PROVE  BroadcastInv'
<1>1. CASE UNCHANGED vars
  <2>1. UNCHANGED <<pc, calls, toSet, length, payload, event, at, size, got, executed>>
        /\ Current' = Current
    BY <1>1 DEF vars, driver, buffer, loops, Current
  <2>2. Types' /\ ExitIsLast' /\ Written'
    BY <2>1 DEF BroadcastInv, Types, ExitIsLast, Written, IsExit
  <2>3. ASSUME NEW r \in Rank PROVE InStep(r)'
    BY <2>1 DEF BroadcastInv, InStep, Over, Took, Reading, NeedsAll, IsExit
  <2> QED BY <2>2, <2>3 DEF BroadcastInv
<1>2. CASE Next
  BY <1>2, CallKeeps, WriteKeeps, SetEventKeeps, ExecuteLocalKeeps, JoinKeeps, ReadKeeps,
     ExecuteKeeps DEF Next, Driver, Loop
<1> QED BY <1>1, <1>2

(* Once a call has been written over, it is known which one it was.        *)
LEMMA OverrunStays ==
    ASSUME [Next]_vars, overrun' = 0
    PROVE  overrun = 0
  BY DEF Next, Driver, Call, WriteLength, WritePayload, SetEvent, ExecuteLocal, Join, Loop,
     WaitEvent, ReadLength, LoadPayload, ClearEvent, Execute, vars

(* What is first written over is a call that need not be joined: when rank *)
(* 0 begins to write, a rank has at most such a call to read.              *)
LEMMA OverrunStep ==
    ASSUME DeliveryInv, [Next]_vars
    PROVE  DeliveryInv'
<1>1. calls \in Seq(Method \cup {"exit"}) /\ Current \in Nat
  BY DEF DeliveryInv, Overran, Current
<1>2. ASSUME NEW m \in Method \cup {"exit"}, Call(m)
      PROVE  Overran'
  <2>1. calls' = Append(calls, m) /\ overrun' = overrun
    BY <1>2 DEF Call
  <2>2. Current' = Current + 1 /\ calls' \in Seq(Method \cup {"exit"})
        /\ \A n \in 1..Current : calls'[n] = calls[n]
    BY <1>1, <2>1 DEF Current
  <2>3. \A n \in 1..Current : NeedsAll(n)' <=> NeedsAll(n)
    BY <2>2 DEF NeedsAll, IsExit
  <2>4. overrun # 0 => ~ NeedsAll(overrun)' /\ overrun \in 1..Current'
    BY <1>1, <2>1, <2>2, <2>3 DEF DeliveryInv, Overran
  <2> QED BY <2>1, <2>2, <2>4 DEF Overran, NeedsAll, IsExit
<1>3. ASSUME UNCHANGED <<calls, overrun>> PROVE Overran'
  BY <1>3 DEF DeliveryInv, Overran, NeedsAll, IsExit, Current
<1>4. ASSUME WriteLength PROVE Overran'
  <2>1. calls' = calls /\ pc = "length"
        /\ overrun' = IF overrun = 0 /\ event # {} THEN Current - 1 ELSE overrun
    BY <1>4 DEF WriteLength
  <2>2. CASE overrun = 0 /\ event # {}
    <3>1. BroadcastInv
      BY <2>2 DEF DeliveryInv
    <3>2. PICK r \in Rank : r \in event
      BY <2>2, <3>1 DEF BroadcastInv, Types
    <3>3. ToRead = Current - 1 /\ ToRead \in 1..Current /\ ~ NeedsAll(ToRead)
      BY <2>1, <3>1, <3>2, ReaderInStep DEF ToRead
    <3> QED BY <1>1, <2>1, <2>2, <3>3 DEF Overran, NeedsAll, IsExit, Current
  <2>3. CASE ~ (overrun = 0 /\ event # {})
    BY <1>3, <2>1, <2>3
  <2> QED BY <2>2, <2>3
<1>5. Overran'
  <2>1. UNCHANGED vars => UNCHANGED <<calls, overrun>>
    BY DEF vars, driver
  <2>2. ASSUME NEW r \in Rank, Loop(r) \/ SetEvent(r) PROVE UNCHANGED <<calls, overrun>>
    BY <2>2 DEF Loop, WaitEvent, ReadLength, LoadPayload, ClearEvent, Execute, SetEvent, driver
  <2>3. WritePayload \/ ExecuteLocal \/ Join => UNCHANGED <<calls, overrun>>
    BY DEF WritePayload, ExecuteLocal, Join
  <2> QED BY <1>2, <1>3, <1>4, <2>1, <2>2, <2>3 DEF Next, Driver
<1> QED BY <1>5, OverrunStays, StepKeeps DEF DeliveryInv

LEMMA InvDelivers == BroadcastInv => CallsDelivered
<1> SUFFICES ASSUME BroadcastInv, NEW r \in Rank
             PROVE  /\ at[r] # "dead"
                    /\ at[r] \in {"clear", "execute"} => got[r] = executed[r] + 1
                    /\ at[r] \in {"read", "load"} =>
                         length = executed[r] + 1 /\ payload = length
  BY DEF CallsDelivered
<1>1. executed[r] \in Nat /\ at[r] \in {"wait", "read", "load", "clear", "execute", "left"}
  BY DEF BroadcastInv, Types
<1>2. /\ Current \in Nat /\ ToRead \in Int
      /\ at[r] \in {"read", "load", "clear"} =>
           Reading(r, ToRead) /\ length = ToRead /\ payload = ToRead
  BY ReaderInStep DEF ToRead
<1>3. at[r] = "execute" => got[r] = executed[r] + 1
  <2>1. \A m \in Int : Took(r, m) /\ at[r] = "execute" => got[r] = executed[r] + 1
    BY <1>1 DEF Took
  <2>2. \A m \in Int : Reading(r, m) /\ at[r] = "execute" => got[r] = executed[r] + 1
    BY <1>1 DEF Reading
  <2>3. Over(r, Current) \/ Over(r, Current - 1) \/ Took(r, Current) \/ Took(r, Current - 1)
        \/ Reading(r, Current)
    BY <1>2 DEF BroadcastInv, Types, InStep
  <2>4. Current \in Int /\ Current - 1 \in Int
    BY <1>2
  <2> QED BY <2>1, <2>2, <2>3, <2>4 DEF Over
<1> QED BY <1>1, <1>2, <1>3 DEF Reading

LEMMA DeliveryStart == Init => DeliveryInv
  BY Initially DEF DeliveryInv, Overran, Init

(* "Wake every rank, so that it reads and executes the command": no rank   *)
(* misses a call, reads one twice or while it is being written, until rank *)
(* 0 writes over a call that is still to be read; and then that call is    *)
(* neither a run nor an exit (write_shm and read_shm of model_runner.py,   *)
(* release_vision_inputs of engine_core.py).                               *)
THEOREM AlwaysDelivered == Spec => []DeliveredUntilOverrun
<1>1. DeliveryInv /\ [Next]_vars => DeliveryInv'
  BY OverrunStep
<1>2. DeliveryInv => DeliveredUntilOverrun
  BY InvDelivers DEF DeliveryInv, Overran, DeliveredUntilOverrun
<1> QED BY DeliveryStart, <1>1, <1>2, PTL DEF Spec

-----------------------------------------------------------------------------
(* The shares of the ranks.                                                *)

(* Of a weight, rank r keeps Part(tp, name) slices, those after            *)
(* First(tp, r, name), in a parameter from an offset on.                   *)
Part(tp, name) ==
    CASE name \in {"embed_tokens", "lm_head"}           -> Vocab \div tp
      [] name \in {"q_proj", "o_proj"}                  -> (Heads \div tp) * HeadDim
      [] name \in {"k_proj", "v_proj"}                  -> (KVHeads \div tp) * HeadDim
      [] name \in {"gate_proj", "up_proj", "down_proj"} -> Inner \div tp
      [] OTHER                                          -> 1
First(tp, r, name)   == IF name = "norm" THEN 0 ELSE r * Part(tp, name)
ParameterOf(m, name) == IF name \in DOMAIN Packed THEN Packed[name][1] ELSE Target(m, name)
Where(m, name)       == Storage(m, ParameterOf(m, name))
Offset(tp, name)     == IF name \in DOMAIN Packed THEN ShardOffset(tp, Packed[name][2]) ELSE 0
Known                == LanguageNames \cup {"lm_head"}

LEMMA Names ==
    /\ DOMAIN Packed = {"q_proj", "k_proj", "v_proj", "gate_proj", "up_proj"}
    /\ Packed["q_proj"][1] = "qkv_proj" /\ Packed["q_proj"][2] = "q"
    /\ Packed["k_proj"][1] = "qkv_proj" /\ Packed["k_proj"][2] = "k"
    /\ Packed["v_proj"][1] = "qkv_proj" /\ Packed["v_proj"][2] = "v"
    /\ Packed["gate_proj"][1] = "gate_up_proj" /\ Packed["gate_proj"][2] = "gate"
    /\ Packed["up_proj"][1] = "gate_up_proj" /\ Packed["up_proj"][2] = "up"
    /\ Known = {"q_proj", "k_proj", "v_proj", "gate_proj", "up_proj", "embed_tokens", "o_proj",
                "down_proj", "norm", "lm_head"}
    /\ LanguageNames \cup {"lm_head", "visual"} = Known \cup {"visual"}
<1>1. DOMAIN Packed = {"q_proj", "k_proj", "v_proj", "gate_proj", "up_proj"}
  BY DEF Packed
<1> QED BY <1>1 DEF Packed, Known, LanguageNames

LEMMA Shards ==
    /\ ShardsOf("qkv_proj") = {"q", "k", "v"}
    /\ ShardsOf("gate_up_proj") = {"gate", "up"}
  BY Names DEF ShardsOf

(* Exact division.                                                         *)
LEMMA Exact ==
    ASSUME NEW B \in Nat \ {0}, NEW q \in Nat
    PROVE  (q * B) \div B = q /\ (B * q) \div B = q /\ (B * q + B - 1) \div B = q
<1> DEFINE x == q * B
<1>1. x \in Nat /\ B * q = x /\ (q + 1) * B = x + B
  OBVIOUS
<1>2. \A n \in Nat : q * B <= n /\ n < (q + 1) * B => n \div B = q
  BY Quotient
<1>3. q * B = x
  OBVIOUS
<1> HIDE DEF x
<1>4. x + B - 1 \in Nat /\ x <= x + B - 1 /\ x + B - 1 < x + B /\ x < x + B
  BY <1>1
<1>5. x \div B = q /\ (x + B - 1) \div B = q
  BY <1>1, <1>2, <1>3, <1>4
<1> QED BY <1>1, <1>3, <1>5

LEMMA Divides ==
    ASSUME NEW B \in Nat \ {0}, NEW n \in Nat \ {0}, n % B = 0
    PROVE  n \div B \in Nat \ {0} /\ n = (n \div B) * B
<1>1. n \div B \in Nat /\ n = B * (n \div B) + (n % B)
  BY Quotient
<1> DEFINE q == n \div B
<1>2. q \in Nat /\ n = B * q
  BY <1>1
<1> HIDE DEF q
<1>3. q # 0 /\ n = q * B
  BY <1>2
<1> QED BY <1>2, <1>3 DEF q

(* Every rank has as much of a weight as the others, and together they     *)
(* have all of it; the packed parameters hold the parts side by side.      *)
Sized(tp) ==
    /\ \A name \in Known : Part(tp, name) \in Nat \ {0}
    /\ \A name \in Known \ {"norm"} : FullSize(name) = tp * Part(tp, name)
    /\ Part(tp, "norm") = 1 /\ FullSize("norm") = 1
    /\ \A name \in Known \ DOMAIN Packed : LocalSize(tp, name) = Part(tp, name)
    /\ LocalSize(tp, "qkv_proj") = Part(tp, "q_proj") + 2 * Part(tp, "k_proj")
    /\ LocalSize(tp, "gate_up_proj") = 2 * Part(tp, "gate_proj")
    /\ Part(tp, "v_proj") = Part(tp, "k_proj") /\ Part(tp, "up_proj") = Part(tp, "gate_proj")
    /\ Offset(tp, "q_proj") = 0 /\ Offset(tp, "k_proj") = Part(tp, "q_proj")
    /\ Offset(tp, "v_proj") = Part(tp, "q_proj") + Part(tp, "k_proj")
    /\ Offset(tp, "gate_proj") = 0 /\ Offset(tp, "up_proj") = Part(tp, "gate_proj")
    /\ \A name \in Known \ DOMAIN Packed : Offset(tp, name) = 0

LEMMA Sizes ==
    ASSUME NEW m, NEW tp \in Nat \ {0}, Constructible(m, tp)
    PROVE  Sized(tp)
<1> DEFINE h == Heads \div tp
           k == KVHeads \div tp
           n == Inner \div tp
           v == Vocab \div tp
<1>1. /\ Heads \in Nat \ {0} /\ KVHeads \in Nat \ {0} /\ HeadDim \in Nat \ {0}
      /\ Inner \in Nat \ {0} /\ Vocab \in Nat \ {0}
  BY ShapeAssumption
<1>2. Heads % tp = 0 /\ KVHeads % tp = 0 /\ Inner % tp = 0 /\ Vocab % tp = 0
  BY DEF Constructible
<1>3. /\ h \in Nat \ {0} /\ Heads = h * tp /\ k \in Nat \ {0} /\ KVHeads = k * tp
      /\ n \in Nat \ {0} /\ Inner = n * tp /\ v \in Nat \ {0} /\ Vocab = v * tp
  BY <1>1, <1>2, Divides
<1> HIDE DEF h, k, n, v
<1> DEFINE a == h * HeadDim
           b == k * HeadDim
<1>4. a \in Nat \ {0} /\ b \in Nat \ {0}
  BY <1>1, <1>3
<1>5. Heads * HeadDim = tp * a /\ KVHeads * HeadDim = tp * b /\ Inner = tp * n /\ Vocab = tp * v
  BY <1>1, <1>3
<1>6. (Heads + 2 * KVHeads) * HeadDim = tp * (a + 2 * b) /\ 2 * Inner = tp * (2 * n)
  BY <1>1, <1>3
<1> HIDE DEF a, b
<1>7. /\ ((Heads + 2 * KVHeads) * HeadDim) \div tp = a + 2 * b /\ (2 * Inner) \div tp = 2 * n
      /\ (Heads * HeadDim) \div tp = a
  <2>1. a + 2 * b \in Nat /\ 2 * n \in Nat /\ a \in Nat
    BY <1>3, <1>4
  <2>2. (tp * (a + 2 * b)) \div tp = a + 2 * b
    BY <2>1, Exact
  <2>3. (tp * (2 * n)) \div tp = 2 * n /\ (tp * a) \div tp = a
    BY <2>1, Exact
  <2> QED BY <1>5, <1>6, <2>2, <2>3
<1>8. /\ Part(tp, "embed_tokens") = v /\ Part(tp, "lm_head") = v
      /\ Part(tp, "q_proj") = a /\ Part(tp, "o_proj") = a
      /\ Part(tp, "k_proj") = b /\ Part(tp, "v_proj") = b
      /\ Part(tp, "gate_proj") = n /\ Part(tp, "up_proj") = n /\ Part(tp, "down_proj") = n
      /\ Part(tp, "norm") = 1
  BY DEF Part, a, b, h, k, n, v
<1>9. /\ FullSize("embed_tokens") = tp * v /\ FullSize("lm_head") = tp * v
      /\ FullSize("q_proj") = tp * a /\ FullSize("o_proj") = tp * a
      /\ FullSize("k_proj") = tp * b /\ FullSize("v_proj") = tp * b
      /\ FullSize("gate_proj") = tp * n /\ FullSize("up_proj") = tp * n
      /\ FullSize("down_proj") = tp * n /\ FullSize("norm") = 1
  BY <1>5 DEF FullSize
<1>10. /\ LocalSize(tp, "embed_tokens") = v /\ LocalSize(tp, "lm_head") = v
       /\ LocalSize(tp, "qkv_proj") = a + 2 * b /\ LocalSize(tp, "o_proj") = a
       /\ LocalSize(tp, "gate_up_proj") = 2 * n /\ LocalSize(tp, "down_proj") = n
       /\ LocalSize(tp, "norm") = 1
  BY <1>7 DEF LocalSize, n, v
<1>11. /\ Offset(tp, "q_proj") = 0 /\ Offset(tp, "k_proj") = a /\ Offset(tp, "v_proj") = a + b
       /\ Offset(tp, "gate_proj") = 0 /\ Offset(tp, "up_proj") = n
       /\ \A name \in Known \ DOMAIN Packed : Offset(tp, name) = 0
  BY Names DEF Offset, ShardOffset, a, b, h, k, n
<1>12. /\ \A name \in Known : Part(tp, name) \in Nat \ {0}
       /\ \A name \in Known \ {"norm"} : FullSize(name) = tp * Part(tp, name)
       /\ \A name \in Known \ DOMAIN Packed : LocalSize(tp, name) = Part(tp, name)
  BY <1>3, <1>4, <1>8, <1>9, <1>10, Names
<1> QED BY <1>8, <1>9, <1>10, <1>11, <1>12 DEF Sized

-----------------------------------------------------------------------------
(* What the weight loaders put where.                                      *)

LEMMA Narrowed ==
    ASSUME NEW T, NEW t \in Seq(T), NEW start \in Nat, NEW n \in Nat, start + n <= Len(t)
    PROVE  Narrow(t, start, n) = [ i \in 1..n |-> t[start + i] ]
<1>1. Len(t) \in Nat
  OBVIOUS
<1>2. SubSeq(t, start + 1, start + n) = [ i \in 1..start + n - (start + 1) + 1 |->
                                            t[i + (start + 1) - 1] ]
  BY <1>1
<1>3. start + n - (start + 1) + 1 = n
  OBVIOUS
<1>4. \A i \in 1..n : i + (start + 1) - 1 = start + i
  OBVIOUS
<1>5. [ i \in 1..n |-> t[i + (start + 1) - 1] ] = [ i \in 1..n |-> t[start + i] ]
  BY <1>4
<1> QED BY <1>2, <1>3, <1>5 DEF Narrow

(* The slices rank r keeps of a weight that is sharded.                    *)
LEMMA Share ==
    ASSUME NEW tp \in Nat \ {0}, Sized(tp), NEW r \in 0..tp - 1, NEW w,
           w.name \in Known \ {"norm"}
    PROVE  LET n == Part(tp, w.name) IN
           /\ Narrow(Tensor(w), r * n, n) = [ i \in 1..n |-> <<w.value, r * n + i>> ]
           /\ Chunk(Tensor(w), tp, r) = [ i \in 1..n |-> <<w.value, r * n + i>> ]
<1> DEFINE n == Part(tp, w.name)
           L == FullSize(w.name)
           t == Tensor(w)
<1>1. n \in Nat \ {0} /\ L = tp * n
  BY DEF Sized
<1>2. t = [ i \in 1..L |-> <<w.value, i>> ]
  BY DEF Tensor
<1> HIDE DEF n, L, t
<1>3. /\ L \in Nat /\ r * n \in Nat /\ r * n + n <= L /\ r \in Nat
  <2>1. tp * n \in Nat /\ r \in Nat /\ r + 1 <= tp
    BY <1>1
  <2>2. (r + 1) * n <= tp * n /\ (r + 1) * n = r * n + n /\ r * n \in Nat
    BY <1>1, <2>1
  <2> QED BY <1>1, <2>1, <2>2
<1>4. t \in Seq({w.value} \X Nat) /\ Len(t) = L
  <2>1. \A i \in 1..L : <<w.value, i>> \in {w.value} \X Nat
    BY <1>3
  <2> QED BY <1>2, <1>3, <2>1
<1>5. Narrow(t, r * n, n) = [ i \in 1..n |-> <<w.value, r * n + i>> ]
  <2> DEFINE s == r * n
  <2>1. s \in Nat /\ s + n <= Len(t) /\ n \in Nat
    BY <1>1, <1>3, <1>4
  <2> HIDE DEF s
  <2>2. Narrow(t, s, n) = [ i \in 1..n |-> t[s + i] ]
    <3> DEFINE T == {w.value} \X Nat
    <3>1. t \in Seq(T)
      BY <1>4
    <3> HIDE DEF T
    <3> QED BY <2>1, <3>1, Narrowed
  <2>3. \A i \in 1..n : s + i \in 1..L
    BY <1>3, <1>4, <2>1
  <2>4. \A i \in 1..n : t[s + i] = <<w.value, s + i>>
    BY <1>2, <2>3
  <2>5. Narrow(t, s, n) = [ i \in 1..n |-> <<w.value, s + i>> ]
    BY <2>2, <2>4
  <2> QED BY <2>5 DEF s
<1>6. (Len(t) + tp - 1) \div tp = n
  <2>1. (tp * n + tp - 1) \div tp = n
    BY <1>1, Exact
  <2> QED BY <1>1, <1>4, <2>1
<1>7. Chunk(t, tp, r) = Narrow(t, r * n, n)
  BY <1>6 DEF Chunk
<1> QED BY <1>5, <1>7, Zenon DEF n, t

LEMMA Shard ==
    ASSUME NEW tp \in Nat \ {0}, Sized(tp), NEW r \in 0..tp - 1, NEW w,
           w.name \in DOMAIN Packed, NEW data
    PROVE  LET n == Part(tp, w.name)
               o == Offset(tp, w.name)
           IN  PutShard(data, tp, r, w, Packed[w.name][2]) =
                 [ i \in DOMAIN data |->
                     IF i \in o + 1..o + n THEN <<w.value, First(tp, r, w.name) + (i - o)>>
                     ELSE data[i] ]
<1> DEFINE n == Part(tp, w.name)
           o == Offset(tp, w.name)
           part == Chunk(Tensor(w), tp, r)
<1>1. w.name \in Known \ {"norm"} /\ n \in Nat \ {0} /\ o \in Nat
  BY Names DEF Sized
<1>2. o = ShardOffset(tp, Packed[w.name][2]) /\ First(tp, r, w.name) = r * n
  BY <1>1 DEF Offset, First
<1>3. part = [ i \in 1..n |-> <<w.value, r * n + i>> ]
  <2>1. w.name \in Known \ {"norm"}
    BY <1>1
  <2>2. Chunk(Tensor(w), tp, r) =
          [ i \in 1..Part(tp, w.name) |-> <<w.value, r * Part(tp, w.name) + i>> ]
    BY <2>1, Share
  <2> QED BY <2>2
<1>4. Len(part) = n
  BY <1>1, <1>3
<1>5. PutShard(data, tp, r, w, Packed[w.name][2]) =
        [ i \in DOMAIN data |-> IF i \in o + 1..o + n THEN part[i - o] ELSE data[i] ]
  BY <1>2, <1>4 DEF PutShard
<1> HIDE DEF n, o, part
<1>6. \A i \in o + 1..o + n : i - o \in 1..n
  BY <1>1
<1>7. \A i \in o + 1..o + n : part[i - o] = <<w.value, r * n + (i - o)>>
  BY <1>3, <1>6
<1>8. [ i \in DOMAIN data |-> IF i \in o + 1..o + n THEN part[i - o] ELSE data[i] ] =
        [ i \in DOMAIN data |->
            IF i \in o + 1..o + n THEN <<w.value, r * n + (i - o)>> ELSE data[i] ]
  BY <1>7
<1> QED BY <1>2, <1>5, <1>8 DEF n, o

LEMMA Plain ==
    ASSUME NEW tp \in Nat \ {0}, Sized(tp), NEW r \in 0..tp - 1, NEW m, NEW w,
           w.name \in Known \ DOMAIN Packed
    PROVE  PutWhole(tp, r, w, Target(m, w.name)) =
             [ i \in 1..Part(tp, w.name) |-> <<w.value, First(tp, r, w.name) + i>> ]
<1>1. CASE w.name = "norm"
  <2>1. Target(m, w.name) = "norm"
    BY <1>1 DEF Target
  <2>2. Part(tp, "norm") = 1 /\ FullSize("norm") = 1 /\ First(tp, r, "norm") = 0
    BY DEF Sized, First
  <2>3. \A i \in 1..1 : 0 + i = i
    OBVIOUS
  <2>4. [ i \in 1..1 |-> <<w.value, i>> ] = [ i \in 1..1 |-> <<w.value, 0 + i>> ]
    BY <2>3
  <2> QED BY <1>1, <2>1, <2>2, <2>4 DEF PutWhole, Tensor
<1>2. CASE w.name # "norm"
  <2> DEFINE n == Part(tp, w.name)
             p == Target(m, w.name)
  <2>1. p # "norm" /\ p \in Known \ DOMAIN Packed /\ Part(tp, p) = n
    BY <1>2, Names DEF Target, Part
  <2>2. LocalSize(tp, p) = n /\ First(tp, r, w.name) = r * n
    BY <1>2, <2>1 DEF Sized, First
  <2>3. Narrow(Tensor(w), r * n, n) = [ i \in 1..n |-> <<w.value, r * n + i>> ]
    BY <1>2, Share
  <2> QED BY <2>1, <2>2, <2>3 DEF PutWhole
<1> QED BY <1>1, <1>2

-----------------------------------------------------------------------------
(* load_model as a loop over the checkpoint.  The fold is a function on    *)
(* sets of rounds.                                                         *)
Loads(f, n, m, tp, r, c) ==
    f = [ s \in SUBSET (1..n) |->
            IF s = {} THEN Fresh(m, tp)
            ELSE LoadWeight(m, tp, r, f[s \ {SE!Max(s)}], c[SE!Max(s)]) ]

(* The fold is defined, round after round.                                 *)
LEMMA LoadsDefined ==
    ASSUME NEW n \in Nat, NEW m, NEW tp, NEW r, NEW c
    PROVE  \E f : Loads(f, n, m, tp, r, c)
<1> DEFINE S == { i \in 1..n + 1 : \E f : Loads(f, i - 1, m, tp, r, c) }
<1>1. 1 \in S
  <2> DEFINE g == [ s \in SUBSET (1..0) |-> Fresh(m, tp) ]
  <2>1. \A s \in SUBSET (1..0) : s = {}
    OBVIOUS
  <2>2. Loads(g, 0, m, tp, r, c)
    BY <2>1 DEF Loads
  <2> HIDE DEF g
  <2> QED BY <2>2
<1>2. ASSUME NEW i \in 1..n, i \in S PROVE i + 1 \in S
  <2>1. PICK f : Loads(f, i - 1, m, tp, r, c)
    BY <1>2
  <2> DEFINE Top(s) == SE!Max(s)
             g == [ s \in SUBSET (1..i) |->
                      IF i \in s THEN LoadWeight(m, tp, r, f[s \ {i}], c[i]) ELSE f[s] ]
  <2>2. \A s \in SUBSET (1..i - 1) : f[s] = IF s = {} THEN Fresh(m, tp)
                                        ELSE LoadWeight(m, tp, r, f[s \ {Top(s)}], c[Top(s)])
    <3> HIDE DEF Top
    <3> SUFFICES f = [ s \in SUBSET (1..i - 1) |->
                         IF s = {} THEN Fresh(m, tp)
                         ELSE LoadWeight(m, tp, r, f[s \ {Top(s)}], c[Top(s)]) ]
      BY Zenon
    <3> QED BY <2>1 DEF Loads, Top
  <2>3. \A s \in SUBSET (1..i) :
          /\ i \in s => Top(s) = i /\ s \ {i} \in SUBSET (1..i) /\ i \notin s \ {i}
          /\ i \notin s => s \in SUBSET (1..i - 1) /\ s \ {Top(s)} \in SUBSET (1..i)
                           /\ i \notin s \ {Top(s)}
    <3>1. ASSUME NEW s \in SUBSET (1..i), i \in s PROVE Top(s) = i
      <4>1. i \in Nat
        OBVIOUS
      <4> QED BY <3>1, <4>1, LastRound
    <3>2. \A s \in SUBSET (1..i) : i \notin s => s \in SUBSET (1..i - 1)
      OBVIOUS
    <3> HIDE DEF Top
    <3> QED BY <3>1, <3>2
  <2>4. ASSUME NEW s \in SUBSET (1..i)
        PROVE  g[s] = IF s = {} THEN Fresh(m, tp)
                      ELSE LoadWeight(m, tp, r, g[s \ {Top(s)}], c[Top(s)])
    <3>1. CASE i \in s
      <4>1. Top(s) = i /\ g[s \ {i}] = f[s \ {i}] /\ s # {}
        BY <2>3, <3>1
      <4> HIDE DEF Top
      <4> QED BY <3>1, <4>1
    <3>2. CASE i \notin s
      <4>1. g[s \ {Top(s)}] = f[s \ {Top(s)}] /\ g[s] = f[s] /\ s \in SUBSET (1..i - 1)
        BY <2>3, <3>2
      <4> HIDE DEF Top, g
      <4> QED BY <2>2, <4>1
    <3> QED BY <3>1, <3>2
  <2>5. Loads(g, i, m, tp, r, c)
    <3>1. g = [ s \in SUBSET (1..i) |-> g[s] ]
      OBVIOUS
    <3>2. g = [ s \in SUBSET (1..i) |->
                  IF s = {} THEN Fresh(m, tp)
                  ELSE LoadWeight(m, tp, r, g[s \ {Top(s)}], c[Top(s)]) ]
      <4> HIDE DEF g, Top
      <4> QED BY <2>4, <3>1
    <3> HIDE DEF g
    <3> QED BY <3>2 DEF Loads
  <2>6. i + 1 - 1 = i /\ i + 1 \in 1..n + 1
    OBVIOUS
  <2>7. \E h : Loads(h, i + 1 - 1, m, tp, r, c)
    <3> HIDE DEF g
    <3> QED BY <2>5, <2>6
  <2> QED BY <2>6, <2>7
<1>3. 1..n + 1 \subseteq S
  <2> DEFINE z == n + 1
  <2>1. \A i \in 1..z - 1 : i \in S => i + 1 \in S
    BY <1>2
  <2>2. z \in Nat
    OBVIOUS
  <2> HIDE DEF z, S
  <2>3. 1..z \subseteq S
    BY <1>1, <2>1, <2>2, UpToInduction
  <2> QED BY <2>3 DEF z
<1>4. n + 1 \in S
  BY <1>3
<1>5. n + 1 - 1 = n
  OBVIOUS
<1> QED BY <1>4, <1>5

(* What has been loaded, weight after weight.                              *)
Rounds(states, m, tp, r, c) ==
    /\ states = [ k \in 0..Len(c) |-> states[k] ]
    /\ states[0] = Fresh(m, tp)
    /\ \A k \in 1..Len(c) : states[k] = LoadWeight(m, tp, r, states[k - 1], c[k])

LEMMA LoadRounds ==
    ASSUME NEW m, NEW tp, NEW r, NEW X, NEW c \in Seq(X)
    PROVE  \E states : Rounds(states, m, tp, r, c) /\ LoadOn(m, tp, r, c) = states[Len(c)]
<1> DEFINE n == Len(c)
           Top(s) == SE!Max(s)
           body(f, s) == IF s = {} THEN Fresh(m, tp)
                         ELSE LoadWeight(m, tp, r, f[s \ {Top(s)}], c[Top(s)])
           iter == CHOOSE f : f = [ s \in SUBSET (1..n) |-> body(f, s) ]
           states == [ k \in 0..n |-> iter[1..k] ]
<1>1. n \in Nat /\ DOMAIN c = 1..n
  OBVIOUS
<1>2. iter = [ s \in SUBSET (1..n) |-> body(iter, s) ]
  <2>1. PICK f : Loads(f, n, m, tp, r, c)
    BY <1>1, LoadsDefined
  <2>2. f = [ s \in SUBSET (1..n) |-> body(f, s) ]
    BY <2>1 DEF Loads
  <2> HIDE DEF body
  <2> QED BY <2>2
<1>3. \A s \in SUBSET (1..n) : iter[s] = body(iter, s)
  <2> HIDE DEF iter, body
  <2> QED BY <1>2, Zenon
<1>4. SE!FoldLeft(LAMBDA s, w : LoadWeight(m, tp, r, s, w), Fresh(m, tp), c) = iter[1..n]
  BY <1>1 DEF SE!FoldLeft, SE!MapThenFoldSet
<1>5. states[0] = Fresh(m, tp)
  <2>1. 1..0 = {} /\ states[0] = iter[1..0] /\ 1..0 \in SUBSET (1..n)
    <3> HIDE DEF iter
    <3> QED BY <1>1
  <2> HIDE DEF iter
  <2> QED BY <1>3, <2>1
<1>6. ASSUME NEW k \in 1..n PROVE states[k] = LoadWeight(m, tp, r, states[k - 1], c[k])
  <2>1. Top(1..k) = k
    BY LastRound
  <2>2. 1..k \in SUBSET (1..n) /\ 1..k # {} /\ (1..k) \ {k} = 1..k - 1
    <3>1. k \in Nat /\ k >= 1 /\ k <= n
      BY <1>1
    <3> HIDE DEF n
    <3>2. k \in 1..k /\ 1..k \subseteq 1..n
      BY <1>1, <3>1
    <3>3. \A x : x \in (1..k) \ {k} <=> x \in 1..k - 1
      BY <3>1
    <3> QED BY <3>2, <3>3
  <2>3. states[k] = iter[1..k] /\ states[k - 1] = iter[1..k - 1]
    <3> HIDE DEF iter
    <3> QED BY <1>1
  <2>4. iter[1..k] = body(iter, 1..k)
    <3> HIDE DEF iter, body
    <3> QED BY <1>3, <2>2
  <2> HIDE DEF iter, states, Top
  <2> QED BY <2>1, <2>2, <2>3, <2>4
<1>7. states[n] = iter[1..n]
  <2> HIDE DEF iter
  <2> QED BY <1>1
<1>8. states = [ k \in 0..n |-> states[k] ]
  <2> HIDE DEF iter
  <2> QED OBVIOUS
<1>9. LoadOn(m, tp, r, c) = states[n]
  <2> HIDE DEF iter, states
  <2> QED BY <1>4, <1>7 DEF LoadOn
<1> HIDE DEF states
<1> QED BY <1>5, <1>6, <1>8, <1>9 DEF Rounds

-----------------------------------------------------------------------------
(* What every rank has of the weights it was given.                        *)

(* A checkpoint one rank of a model can be given.                          *)
Given(m, tp, r, c) ==
    /\ m \in Models /\ tp \in Nat \ {0} /\ r \in 0..tp - 1 /\ Constructible(m, tp)
    /\ c \in Seq([name : Known \cup {"visual"}, value : STRING])
    /\ \A i \in 1..Len(c) : c[i].value # NotLoaded
    /\ m = [family |-> "qwen3", tied |-> TRUE] =>
          \A i, j \in 1..Len(c) :
             {c[i].name, c[j].name} \subseteq {"embed_tokens", "lm_head"} =>
                c[i].value = c[j].value

(* The state of load_model after k weights, none of them refused.          *)
Recorded(s) ==
    /\ s = [ok |-> s.ok, data |-> s.data, selected |-> s.selected, loaded |-> s.loaded,
            shards |-> s.shards, alias |-> s.alias]
    /\ s.ok \in BOOLEAN
Stored(m) == { Storage(m, p) : p \in Parameters(m) }
Shaped(m, tp, data) ==
    /\ data = [ p \in Stored(m) |-> data[p] ]
    /\ \A p \in Stored(m) : data[p] = [ i \in 1..LocalSize(tp, p) |-> data[p][i] ]
Keeps(m, tp, r, w, data) ==
    \A i \in 1..Part(tp, w.name) :
        data[Where(m, w.name)][Offset(tp, w.name) + i] = <<w.value, First(tp, r, w.name) + i>>
Taken(m, c, k) == { i \in 1..k : Included(m, c[i].name) }
Targets(m, c, k) == { ParameterOf(m, c[i].name) : i \in Taken(m, c, k) }
ShardsIn(names) ==
    [ p \in {"qkv_proj", "gate_up_proj"} |->
        { Packed[n][2] : n \in { n \in names \cap DOMAIN Packed : Packed[n][1] = p } } ]

Loading(m, tp, r, c, k, s) ==
    /\ Shaped(m, tp, s.data)
    /\ s.selected = { c[i].name : i \in Taken(m, c, k) }
    /\ \A i, j \in Taken(m, c, k) : c[i].name = c[j].name => i = j
    /\ \A i \in Taken(m, c, k) : c[i].name \in Known /\ Keeps(m, tp, r, c[i], s.data)
    /\ Targets(m, c, k) \subseteq Parameters(m) \cap s.loaded
    /\ Parameters(m) \cap s.loaded \subseteq Targets(m, c, k)
    /\ s.shards = ShardsIn(s.selected)
    /\ m.family = "qwen3_vl" =>
         /\ \A i \in Taken(m, c, k) :
               ParameterOf(m, c[i].name) = "embed_tokens" => s.alias = c[i].value
         /\ s.alias # NotLoaded => "embed_tokens" \in Targets(m, c, k)

(* Where the weights of a model go.                                        *)
LEMMA Placement ==
    ASSUME NEW m \in Models, NEW name \in Known, ParameterOf(m, name) \in Parameters(m)
    PROVE  /\ Where(m, name) \in Stored(m)
           /\ name \in DOMAIN Packed =>
                /\ Where(m, name) = Packed[name][1] /\ ParameterOf(m, name) = Packed[name][1]
                /\ Packed[name][1] \in {"qkv_proj", "gate_up_proj"}
           /\ name \notin DOMAIN Packed =>
                /\ Where(m, name) \notin {"qkv_proj", "gate_up_proj"}
                /\ ParameterOf(m, name) = Target(m, name)
                /\ \A tp : LocalSize(tp, Where(m, name)) = LocalSize(tp, name)
<1>1. Where(m, name) \in Stored(m)
  BY DEF Where, Stored
<1>2. CASE name \in DOMAIN Packed
  BY <1>1, <1>2, Names DEF Where, ParameterOf, Storage
<1>3. CASE name \notin DOMAIN Packed
  <2>1. ParameterOf(m, name) = Target(m, name)
    BY <1>3 DEF ParameterOf
  <2>2. Target(m, name) \in {name, "embed_tokens"} /\ (Target(m, name) # name => name = "lm_head")
    BY DEF Target
  <2>3. /\ Where(m, name) \in {name, "embed_tokens"}
        /\ (Where(m, name) # name => name = "lm_head")
    BY <2>1, <2>2 DEF Where, Storage
  <2>4. name \notin {"qkv_proj", "gate_up_proj"}
    BY <1>3, Names
  <2>5. \A tp : LocalSize(tp, "lm_head") = LocalSize(tp, "embed_tokens")
    BY DEF LocalSize
  <2> QED BY <1>1, <1>3, <2>1, <2>3, <2>4, <2>5
<1> QED BY <1>2, <1>3

(* Two weights share a tensor if it is the same parameter, or if Qwen3     *)
(* ties two parameters.                                                    *)
LEMMA Shared ==
    ASSUME NEW m \in Models, NEW a \in Known \ DOMAIN Packed, NEW b \in Known \ DOMAIN Packed,
           ParameterOf(m, a) \in Parameters(m), ParameterOf(m, b) \in Parameters(m),
           Where(m, a) = Where(m, b), ParameterOf(m, a) # ParameterOf(m, b)
    PROVE  /\ m = [family |-> "qwen3", tied |-> TRUE]
           /\ {a, b} \subseteq {"embed_tokens", "lm_head"}
<1>1. ParameterOf(m, a) = Target(m, a) /\ ParameterOf(m, b) = Target(m, b)
  BY DEF ParameterOf
<1>2. m.tied /\ "lm_head" \in {Target(m, a), Target(m, b)}
      /\ "embed_tokens" \in {Target(m, a), Target(m, b)}
  BY <1>1 DEF Where, Storage
<1>3. m.family = "qwen3"
  BY <1>1, <1>2 DEF Parameters
<1>4. m.tied \in BOOLEAN /\ m = [family |-> m.family, tied |-> m.tied]
  BY DEF Models
<1>5. Target(m, a) = a /\ Target(m, b) = b
  BY <1>3 DEF Target
<1> QED BY <1>2, <1>3, <1>4, <1>5

(* Shards of one parameter do not overlap.                                 *)
LEMMA Apart ==
    ASSUME NEW tp, Sized(tp), NEW a \in DOMAIN Packed, NEW b \in DOMAIN Packed, a # b,
           Packed[a][1] = Packed[b][1],
           NEW i \in 1..Part(tp, a)
    PROVE  Offset(tp, a) + i \notin Offset(tp, b) + 1..Offset(tp, b) + Part(tp, b)
<1> DEFINE q == Part(tp, "q_proj")
           k == Part(tp, "k_proj")
           n == Part(tp, "gate_proj")
<1>1. /\ q \in Nat \ {0} /\ k \in Nat \ {0} /\ n \in Nat \ {0}
      /\ Part(tp, "v_proj") = k /\ Part(tp, "up_proj") = n
      /\ Offset(tp, "q_proj") = 0 /\ Offset(tp, "k_proj") = q /\ Offset(tp, "v_proj") = q + k
      /\ Offset(tp, "gate_proj") = 0 /\ Offset(tp, "up_proj") = n
  BY Names DEF Sized
<1> HIDE DEF q, k, n
<1>2. \/ a \in {"q_proj", "k_proj", "v_proj"} /\ b \in {"q_proj", "k_proj", "v_proj"}
      \/ a \in {"gate_proj", "up_proj"} /\ b \in {"gate_proj", "up_proj"}
  BY Names
<1>3. CASE a = "q_proj" /\ b \in {"k_proj", "v_proj"}
  BY <1>1, <1>3 DEF q
<1>4. CASE a = "k_proj" /\ b \in {"q_proj", "v_proj"}
  BY <1>1, <1>4 DEF q, k
<1>5. CASE a = "v_proj" /\ b \in {"q_proj", "k_proj"}
  BY <1>1, <1>5 DEF q, k
<1>6. CASE {a, b} = {"gate_proj", "up_proj"}
  BY <1>1, <1>6 DEF n
<1> QED BY <1>2, <1>3, <1>4, <1>5, <1>6

LEMMA TakenNext ==
    ASSUME NEW m, NEW c, NEW k \in Nat \ {0}
    PROVE  Taken(m, c, k) = Taken(m, c, k - 1) \cup IF Included(m, c[k].name) THEN {k} ELSE {}
<1>1. 1..k = (1..k - 1) \cup {k}
  OBVIOUS
<1> QED BY <1>1 DEF Taken

(* A shard lies in its parameter.                                          *)
LEMMA Inside ==
    ASSUME NEW tp, Sized(tp), NEW a \in DOMAIN Packed, NEW i \in 1..Part(tp, a)
    PROVE  Offset(tp, a) + i \in 1..LocalSize(tp, Packed[a][1])
<1> DEFINE q == Part(tp, "q_proj")
           k == Part(tp, "k_proj")
           n == Part(tp, "gate_proj")
<1>1. /\ q \in Nat \ {0} /\ k \in Nat \ {0} /\ n \in Nat \ {0}
      /\ Part(tp, "v_proj") = k /\ Part(tp, "up_proj") = n
      /\ Offset(tp, "q_proj") = 0 /\ Offset(tp, "k_proj") = q /\ Offset(tp, "v_proj") = q + k
      /\ Offset(tp, "gate_proj") = 0 /\ Offset(tp, "up_proj") = n
      /\ LocalSize(tp, "qkv_proj") = q + 2 * k /\ LocalSize(tp, "gate_up_proj") = 2 * n
  BY Names DEF Sized
<1> HIDE DEF q, k, n
<1>2. CASE a = "q_proj"
  BY <1>1, <1>2, Names DEF q
<1>3. CASE a = "k_proj"
  BY <1>1, <1>3, Names DEF k
<1>4. CASE a = "v_proj"
  BY <1>1, <1>4, Names
<1>5. CASE a = "gate_proj"
  BY <1>1, <1>5, Names DEF n
<1>6. CASE a = "up_proj"
  BY <1>1, <1>6, Names
<1> QED BY <1>2, <1>3, <1>4, <1>5, <1>6, Names

LEMMA OffsetNat ==
    ASSUME NEW tp, Sized(tp), NEW name \in Known
    PROVE  Offset(tp, name) \in Nat /\ Part(tp, name) \in Nat \ {0}
<1>1. \A x \in Known : Part(tp, x) \in Nat \ {0}
  BY DEF Sized
<1>2. Part(tp, "q_proj") \in Nat /\ Part(tp, "k_proj") \in Nat /\ Part(tp, "gate_proj") \in Nat
  BY <1>1, Names
<1>3. /\ Offset(tp, "q_proj") = 0 /\ Offset(tp, "k_proj") = Part(tp, "q_proj")
      /\ Offset(tp, "v_proj") = Part(tp, "q_proj") + Part(tp, "k_proj")
      /\ Offset(tp, "gate_proj") = 0 /\ Offset(tp, "up_proj") = Part(tp, "gate_proj")
      /\ \A x \in Known \ DOMAIN Packed : Offset(tp, x) = 0
  BY DEF Sized
<1>4. \A x \in {"q_proj", "k_proj", "v_proj", "gate_proj", "up_proj"} : Offset(tp, x) \in Nat
  <2>1. Offset(tp, "k_proj") \in Nat /\ Offset(tp, "v_proj") \in Nat
    BY <1>2, <1>3
  <2> QED BY <1>2, <1>3, <2>1
<1>5. Offset(tp, name) \in Nat
  BY <1>3, <1>4, Names
<1> QED BY <1>1, <1>5

(* What is noted of a weight, whatever it is.                              *)
NotedAt(m, c, k, names) ==
    /\ Taken(m, c, k) = Taken(m, c, k - 1) \cup {k}
    /\ names \cup {c[k].name} = { c[i].name : i \in Taken(m, c, k) }
    /\ \A i, j \in Taken(m, c, k) : c[i].name = c[j].name => i = j
    /\ Targets(m, c, k) = Targets(m, c, k - 1) \cup {ParameterOf(m, c[k].name)}

LEMMA Noted ==
    ASSUME NEW m, NEW tp, NEW r, NEW c, NEW k \in Nat \ {0}, NEW s,
           Loading(m, tp, r, c, k - 1, s), Included(m, c[k].name), c[k].name \notin s.selected
    PROVE  NotedAt(m, c, k, s.selected)
<1>1. Taken(m, c, k) = Taken(m, c, k - 1) \cup {k}
  BY TakenNext
<1>2. s.selected = { c[i].name : i \in Taken(m, c, k - 1) }
      /\ \A i, j \in Taken(m, c, k - 1) : c[i].name = c[j].name => i = j
  BY DEF Loading
<1>3. \A i \in Taken(m, c, k - 1) : c[i].name # c[k].name
  BY <1>2
<1>4. s.selected \cup {c[k].name} = { c[i].name : i \in Taken(m, c, k) }
  BY <1>1, <1>2
<1>5. \A i, j \in Taken(m, c, k) : c[i].name = c[j].name => i = j
  BY <1>1, <1>2, <1>3
<1>6. Targets(m, c, k) = Targets(m, c, k - 1) \cup {ParameterOf(m, c[k].name)}
  BY <1>1 DEF Targets
<1> QED BY <1>1, <1>4, <1>5, <1>6 DEF NotedAt

LEMMA ShardsNext ==
    ASSUME NEW names, NEW name
    PROVE  /\ name \notin DOMAIN Packed => ShardsIn(names \cup {name}) = ShardsIn(names)
           /\ name \in DOMAIN Packed =>
                ShardsIn(names \cup {name}) =
                  [ShardsIn(names) EXCEPT ![Packed[name][1]] = @ \cup {Packed[name][2]}]
<1> DEFINE S(x, p) == { Packed[n][2] : n \in { n \in x \cap DOMAIN Packed : Packed[n][1] = p } }
<1>1. ASSUME NEW p
      PROVE  S(names \cup {name}, p) = S(names, p) \cup
               IF name \in DOMAIN Packed /\ Packed[name][1] = p THEN {Packed[name][2]} ELSE {}
  OBVIOUS
<1>2. \A x : ShardsIn(x) = [ p \in {"qkv_proj", "gate_up_proj"} |-> S(x, p) ]
  BY DEF ShardsIn
<1> HIDE DEF S
<1>3. CASE name \notin DOMAIN Packed
  <2>1. \A p : S(names \cup {name}, p) = S(names, p)
    BY <1>1, <1>3
  <2> QED BY <1>2, <1>3, <2>1
<1>4. CASE name \in DOMAIN Packed
  <2> DEFINE f == ShardsIn(names)
             g == ShardsIn(names \cup {name})
             u == Packed[name][1]
             v == Packed[name][2]
             D == {"qkv_proj", "gate_up_proj"}
  <2>1. f = [ p \in D |-> S(names, p) ] /\ g = [ p \in D |-> S(names \cup {name}, p) ]
    BY <1>2
  <2>2. \A p \in D : g[p] = f[p] \cup IF u = p THEN {v} ELSE {}
    BY <1>1, <1>4, <2>1
  <2> HIDE DEF f, g, u, v, D
  <2>4. \A p \in D : p # u => g[p] = f[p]
    BY <2>2
  <2>5. \A p \in D : p = u => g[p] = f[p] \cup {v}
    BY <2>2
  <2>6. f = [ p \in D |-> f[p] ] /\ g = [ p \in D |-> g[p] ]
    BY <2>1
  <2>3. g = [f EXCEPT ![u] = @ \cup {v}]
    BY <2>4, <2>5, <2>6
  <2> QED BY <1>4, <2>3 DEF f, g, u, v
<1> QED BY <1>3, <1>4

LEMMA LoadingPacked ==
    ASSUME NEW m, NEW tp, NEW r, NEW c, Given(m, tp, r, c), NEW k \in 1..Len(c), NEW s,
           Recorded(s), Loading(m, tp, r, c, k - 1, s),
           Included(m, c[k].name), c[k].name \notin s.selected, c[k].name \in DOMAIN Packed,
           NEW t, t = LoadPacked(tp, r, s, c[k])
    PROVE  Recorded(t) /\ Loading(m, tp, r, c, k, t)
<1> DEFINE w == c[k]
           p == Packed[w.name][1]
           h == Packed[w.name][2]
           d == PutShard(s.data[p], tp, r, w, h)
           o == Offset(tp, w.name)
           n == Part(tp, w.name)
           a == First(tp, r, w.name)
<1>1. t = [ok |-> h \notin s.shards[p], data |-> [s.data EXCEPT ![p] = d],
           selected |-> s.selected \cup {w.name}, loaded |-> s.loaded \cup {p},
           shards |-> [s.shards EXCEPT ![p] = @ \cup {h}], alias |-> s.alias]
  BY DEF LoadPacked, Selected, Recorded
<1>2. /\ m \in Models /\ tp \in Nat \ {0} /\ r \in 0..tp - 1 /\ Sized(tp) /\ k \in Nat \ {0}
  <2>1. m \in Models /\ tp \in Nat \ {0} /\ r \in 0..tp - 1 /\ Constructible(m, tp)
    BY DEF Given
  <2>2. k \in Nat \ {0}
    BY DEF Given
  <2> QED BY <2>1, <2>2, Sizes
<1>3. /\ w.name \in Known /\ p \in {"qkv_proj", "gate_up_proj"}
      /\ p \in Parameters(m) /\ p \in Stored(m)
      /\ ParameterOf(m, w.name) = p /\ Where(m, w.name) = p
  BY Names DEF Parameters, Stored, Storage, ParameterOf, Where
<1>4. Recorded(t)
  <2> HIDE DEF d, p, h
  <2> QED BY <1>1 DEF Recorded
<1>5. d = [ i \in DOMAIN s.data[p] |->
              IF i \in o + 1..o + n THEN <<w.value, a + (i - o)>> ELSE s.data[p][i] ]
  BY <1>2, Shard
<1> DEFINE L == LocalSize(tp, p)
<1>6. DOMAIN s.data[p] = 1..L
  <2>1. s.data[p] = [ i \in 1..L |-> s.data[p][i] ]
    BY <1>3 DEF Loading, Shaped
  <2> QED BY <2>1
<1>7. n \in Nat \ {0} /\ o \in Nat /\ \A i \in 1..n : o + i \in 1..L
  <2>1. n \in Nat \ {0} /\ o \in Nat
    BY <1>2, <1>3, OffsetNat
  <2> QED BY <1>2, <2>1, Inside
<1> HIDE DEF d, n, o, a, L
<1>8. d = [ i \in 1..L |-> d[i] ]
  BY <1>5, <1>6
<1>9. \A i \in 1..n : d[o + i] = <<w.value, a + i>>
  <2> TAKE i \in 1..n
  <2>1. o + i \in 1..L
    BY <1>7
  <2>2. o + i \in o + 1..o + n /\ (o + i) - o = i
    <3> HIDE DEF w, p, h
    <3> QED BY <1>7
  <2> HIDE DEF w, p, h
  <2> QED BY <1>5, <1>6, <2>1, <2>2
<1>10. \A i \in 1..L : i \notin o + 1..o + n => d[i] = s.data[p][i]
  BY <1>5, <1>6
<1>11. /\ t.data = [s.data EXCEPT ![p] = d] /\ t.selected = s.selected \cup {w.name}
       /\ t.loaded = s.loaded \cup {p} /\ t.shards = [s.shards EXCEPT ![p] = @ \cup {h}]
       /\ t.alias = s.alias
  <2> HIDE DEF p, h, w
  <2> QED BY <1>1
<1>12. /\ s.data = [ x \in Stored(m) |-> s.data[x] ]
       /\ \A x \in Stored(m) : s.data[x] = [ i \in 1..LocalSize(tp, x) |-> s.data[x][i] ]
  BY DEF Loading, Shaped
<1>13. t.data[p] = d /\ \A x : x # p /\ x \in Stored(m) => t.data[x] = s.data[x]
  <2> HIDE DEF p
  <2> QED BY <1>3, <1>11, <1>12
<1>14. Shaped(m, tp, t.data)
  <2>1. t.data = [ x \in Stored(m) |-> t.data[x] ]
    <3> HIDE DEF p
    <3> QED BY <1>11, <1>12
  <2>2. ASSUME NEW x \in Stored(m) PROVE t.data[x] = [ i \in 1..LocalSize(tp, x) |-> t.data[x][i] ]
    <3> HIDE DEF p
    <3> QED BY <1>8, <1>12, <1>13 DEF L
  <2> QED BY <2>1, <2>2 DEF Shaped
<1>15. /\ Taken(m, c, k) = Taken(m, c, k - 1) \cup {k}
       /\ t.selected = { c[i].name : i \in Taken(m, c, k) }
       /\ \A i, j \in Taken(m, c, k) : c[i].name = c[j].name => i = j
       /\ Targets(m, c, k) = Targets(m, c, k - 1) \cup {p}
  <2>1. /\ Taken(m, c, k) = Taken(m, c, k - 1) \cup {k}
        /\ s.selected \cup {c[k].name} = { c[i].name : i \in Taken(m, c, k) }
        /\ \A i, j \in Taken(m, c, k) : c[i].name = c[j].name => i = j
        /\ Targets(m, c, k) = Targets(m, c, k - 1) \cup {ParameterOf(m, c[k].name)}
    <3>1. NotedAt(m, c, k, s.selected)
      BY <1>2, Noted
    <3> QED BY <3>1, Zenon DEF NotedAt
  <2> HIDE DEF p
  <2> QED BY <1>3, <1>11, <2>1, Zenon DEF w
<1>16. \A i \in Taken(m, c, k - 1) :
          c[i].name \in Known /\ Keeps(m, tp, r, c[i], s.data)
          /\ ParameterOf(m, c[i].name) \in Parameters(m) /\ c[i].name # w.name
  BY DEF Loading, Targets
<1>17. ASSUME NEW i \in Taken(m, c, k - 1) PROVE Keeps(m, tp, r, c[i], t.data)
  <2> DEFINE name == c[i].name
             y == Where(m, name)
  <2>1. /\ name \in Known /\ name # w.name /\ ParameterOf(m, name) \in Parameters(m)
        /\ Keeps(m, tp, r, c[i], s.data) /\ y \in Stored(m)
    BY <1>2, <1>16, Placement
  <2>2. CASE y # p
    <3>1. t.data[y] = s.data[y]
      BY <1>13, <2>1, <2>2
    <3> QED BY <2>1, <3>1 DEF Keeps
  <2>3. CASE y = p
    <3>1. name \in DOMAIN Packed /\ Packed[name][1] = p
      BY <1>2, <1>3, <2>1, <2>3, Placement
    <3>2. ASSUME NEW x \in 1..Part(tp, name)
          PROVE  t.data[y][Offset(tp, name) + x] = s.data[y][Offset(tp, name) + x]
      <4>1. Offset(tp, name) + x \notin o + 1..o + n
        BY <1>2, <2>1, <3>1, Apart DEF o, n
      <4>2. Offset(tp, name) + x \in 1..L
        BY <1>2, <3>1, Inside DEF L
      <4> HIDE DEF p, name, y
      <4> QED BY <1>10, <1>13, <2>3, <4>1, <4>2
    <3> QED BY <2>1, <3>2 DEF Keeps
  <2> QED BY <2>2, <2>3
<1>18. Keeps(m, tp, r, w, t.data)
  BY <1>3, <1>9, <1>13 DEF Keeps, o, n, a
<1>19. \A i \in Taken(m, c, k) : c[i].name \in Known /\ Keeps(m, tp, r, c[i], t.data)
  BY <1>3, <1>15, <1>16, <1>17, <1>18
<1>20. /\ Targets(m, c, k) \subseteq Parameters(m) \cap t.loaded
       /\ Parameters(m) \cap t.loaded \subseteq Targets(m, c, k)
  <2>1. /\ Targets(m, c, k - 1) \subseteq Parameters(m) \cap s.loaded
        /\ Parameters(m) \cap s.loaded \subseteq Targets(m, c, k - 1)
    BY DEF Loading
  <2> HIDE DEF p
  <2> QED BY <1>3, <1>11, <1>15, <2>1
<1>21. t.shards = ShardsIn(t.selected)
  <2>1. s.shards = ShardsIn(s.selected)
    BY DEF Loading
  <2>2. ShardsIn(s.selected \cup {w.name}) =
          [ShardsIn(s.selected) EXCEPT ![p] = @ \cup {h}]
    BY ShardsNext
  <2> HIDE DEF p, h, w
  <2> QED BY <1>11, <2>1, <2>2
<1>22. m.family = "qwen3_vl" =>
         /\ \A i \in Taken(m, c, k) :
               ParameterOf(m, c[i].name) = "embed_tokens" => t.alias = c[i].value
         /\ t.alias # NotLoaded => "embed_tokens" \in Targets(m, c, k)
  <2>1. m.family = "qwen3_vl" =>
          /\ \A i \in Taken(m, c, k - 1) :
                ParameterOf(m, c[i].name) = "embed_tokens" => s.alias = c[i].value
          /\ s.alias # NotLoaded => "embed_tokens" \in Targets(m, c, k - 1)
    BY DEF Loading
  <2> HIDE DEF p
  <2> QED BY <1>3, <1>11, <1>15, <2>1 DEF w
<1> QED BY <1>4, <1>14, <1>15, <1>19, <1>20, <1>21, <1>22 DEF Loading

(* The embedding and the head are shared out alike.                        *)
LEMMA Alike ==
    ASSUME NEW m, NEW tp, NEW r, NEW a \in {"embed_tokens", "lm_head"},
           NEW b \in {"embed_tokens", "lm_head"}
    PROVE  /\ Part(tp, a) = Part(tp, b) /\ First(tp, r, a) = First(tp, r, b)
           /\ Offset(tp, a) = 0 /\ a \in Known \ DOMAIN Packed
<1>1. a \in Known \ DOMAIN Packed /\ a # "norm" /\ b # "norm"
  BY Names
<1>2. Part(tp, a) = Part(tp, b)
  BY DEF Part
<1> QED BY <1>1, <1>2 DEF First, Offset

(* The weights that go to the embedding, or to a parameter of their name.  *)
LEMMA PlainTargets ==
    ASSUME NEW m \in Models, NEW name \in Known \ DOMAIN Packed, Target(m, name) \in Parameters(m)
    PROVE  /\ ParameterOf(m, name) = Target(m, name) /\ Where(m, name) = Storage(m, Target(m, name))
           /\ name \in Parameters(m) => Target(m, name) = name
           /\ Target(m, name) = "embed_tokens" => name \in {"embed_tokens", "lm_head"}
<1>1. ParameterOf(m, name) = Target(m, name)
  BY DEF ParameterOf
<1>2. m.family = "qwen3_vl" => m.tied
  BY DEF Models
<1>3. name \in Parameters(m) => Target(m, name) = name
  BY <1>2 DEF Target, Parameters
<1> QED BY <1>1, <1>3 DEF Where, Target

(* A second value for a tensor of several names: it is the first.          *)
LEMMA LoadingAlias ==
    ASSUME NEW m, NEW tp, NEW r, NEW c, Given(m, tp, r, c), NEW k \in 1..Len(c), NEW s,
           Recorded(s), Loading(m, tp, r, c, k - 1, s),
           Included(m, c[k].name), c[k].name \notin s.selected, c[k].name \in Known \ DOMAIN Packed,
           Target(m, c[k].name) \in Parameters(m),
           Aliased(m, Target(m, c[k].name)), s.alias # NotLoaded, s.alias = c[k].value,
           NEW t, Recorded(t), t.data = s.data, t.selected = s.selected \cup {c[k].name},
           t.loaded = s.loaded \cup {c[k].name}, t.shards = s.shards, t.alias = s.alias
    PROVE  Loading(m, tp, r, c, k, t)
<1> DEFINE w == c[k]
<1>1. /\ m \in Models /\ k \in Nat \ {0} /\ m.family = "qwen3_vl" /\ Target(m, w.name) = "embed_tokens"
  BY DEF Given, Aliased
<1>2. /\ ParameterOf(m, w.name) = "embed_tokens" /\ Where(m, w.name) = Storage(m, "embed_tokens")
      /\ w.name \in {"embed_tokens", "lm_head"}
      /\ w.name \in Parameters(m) => w.name = "embed_tokens"
  BY <1>1, PlainTargets
<1>3. NotedAt(m, c, k, s.selected)
  BY <1>1, Noted
<1>4. /\ Taken(m, c, k) = Taken(m, c, k - 1) \cup {k}
      /\ t.selected = { c[i].name : i \in Taken(m, c, k) }
      /\ \A i, j \in Taken(m, c, k) : c[i].name = c[j].name => i = j
      /\ Targets(m, c, k) = Targets(m, c, k - 1) \cup {"embed_tokens"}
  BY <1>2, <1>3, Zenon DEF NotedAt
<1>5. /\ Shaped(m, tp, t.data)
      /\ \A i \in Taken(m, c, k - 1) : c[i].name \in Known /\ Keeps(m, tp, r, c[i], t.data)
      /\ Targets(m, c, k - 1) \subseteq Parameters(m) \cap s.loaded
      /\ Parameters(m) \cap s.loaded \subseteq Targets(m, c, k - 1)
      /\ s.shards = ShardsIn(s.selected)
      /\ \A i \in Taken(m, c, k - 1) :
            ParameterOf(m, c[i].name) = "embed_tokens" => s.alias = c[i].value
      /\ "embed_tokens" \in Targets(m, c, k - 1)
  BY <1>1 DEF Loading
<1>6. Keeps(m, tp, r, w, t.data)
  <2>1. PICK i \in Taken(m, c, k - 1) : ParameterOf(m, c[i].name) = "embed_tokens"
    BY <1>5 DEF Targets
  <2> DEFINE a == c[i].name
  <2>2. c[i].value = w.value /\ a \in Known /\ Keeps(m, tp, r, c[i], t.data)
    BY <1>5, <2>1
  <2>3. a \notin DOMAIN Packed /\ Target(m, a) = "embed_tokens"
    BY <2>1, <2>2, Names DEF ParameterOf
  <2>4. a \in {"embed_tokens", "lm_head"}
    BY <2>3 DEF Target
  <2>5. Where(m, a) = Where(m, w.name)
    BY <1>2, <2>1 DEF Where
  <2>6. /\ Part(tp, a) = Part(tp, w.name) /\ First(tp, r, a) = First(tp, r, w.name)
        /\ Offset(tp, a) = 0 /\ Offset(tp, w.name) = 0
    BY <1>2, <2>4, Alike
  <2> QED BY <2>2, <2>5, <2>6 DEF Keeps
<1>7. \A i \in Taken(m, c, k) : c[i].name \in Known /\ Keeps(m, tp, r, c[i], t.data)
  BY <1>4, <1>5, <1>6
<1>8. /\ Targets(m, c, k) \subseteq Parameters(m) \cap t.loaded
      /\ Parameters(m) \cap t.loaded \subseteq Targets(m, c, k)
  BY <1>2, <1>4, <1>5
<1>9. t.shards = ShardsIn(t.selected)
  <2>1. c[k].name \notin DOMAIN Packed
    OBVIOUS
  <2>2. ShardsIn(s.selected \cup {c[k].name}) = ShardsIn(s.selected)
    BY <2>1, ShardsNext, Zenon
  <2> QED BY <1>5, <2>2, Zenon
<1>10. /\ \A i \in Taken(m, c, k) :
             ParameterOf(m, c[i].name) = "embed_tokens" => t.alias = c[i].value
       /\ "embed_tokens" \in Targets(m, c, k)
  BY <1>4, <1>5
<1> QED BY <1>4, <1>5, <1>7, <1>8, <1>9, <1>10 DEF Loading

(* The first value for a parameter.                                        *)
LEMMA LoadingFirst ==
    ASSUME NEW m, NEW tp, NEW r, NEW c, Given(m, tp, r, c), NEW k \in 1..Len(c), NEW s,
           Recorded(s), Loading(m, tp, r, c, k - 1, s),
           Included(m, c[k].name), c[k].name \notin s.selected, c[k].name \in Known \ DOMAIN Packed,
           Target(m, c[k].name) \in Parameters(m), Target(m, c[k].name) \notin s.loaded,
           NEW t, Recorded(t), t.selected = s.selected \cup {c[k].name},
           t.data = [s.data EXCEPT ![Where(m, c[k].name)] =
                       PutWhole(tp, r, c[k], Target(m, c[k].name))],
           t.loaded = s.loaded \cup {Target(m, c[k].name), c[k].name}, t.shards = s.shards,
           t.alias = IF Aliased(m, Target(m, c[k].name)) THEN c[k].value ELSE s.alias
    PROVE  Loading(m, tp, r, c, k, t)
<1> DEFINE w == c[k]
           p == Target(m, w.name)
           y == Where(m, w.name)
           d == PutWhole(tp, r, w, p)
           n == Part(tp, w.name)
           a == First(tp, r, w.name)
<1>1. /\ m \in Models /\ tp \in Nat \ {0} /\ r \in 0..tp - 1 /\ Sized(tp) /\ k \in Nat \ {0}
  <2>1. m \in Models /\ tp \in Nat \ {0} /\ r \in 0..tp - 1 /\ Constructible(m, tp)
    BY DEF Given
  <2> QED BY <2>1, Sizes
<1>2. /\ ParameterOf(m, w.name) = p /\ y = Storage(m, p) /\ p \in Parameters(m)
      /\ w.name \in Parameters(m) => w.name = p
  <2> HIDE DEF w
  <2>1. w.name \in Known \ DOMAIN Packed /\ Target(m, w.name) \in Parameters(m)
    BY DEF w
  <2> QED BY <1>1, <2>1, PlainTargets
<1>3. y \in Stored(m) /\ y \notin {"qkv_proj", "gate_up_proj"} /\ LocalSize(tp, y) = n
  <2>1. LocalSize(tp, w.name) = n
    BY <1>1 DEF Sized
  <2>2. y \in Stored(m) /\ y \notin {"qkv_proj", "gate_up_proj"}
        /\ LocalSize(tp, y) = LocalSize(tp, w.name)
    BY <1>1, <1>2, Placement
  <2> QED BY <2>1, <2>2
<1>4. d = [ i \in 1..n |-> <<w.value, a + i>> ]
  BY <1>1, Plain
<1>5. /\ t.data = [s.data EXCEPT ![y] = d]
      /\ s.data = [ x \in Stored(m) |-> s.data[x] ]
      /\ \A x \in Stored(m) : s.data[x] = [ i \in 1..LocalSize(tp, x) |-> s.data[x][i] ]
  BY DEF Loading, Shaped
<1>6. NotedAt(m, c, k, s.selected)
  BY <1>1, Noted
<1>7. /\ Taken(m, c, k) = Taken(m, c, k - 1) \cup {k}
      /\ t.selected = { c[i].name : i \in Taken(m, c, k) }
      /\ \A i, j \in Taken(m, c, k) : c[i].name = c[j].name => i = j
      /\ Targets(m, c, k) = Targets(m, c, k - 1) \cup {p}
  <2> HIDE DEF p
  <2> QED BY <1>2, <1>6, Zenon DEF NotedAt
<1>8. /\ \A i \in Taken(m, c, k - 1) : c[i].name \in Known /\ Keeps(m, tp, r, c[i], s.data)
      /\ Targets(m, c, k - 1) \subseteq Parameters(m) \cap s.loaded
      /\ Parameters(m) \cap s.loaded \subseteq Targets(m, c, k - 1)
      /\ s.shards = ShardsIn(s.selected)
      /\ p \notin s.loaded /\ p \notin Targets(m, c, k - 1)
  BY DEF Loading
<1>9. \A i \in Taken(m, c, k - 1) :
        /\ ParameterOf(m, c[i].name) \in Parameters(m) /\ ParameterOf(m, c[i].name) # p
        /\ i \in 1..Len(c)
  <2>1. \A i \in Taken(m, c, k - 1) : ParameterOf(m, c[i].name) \in Targets(m, c, k - 1)
    BY DEF Targets
  <2>2. \A i \in Taken(m, c, k - 1) : i \in 1..k - 1
    BY DEF Taken
  <2>3. \A i \in 1..k - 1 : i \in 1..Len(c)
    <3>1. k \in 1..Len(c)
      OBVIOUS
    <3>2. Len(c) \in Int
      BY DEF Given
    <3> QED BY <3>1, <3>2
  <2> HIDE DEF p
  <2> QED BY <1>8, <2>1, <2>2, <2>3
<1> HIDE DEF d, n, a
<1>10. t.data[y] = d /\ \A x : x # y /\ x \in Stored(m) => t.data[x] = s.data[x]
  <2> HIDE DEF y
  <2> QED BY <1>3, <1>5
<1>11. Shaped(m, tp, t.data)
  <2>1. t.data = [ x \in Stored(m) |-> t.data[x] ]
    <3> HIDE DEF y
    <3> QED BY <1>5
  <2>2. d = [ i \in 1..LocalSize(tp, y) |-> d[i] ]
    <3> HIDE DEF y, w
    <3> QED BY <1>3, <1>4
  <2>3. ASSUME NEW x \in Stored(m) PROVE t.data[x] = [ i \in 1..LocalSize(tp, x) |-> t.data[x][i] ]
    <3> HIDE DEF y
    <3> QED BY <1>5, <1>10, <2>2
  <2> QED BY <2>1, <2>3 DEF Shaped
<1>12. Keeps(m, tp, r, w, t.data)
  <2>1. Offset(tp, w.name) = 0
    BY DEF Offset
  <2>2. \A i \in 1..n : 0 + i = i
    <3>1. n \in Nat
      BY <1>1, OffsetNat DEF n
    <3> QED BY <3>1
  <2>3. \A i \in 1..n : d[i] = <<w.value, a + i>>
    BY <1>4
  <2> QED BY <1>10, <2>1, <2>2, <2>3 DEF Keeps, n, a
<1>13. ASSUME NEW i \in Taken(m, c, k - 1) PROVE Keeps(m, tp, r, c[i], t.data)
  <2> DEFINE b == c[i].name
             z == Where(m, b)
  <2>1. /\ b \in Known /\ ParameterOf(m, b) \in Parameters(m) /\ Keeps(m, tp, r, c[i], s.data)
        /\ ParameterOf(m, b) # p /\ i \in 1..Len(c)
    BY <1>8, <1>9
  <2>2. z \in Stored(m) /\ (b \in DOMAIN Packed => z \in {"qkv_proj", "gate_up_proj"})
    BY <1>1, <2>1, Placement
  <2>3. CASE z # y
    <3>1. t.data[z] = s.data[z]
      BY <1>10, <2>2, <2>3
    <3> QED BY <2>1, <3>1 DEF Keeps
  <2>4. CASE z = y
    <3>1. b \in Known \ DOMAIN Packed
      BY <1>3, <2>1, <2>2, <2>4
    <3>2. m = [family |-> "qwen3", tied |-> TRUE] /\ {b, w.name} \subseteq {"embed_tokens", "lm_head"}
      BY <1>1, <1>2, <2>1, <2>4, <3>1, Shared
    <3>3. c[i].value = w.value
      BY <2>1, <3>2 DEF Given
    <3>4. /\ Part(tp, b) = Part(tp, w.name) /\ First(tp, r, b) = First(tp, r, w.name)
          /\ Offset(tp, b) = 0 /\ Offset(tp, w.name) = 0
      BY <3>2, Alike
    <3> QED BY <1>12, <2>4, <3>3, <3>4 DEF Keeps
  <2> QED BY <2>3, <2>4
<1>14. \A i \in Taken(m, c, k) : c[i].name \in Known /\ Keeps(m, tp, r, c[i], t.data)
  BY <1>7, <1>8, <1>12, <1>13
<1>15. /\ Targets(m, c, k) \subseteq Parameters(m) \cap t.loaded
       /\ Parameters(m) \cap t.loaded \subseteq Targets(m, c, k)
  <2>1. t.loaded = s.loaded \cup {p, w.name}
    OBVIOUS
  <2> HIDE DEF p, w
  <2> QED BY <1>2, <1>7, <1>8, <2>1
<1>16. t.shards = ShardsIn(t.selected)
  <2>1. c[k].name \notin DOMAIN Packed
    OBVIOUS
  <2>2. ShardsIn(s.selected \cup {c[k].name}) = ShardsIn(s.selected)
    BY <2>1, ShardsNext, Zenon
  <2> QED BY <1>8, <2>2, Zenon
<1>17. m.family = "qwen3_vl" =>
         /\ \A i \in Taken(m, c, k) :
               ParameterOf(m, c[i].name) = "embed_tokens" => t.alias = c[i].value
         /\ t.alias # NotLoaded => "embed_tokens" \in Targets(m, c, k)
  <2> SUFFICES ASSUME m.family = "qwen3_vl"
               PROVE  /\ \A i \in Taken(m, c, k) :
                            ParameterOf(m, c[i].name) = "embed_tokens" => t.alias = c[i].value
                      /\ t.alias # NotLoaded => "embed_tokens" \in Targets(m, c, k)
    OBVIOUS
  <2>1. /\ \A i \in Taken(m, c, k - 1) :
              ParameterOf(m, c[i].name) = "embed_tokens" => s.alias = c[i].value
        /\ s.alias # NotLoaded => "embed_tokens" \in Targets(m, c, k - 1)
    BY DEF Loading
  <2>2. t.alias = IF p = "embed_tokens" THEN w.value ELSE s.alias
    BY DEF Aliased
  <2> HIDE DEF p
  <2> QED BY <1>2, <1>7, <1>9, <2>1, <2>2
<1> QED BY <1>7, <1>11, <1>14, <1>15, <1>16, <1>17 DEF Loading

LEMMA LoadingPlain ==
    ASSUME NEW m, NEW tp, NEW r, NEW c, Given(m, tp, r, c), NEW k \in 1..Len(c), NEW s,
           Recorded(s), Loading(m, tp, r, c, k - 1, s),
           Included(m, c[k].name), c[k].name \notin s.selected, c[k].name \in Known \ DOMAIN Packed,
           Target(m, c[k].name) \in Parameters(m),
           NEW t, t = LoadPlain(m, tp, r, s, c[k])
    PROVE  Recorded(t) /\ (t.ok => Loading(m, tp, r, c, k, t))
<1> DEFINE w == c[k]
           p == Target(m, w.name)
           d == PutWhole(tp, r, w, p)
<1>1. Where(m, w.name) = Storage(m, p)
  BY DEF Where, ParameterOf
<1>2. CASE Aliased(m, p) /\ s.alias # NotLoaded
  <2>1. t = [Selected(s, w) EXCEPT !.ok = s.alias = w.value, !.loaded = @ \cup {w.name}]
    BY <1>2 DEF LoadPlain
  <2> DEFINE fine == (s.alias = w.value)
  <2> HIDE DEF p, w
  <2>2. t = [ok |-> fine, data |-> s.data, selected |-> s.selected \cup {w.name},
             loaded |-> s.loaded \cup {w.name}, shards |-> s.shards, alias |-> s.alias]
    BY <2>1 DEF Selected, Recorded
  <2>3. Recorded(t)
    BY <2>2 DEF Recorded
  <2> HIDE DEF fine
  <2>4. ASSUME t.ok PROVE Loading(m, tp, r, c, k, t)
    <3>1. s.alias = w.value
      <4>1. t.ok = fine
        BY <2>2
      <4> QED BY <2>4, <4>1, Zenon DEF fine
    <3> QED BY <1>2, <2>2, <2>3, <3>1, LoadingAlias DEF p, w
  <2> QED BY <2>3, <2>4
<1>3. CASE ~ (Aliased(m, p) /\ s.alias # NotLoaded)
  <2> DEFINE fine == (p \notin s.loaded)
             al == IF Aliased(m, p) THEN w.value ELSE s.alias
  <2>1. t = [Selected(s, w) EXCEPT
                !.ok     = p \notin s.loaded,
                !.data[Storage(m, p)] = d,
                !.loaded = @ \cup {p, w.name},
                !.alias  = IF Aliased(m, p) THEN w.value ELSE @]
    BY <1>3 DEF LoadPlain
  <2> HIDE DEF p, w, d
  <2>2. t = [ok |-> fine, data |-> [s.data EXCEPT ![Storage(m, p)] = d],
             selected |-> s.selected \cup {w.name},
             loaded |-> s.loaded \cup {p, w.name}, shards |-> s.shards, alias |-> al]
    BY <2>1 DEF Selected, Recorded
  <2> HIDE DEF al
  <2>3. Recorded(t)
    BY <2>2 DEF Recorded
  <2> HIDE DEF fine
  <2>4. ASSUME t.ok PROVE Loading(m, tp, r, c, k, t)
    <3>1. p \notin s.loaded
      <4>1. t.ok = fine
        BY <2>2
      <4> QED BY <2>4, <4>1, Zenon DEF fine
    <3>2. /\ t.selected = s.selected \cup {w.name}
          /\ t.data = [s.data EXCEPT ![Where(m, w.name)] = d]
          /\ t.loaded = s.loaded \cup {p, w.name} /\ t.shards = s.shards /\ t.alias = al
      BY <1>1, <2>2
    <3> QED BY <2>3, <3>1, <3>2, LoadingFirst DEF p, w, d, al
  <2> QED BY <2>3, <2>4
<1> QED BY <1>2, <1>3

(* A weight is taken, passed over or refused.                              *)
LEMMA LoadingNext ==
    ASSUME NEW m, NEW tp, NEW r, NEW c, Given(m, tp, r, c), NEW k \in 1..Len(c), NEW s,
           Recorded(s), s.ok => Loading(m, tp, r, c, k - 1, s),
           NEW t, t = LoadWeight(m, tp, r, s, c[k])
    PROVE  Recorded(t) /\ (t.ok => Loading(m, tp, r, c, k, t))
<1> DEFINE name == c[k].name
           refused == name \in s.selected \/ (name \notin DOMAIN Packed
                                              /\ Target(m, name) \notin Parameters(m))
<1>1. k \in Nat \ {0} /\ name \in Known \cup {"visual"}
  <2> DEFINE X == Known \cup {"visual"}
             Y == [name : X, value : STRING]
  <2>1. c \in Seq(Y)
    BY DEF Given
  <2>2. c[k] \in Y /\ k \in Nat \ {0}
    <3> HIDE DEF Y
    <3> QED BY <2>1
  <2>3. c[k].name \in X
    <3> HIDE DEF X
    <3> QED BY <2>2
  <2> QED BY <2>2, <2>3
<1>2. CASE ~ s.ok
  BY <1>2 DEF LoadWeight
<1>3. CASE s.ok /\ ~ Included(m, name)
  <2>1. t = s
    BY <1>3 DEF LoadWeight
  <2>2. Taken(m, c, k) = Taken(m, c, k - 1)
    <3>1. Taken(m, c, k) = Taken(m, c, k - 1) \cup IF Included(m, c[k].name) THEN {k} ELSE {}
      BY <1>1, TakenNext
    <3> QED BY <1>3, <3>1
  <2>3. Targets(m, c, k) = Targets(m, c, k - 1)
    BY <2>2 DEF Targets
  <2>4. Loading(m, tp, r, c, k - 1, s)
    BY <1>3
  <2> HIDE DEF name, refused
  <2>5. Loading(m, tp, r, c, k, s)
    BY <2>2, <2>3, <2>4, Zenon DEF Loading
  <2> QED BY <2>1, <2>5
<1>4. CASE s.ok /\ Included(m, name) /\ refused
  <2>1. t = [s EXCEPT !.ok = FALSE]
    BY <1>4 DEF LoadWeight
  <2> HIDE DEF name, refused
  <2> QED BY <2>1 DEF Recorded
<1>5. CASE s.ok /\ Included(m, name) /\ ~ refused /\ name \in DOMAIN Packed
  <2>1. t = LoadPacked(tp, r, s, c[k])
    BY <1>5 DEF LoadWeight
  <2>2. Included(m, c[k].name) /\ c[k].name \notin s.selected /\ c[k].name \in DOMAIN Packed
        /\ Loading(m, tp, r, c, k - 1, s)
    BY <1>5
  <2> HIDE DEF name, refused
  <2> QED BY <2>1, <2>2, LoadingPacked
<1>6. CASE s.ok /\ Included(m, name) /\ ~ refused /\ name \notin DOMAIN Packed
  <2>1. t = LoadPlain(m, tp, r, s, c[k])
    BY <1>6 DEF LoadWeight
  <2>2. Target(m, name) \in Parameters(m)
    BY <1>6
  <2>3. name # "visual"
    BY <2>2 DEF Target, Parameters
  <2>4. Included(m, c[k].name) /\ c[k].name \notin s.selected /\ c[k].name \in Known \ DOMAIN Packed
        /\ Target(m, c[k].name) \in Parameters(m) /\ Loading(m, tp, r, c, k - 1, s)
    BY <1>1, <1>6, <2>2, <2>3
  <2> HIDE DEF name, refused
  <2> QED BY <2>1, <2>4, LoadingPlain
<1>7. s.ok \in BOOLEAN
  BY DEF Recorded
<1> QED BY <1>2, <1>3, <1>4, <1>5, <1>6

LEMMA LoadingFresh ==
    ASSUME NEW m, NEW tp, NEW r, NEW c
    PROVE  Recorded(Fresh(m, tp)) /\ Loading(m, tp, r, c, 0, Fresh(m, tp))
<1> DEFINE s == Fresh(m, tp)
<1>1. Taken(m, c, 0) = {}
  BY DEF Taken
<1>2. Targets(m, c, 0) = {} /\ { c[i].name : i \in Taken(m, c, 0) } = {}
  BY <1>1 DEF Targets
<1>3. Recorded(s)
  BY DEF Fresh, Recorded
<1>4. /\ s.data = [ p \in Stored(m) |-> [ i \in 1..LocalSize(tp, p) |-> Uninitialized ] ]
      /\ s.selected = {} /\ s.loaded = {} /\ s.alias = NotLoaded
      /\ s.shards = [ p \in {"qkv_proj", "gate_up_proj"} |-> {} ]
  BY DEF Fresh, Stored
<1> HIDE DEF s
<1>5. Shaped(m, tp, s.data)
  BY <1>4 DEF Shaped
<1>6. s.shards = ShardsIn({})
  BY <1>4 DEF ShardsIn
<1>7. Loading(m, tp, r, c, 0, s)
  BY <1>1, <1>2, <1>4, <1>5, <1>6 DEF Loading
<1> QED BY <1>3, <1>7 DEF s

LEMMA Loaded ==
    ASSUME NEW m, NEW tp, NEW r, NEW c, Given(m, tp, r, c)
    PROVE  /\ Recorded(LoadOn(m, tp, r, c))
           /\ LoadOn(m, tp, r, c).ok => Loading(m, tp, r, c, Len(c), LoadOn(m, tp, r, c))
<1> DEFINE n == Len(c)
<1>1. n \in Nat /\ c \in Seq([name : Known \cup {"visual"}, value : STRING])
  BY DEF Given
<1>2. PICK states : Rounds(states, m, tp, r, c) /\ LoadOn(m, tp, r, c) = states[n]
  BY <1>1, LoadRounds
<1> DEFINE Good(k) == Recorded(states[k]) /\ (states[k].ok => Loading(m, tp, r, c, k, states[k]))
           S == { k \in 1..n : Good(k) }
<1>3. Good(0)
  BY <1>2, LoadingFresh DEF Rounds
<1>4. ASSUME NEW k \in 1..n, Good(k - 1) PROVE Good(k)
  <2>1. states[k] = LoadWeight(m, tp, r, states[k - 1], c[k])
    BY <1>2 DEF Rounds
  <2>2. Recorded(states[k - 1]) /\ (states[k - 1].ok => Loading(m, tp, r, c, k - 1, states[k - 1]))
    BY <1>4
  <2> QED BY <2>1, <2>2, LoadingNext
<1>5. CASE n = 0
  BY <1>2, <1>3, <1>5
<1>6. CASE n # 0
  <2>1. 1 \in S
    <3>1. 1 \in 1..n /\ 1 - 1 = 0
      BY <1>1, <1>6
    <3> HIDE DEF Good
    <3> QED BY <1>3, <1>4, <3>1
  <2>2. \A k \in 1..n - 1 : k \in S => k + 1 \in S
    <3> TAKE k \in 1..n - 1
    <3>1. k + 1 \in 1..n /\ (k + 1) - 1 = k
      BY <1>1
    <3> HIDE DEF Good
    <3> QED BY <1>4, <3>1
  <2>3. 1..n \subseteq S
    <3> HIDE DEF S, n
    <3> QED BY <1>1, <2>1, <2>2, UpToInduction
  <2>4. n \in 1..n
    BY <1>1, <1>6
  <2>5. Good(n)
    <3> HIDE DEF Good, n
    <3> QED BY <2>3, <2>4
  <2> QED BY <1>2, <2>5
<1> QED BY <1>5, <1>6

-----------------------------------------------------------------------------
(* What is accepted is whole.                                              *)

(* Every shard of every packed parameter was given, and something for each *)
(* of the others.                                                          *)
GivenAll(m, c, k) ==
    /\ \A name \in DOMAIN Packed : \E j \in Taken(m, c, k) : c[j].name = name
    /\ \A q \in Parameters(m) \ {"qkv_proj", "gate_up_proj"} : \E j \in Taken(m, c, k) :
         c[j].name \in Known \ DOMAIN Packed /\ Target(m, c[j].name) = q

LEMMA AllGiven ==
    ASSUME NEW m \in Models, NEW tp, NEW r, NEW c, NEW k, NEW s,
           Loading(m, tp, r, c, k, s), Complete(m, s)
    PROVE  GivenAll(m, c, k)
<1>1. /\ Parameters(m) \subseteq Targets(m, c, k) /\ s.selected = { c[i].name : i \in Taken(m, c, k) }
      /\ s.shards = ShardsIn(s.selected) /\ \A i \in Taken(m, c, k) : c[i].name \in Known
      /\ \A p \in DOMAIN s.shards : s.shards[p] \in {{}, ShardsOf(p)}
  BY DEF Loading, Complete
<1>2. \A q \in Parameters(m) : \E j \in Taken(m, c, k) : ParameterOf(m, c[j].name) = q
  BY <1>1 DEF Targets
<1>3. \A q : s.shards = ShardsIn(s.selected) /\ q \in {"qkv_proj", "gate_up_proj"} =>
          /\ q \in DOMAIN s.shards
          /\ s.shards[q] = { Packed[n][2] : n \in { n \in s.selected \cap DOMAIN Packed :
                                                      Packed[n][1] = q } }
  BY DEF ShardsIn
<1>4. ASSUME NEW q \in {"qkv_proj", "gate_up_proj"} PROVE s.shards[q] = ShardsOf(q)
  <2>1. q \in Parameters(m)
    BY DEF Parameters
  <2>2. PICK j \in Taken(m, c, k) : ParameterOf(m, c[j].name) = q
    BY <1>2, <2>1
  <2> DEFINE n == c[j].name
  <2>3. n \in Known /\ n \in s.selected
    BY <1>1
  <2>4. n \in DOMAIN Packed
    <3>1. n \notin {"qkv_proj", "gate_up_proj"}
      BY <2>3, Names
    <3>2. n \notin DOMAIN Packed => Target(m, n) = q
      BY <2>2 DEF ParameterOf
    <3>3. Target(m, n) \in {n, "embed_tokens"}
      BY DEF Target
    <3> QED BY <3>1, <3>2, <3>3
  <2>5. Packed[n][1] = q
    BY <2>2, <2>4 DEF ParameterOf
  <2>6. Packed[n][2] \in s.shards[q]
    BY <1>1, <1>3, <2>3, <2>4, <2>5
  <2> HIDE DEF n
  <2> QED BY <1>1, <1>3, <2>6
<1>5. ASSUME NEW name \in DOMAIN Packed PROVE \E j \in Taken(m, c, k) : c[j].name = name
  <2> DEFINE q == Packed[name][1]
  <2>1. q \in {"qkv_proj", "gate_up_proj"}
    BY Names
  <2>2. Packed[name][2] \in ShardsOf(q)
    BY DEF ShardsOf
  <2> HIDE DEF q
  <2>3. PICK n \in s.selected \cap DOMAIN Packed : Packed[n][2] = Packed[name][2]
    BY <1>1, <1>3, <1>4, <2>1, <2>2
  <2>4. n = name
    BY <2>3, Names
  <2> QED BY <1>1, <2>3, <2>4
<1>6. ASSUME NEW q \in Parameters(m) \ {"qkv_proj", "gate_up_proj"}
      PROVE  \E j \in Taken(m, c, k) :
                c[j].name \in Known \ DOMAIN Packed /\ Target(m, c[j].name) = q
  <2>1. PICK j \in Taken(m, c, k) : ParameterOf(m, c[j].name) = q
    BY <1>2
  <2>2. c[j].name \notin DOMAIN Packed
    BY <2>1, Names DEF ParameterOf
  <2> QED BY <1>1, <2>1, <2>2 DEF ParameterOf
<1> QED BY <1>5, <1>6 DEF GivenAll

(* So every slice of every parameter is a slice of a weight.               *)
LEMMA Covered ==
    ASSUME NEW m \in Models, NEW tp, Sized(tp), NEW r, NEW c, NEW k, NEW s,
           Loading(m, tp, r, c, k, s), Complete(m, s),
           NEW p \in Stored(m), NEW i \in 1..LocalSize(tp, p)
    PROVE  \E j \in Taken(m, c, k) : \E x \in 1..Part(tp, c[j].name) :
              c[j].name \in Known /\ Where(m, c[j].name) = p /\ i = Offset(tp, c[j].name) + x
<1>1. PICK q \in Parameters(m) : p = Storage(m, q)
  BY DEF Stored
<1>2. ASSUME NEW name \in DOMAIN Packed, Packed[name][1] = p,
             i - Offset(tp, name) \in 1..Part(tp, name)
      PROVE  \E j \in Taken(m, c, k) : \E x \in 1..Part(tp, c[j].name) :
                c[j].name \in Known /\ Where(m, c[j].name) = p /\ i = Offset(tp, c[j].name) + x
  <2>1. PICK j \in Taken(m, c, k) : c[j].name = name
    BY AllGiven DEF GivenAll
  <2>2. Where(m, name) = p /\ name \in Known
    BY <1>2, Names DEF Where, ParameterOf, Storage
  <2>3. Offset(tp, name) \in Nat /\ Part(tp, name) \in Nat
    BY <2>2, OffsetNat
  <2> DEFINE x == i - Offset(tp, name)
  <2>4. x \in 1..Part(tp, name) /\ i = Offset(tp, name) + x
    BY <1>2, <2>3
  <2> HIDE DEF x
  <2> QED BY <2>1, <2>2, <2>4
<1> DEFINE a == Part(tp, "q_proj")
           b == Part(tp, "k_proj")
           n == Part(tp, "gate_proj")
<1>3. /\ a \in Nat \ {0} /\ b \in Nat \ {0} /\ n \in Nat \ {0}
      /\ Part(tp, "v_proj") = b /\ Part(tp, "up_proj") = n
      /\ Offset(tp, "q_proj") = 0 /\ Offset(tp, "k_proj") = a /\ Offset(tp, "v_proj") = a + b
      /\ Offset(tp, "gate_proj") = 0 /\ Offset(tp, "up_proj") = n
      /\ LocalSize(tp, "qkv_proj") = a + 2 * b /\ LocalSize(tp, "gate_up_proj") = 2 * n
  BY Names DEF Sized
<1> HIDE DEF a, b, n
<1>4. CASE q = "qkv_proj"
  <2>1. p = "qkv_proj"
    BY <1>1, <1>4 DEF Storage
  <2>2. /\ {"q_proj", "k_proj", "v_proj"} \subseteq DOMAIN Packed
        /\ Packed["q_proj"][1] = p /\ Packed["k_proj"][1] = p /\ Packed["v_proj"][1] = p
    BY <2>1, Names
  <2>3. i \in 1..a + 2 * b
    BY <1>3, <2>1
  <2>4. \/ i - Offset(tp, "q_proj") \in 1..Part(tp, "q_proj")
        \/ i - Offset(tp, "k_proj") \in 1..Part(tp, "k_proj")
        \/ i - Offset(tp, "v_proj") \in 1..Part(tp, "v_proj")
    <3>1. i - 0 \in 1..a \/ i - a \in 1..b \/ i - (a + b) \in 1..b
      BY <1>3, <2>3
    <3> QED BY <1>3, <3>1 DEF a, b
  <2> QED BY <1>2, <2>2, <2>4
<1>5. CASE q = "gate_up_proj"
  <2>1. p = "gate_up_proj"
    BY <1>1, <1>5 DEF Storage
  <2>2. /\ {"gate_proj", "up_proj"} \subseteq DOMAIN Packed
        /\ Packed["gate_proj"][1] = p /\ Packed["up_proj"][1] = p
    BY <2>1, Names
  <2>3. i \in 1..2 * n
    BY <1>3, <2>1
  <2>4. \/ i - Offset(tp, "gate_proj") \in 1..Part(tp, "gate_proj")
        \/ i - Offset(tp, "up_proj") \in 1..Part(tp, "up_proj")
    <3>1. i - 0 \in 1..n \/ i - n \in 1..n
      BY <1>3, <2>3
    <3> QED BY <1>3, <3>1 DEF n
  <2> QED BY <1>2, <2>2, <2>4
<1>6. CASE q \notin {"qkv_proj", "gate_up_proj"}
  <2>1. PICK j \in Taken(m, c, k) : c[j].name \in Known \ DOMAIN Packed /\ Target(m, c[j].name) = q
    BY <1>6, AllGiven DEF GivenAll
  <2> DEFINE name == c[j].name
  <2>2. ParameterOf(m, name) = q /\ Where(m, name) = p
    BY <1>1, <2>1 DEF ParameterOf, Where
  <2>3. LocalSize(tp, p) = LocalSize(tp, name)
    BY <2>1, <2>2, Placement
  <2>4. LocalSize(tp, name) = Part(tp, name) /\ Offset(tp, name) = 0 /\ Part(tp, name) \in Nat
    BY <2>1 DEF Sized
  <2> HIDE DEF name
  <2>5. i \in 1..Part(tp, name) /\ i = Offset(tp, name) + i
    BY <2>3, <2>4
  <2> QED BY <2>1, <2>2, <2>5 DEF name
<1> QED BY <1>4, <1>5, <1>6

LEMMA Filled ==
    ASSUME NEW m, NEW tp, NEW r, NEW c, Given(m, tp, r, c), NEW s,
           Loading(m, tp, r, c, Len(c), s), Complete(m, s),
           NEW p \in Stored(m), NEW i \in 1..LocalSize(tp, p)
    PROVE  s.data[p][i] # Uninitialized
<1>1. m \in Models /\ tp \in Nat \ {0} /\ r \in 0..tp - 1 /\ Sized(tp)
  <2>1. m \in Models /\ tp \in Nat \ {0} /\ r \in 0..tp - 1 /\ Constructible(m, tp)
    BY DEF Given
  <2> QED BY <2>1, Sizes
<1>2. PICK j \in Taken(m, c, Len(c)) : \E x \in 1..Part(tp, c[j].name) :
              c[j].name \in Known /\ Where(m, c[j].name) = p /\ i = Offset(tp, c[j].name) + x
  BY <1>1, Covered
<1>3. PICK x \in 1..Part(tp, c[j].name) :
              c[j].name \in Known /\ Where(m, c[j].name) = p /\ i = Offset(tp, c[j].name) + x
  BY <1>2
<1>4. Keeps(m, tp, r, c[j], s.data)
  BY DEF Loading
<1> DEFINE a == First(tp, r, c[j].name)
<1>5. s.data[p][i] = <<c[j].value, a + x>>
  BY <1>3, <1>4 DEF Keeps
<1>6. a \in Nat /\ x \in Nat \ {0}
  <2>1. Part(tp, c[j].name) \in Nat
    BY <1>1, <1>3, OffsetNat
  <2>2. r * Part(tp, c[j].name) \in Nat
    BY <1>1, <2>1
  <2> QED BY <1>3, <2>1, <2>2 DEF First
<1>7. a + x # 0
  BY <1>6
<1> QED BY <1>5, <1>7 DEF Uninitialized

(* What is spread over the ranks in equal shares.                          *)

LEMMA OwnerIn ==
    ASSUME NEW tp \in Nat \ {0}, NEW n \in Nat \ {0}, NEW r \in 0..tp - 1, NEW x \in 1..n
    PROVE  /\ r * n \in Nat /\ r * n + x \in 1..tp * n
           /\ (r * n + x - 1) \div n = r
<1>1. r \in Nat /\ x \in Nat /\ r + 1 <= tp /\ r * n \in Nat /\ tp * n \in Nat
  OBVIOUS
<1>2. (r + 1) * n <= tp * n /\ (r + 1) * n = r * n + n
  BY <1>1
<1> DEFINE s == r * n
           z == s + x - 1
<1>3. s + x \in 1..tp * n
  <2> DEFINE N == tp * n
  <2>1. s \in Nat /\ N \in Nat /\ s + n <= N
    BY <1>1, <1>2
  <2> HIDE DEF s, N
  <2>2. s + x \in 1..N
    BY <1>1, <2>1
  <2> QED BY <2>2 DEF N
<1>4. z \in Nat /\ r * n <= z /\ z < (r + 1) * n
  <2> HIDE DEF s
  <2>1. s \in Nat /\ (r + 1) * n = s + n /\ r * n = s
    BY <1>1, <1>2 DEF s
  <2> QED BY <2>1
<1>5. z \div n = r
  <2> HIDE DEF z, s
  <2> QED BY <1>1, <1>4, Quotient
<1> QED BY <1>1, <1>3, <1>5

LEMMA OwnerOf ==
    ASSUME NEW tp \in Nat \ {0}, NEW n \in Nat \ {0}, NEW i \in 1..tp * n
    PROVE  \E r \in 0..tp - 1 : \E x \in 1..n : i = r * n + x
<1> DEFINE z == i - 1
           r == z \div n
           y == z % n
<1>1. i \in Nat /\ 1 <= i /\ i <= tp * n /\ z \in Nat /\ tp * n \in Nat
  <2>1. tp * n \in Nat
    OBVIOUS
  <2> DEFINE N == tp * n
  <2>2. N \in Nat /\ i \in 1..N
    BY <2>1
  <2> HIDE DEF N
  <2>3. i \in Nat /\ 1 <= i /\ i <= N /\ z \in Nat
    BY <2>2
  <2> QED BY <2>1, <2>3 DEF N
<1>2. r \in Nat /\ y \in 0..n - 1 /\ z = n * r + y
  <2> HIDE DEF z
  <2> QED BY <1>1, Quotient
<1> HIDE DEF r, y
<1>3. n * r <= z /\ n * r \in Nat
  <2>1. n * r \in Nat /\ y \in Nat
    BY <1>2
  <2> HIDE DEF z
  <2> QED BY <1>2, <2>1
<1>4. r < tp
  <2> SUFFICES ASSUME r >= tp PROVE FALSE
    BY <1>2
  <2>1. n * r >= n * tp /\ n * tp = tp * n
    BY <1>2
  <2> QED BY <1>1, <1>3, <2>1
<1>5. r \in 0..tp - 1 /\ y + 1 \in 1..n
  BY <1>2, <1>4
<1>6. i = r * n + (y + 1)
  <2>1. n * r = r * n
    BY <1>2
  <2> QED BY <1>1, <1>2, <1>3, <2>1
<1> QED BY <1>5, <1>6

(* Every slice of a weight is on some rank.                                *)
LEMMA Somewhere ==
    ASSUME NEW tp \in Nat \ {0}, Sized(tp), NEW name \in Known, NEW i \in 1..FullSize(name)
    PROVE  \E r \in 0..tp - 1 : \E x \in 1..Part(tp, name) : i = First(tp, r, name) + x
<1> DEFINE n == Part(tp, name)
<1>1. n \in Nat \ {0}
  BY OffsetNat
<1>2. CASE name = "norm"
  <2>1. n = 1 /\ FullSize(name) = 1 /\ \A r : First(tp, r, name) = 0
    BY <1>2 DEF Sized, First
  <2>2. 0 \in 0..tp - 1 /\ 1 \in 1..n /\ i = 0 + 1
    BY <2>1
  <2> HIDE DEF n
  <2> QED BY <2>1, <2>2 DEF n
<1>3. CASE name # "norm"
  <2>1. FullSize(name) = tp * n /\ \A r : First(tp, r, name) = r * n
    BY <1>3 DEF Sized, First
  <2> HIDE DEF n
  <2>2. i \in 1..tp * n
    BY <2>1
  <2>3. \E r \in 0..tp - 1 : \E x \in 1..n : i = r * n + x
    BY <1>1, <2>2, OwnerOf
  <2> QED BY <2>1, <2>3 DEF n
<1> QED BY <1>2, <1>3

(* What holds of the weights, in every state.                              *)
WeightsInv ==
    /\ source \in Sources
    /\ weights = [ r \in 0..source.tp - 1 |->
                    LoadOn(source.model, source.tp, r, source.checkpoint) ]

(* What load_model made of the checkpoint on each rank stays as it is:     *)
(* no call writes a parameter.                                             *)
THEOREM WeightsStay == TPSpec => []WeightsInv
<1>1. TPInit => WeightsInv
  BY DEF TPInit, WeightsInv
<1>2. WeightsInv /\ [TPNext]_tpVars => WeightsInv'
  <2> SUFFICES ASSUME WeightsInv, [TPNext]_tpVars PROVE WeightsInv'
    OBVIOUS
  <2>1. UNCHANGED <<source, weights>>
    BY DEF TPNext, tpVars
  <2> QED BY <2>1 DEF WeightsInv
<1> QED BY <1>1, <1>2, PTL DEF TPSpec

(* What an accepted rank has.                                              *)
LEMMA RankLoaded ==
    ASSUME WeightsInv, Accepted, NEW r \in DOMAIN weights
    PROVE  /\ DOMAIN weights = 0..source.tp - 1
           /\ Given(source.model, source.tp, r, source.checkpoint)
           /\ Loading(source.model, source.tp, r, source.checkpoint, Len(source.checkpoint), weights[r])
           /\ Complete(source.model, weights[r])
<1> DEFINE m == source.model
           tp == source.tp
           c == source.checkpoint
<1>1. source \in Sources /\ r \in 0..tp - 1 /\ weights[r] = LoadOn(m, tp, r, c)
      /\ DOMAIN weights = 0..tp - 1
  BY DEF WeightsInv
<1>2. Constructible(m, tp) /\ Complete(m, weights[r])
  BY DEF Accepted
<1>3. Given(m, tp, r, c)
  <2>1. /\ m \in Models /\ tp \in Nat \ {0}
        /\ c \in Seq([name : LanguageNames \cup {"lm_head", "visual"}, value : STRING])
        /\ \A i \in DOMAIN c : c[i].value # NotLoaded
        /\ m = [family |-> "qwen3", tied |-> TRUE] =>
              \A i, j \in DOMAIN c :
                 {c[i].name, c[j].name} \subseteq {"embed_tokens", "lm_head"}
                   => c[i].value = c[j].value
    BY <1>1, SourcesAssumption
  <2>2. DOMAIN c = 1..Len(c)
    BY <2>1
  <2>3. c \in Seq([name : Known \cup {"visual"}, value : STRING])
    BY <2>1, Names
  <2> HIDE DEF m, tp, c
  <2> QED BY <1>1, <1>2, <2>1, <2>2, <2>3 DEF Given
<1>4. weights[r].ok
  BY <1>2 DEF Complete
<1>5. Loading(m, tp, r, c, Len(c), weights[r])
  <2> HIDE DEF m, tp, c
  <2> QED BY <1>1, <1>3, <1>4, Loaded
<1> QED BY <1>1, <1>2, <1>3, <1>5

(* load_model accepts a checkpoint only if it fills every parameter of     *)
(* every rank with its own slices, leaves no slice of a weight out, and    *)
(* takes no weight twice with two values, in whatever order the files are. *)
THEOREM LoadsAlwaysWhole == TPSpec => []LoadsWhole
<1>1. WeightsInv => LoadsWhole
  <2> SUFFICES ASSUME WeightsInv, Accepted
               PROVE  /\ \A r \in DOMAIN weights : \A p \in DOMAIN weights[r].data :
                           \A i \in DOMAIN weights[r].data[p] : weights[r].data[p][i] # Uninitialized
                      /\ \A name \in LanguageNames \cup {"lm_head"} :
                           Named(name) # {} /\ Included(source.model, name) =>
                             /\ \A i \in Named(name) : source.checkpoint[i].value = Value(name)
                             /\ Slices(name) \subseteq
                                  UNION { Range(weights[r].data[p]) :
                                            r \in DOMAIN weights, p \in DOMAIN weights[0].data }
    BY DEF LoadsWhole
  <2> DEFINE m == source.model
             tp == source.tp
             c == source.checkpoint
             k == Len(c)
  <2>1. ASSUME NEW r \in DOMAIN weights
        PROVE  /\ Given(m, tp, r, c) /\ Loading(m, tp, r, c, k, weights[r]) /\ Complete(m, weights[r])
               /\ DOMAIN weights = 0..tp - 1
    BY RankLoaded
  <2>2. tp \in Nat \ {0} /\ DOMAIN weights = 0..tp - 1 /\ 0 \in DOMAIN weights
    <3>1. tp \in Nat \ {0} /\ DOMAIN weights = 0..tp - 1
      BY SourcesAssumption DEF WeightsInv
    <3> QED BY <3>1
  <2>3. Given(m, tp, 0, c)
    BY <2>1, <2>2
  <2>4. m \in Models /\ Sized(tp) /\ c \in Seq([name : Known \cup {"visual"}, value : STRING])
    <3>1. m \in Models /\ Constructible(m, tp)
          /\ c \in Seq([name : Known \cup {"visual"}, value : STRING])
      BY <2>3 DEF Given
    <3> QED BY <2>2, <3>1, Sizes
  <2> HIDE DEF m, tp, c, k
  <2>5. ASSUME NEW r \in DOMAIN weights
        PROVE  /\ DOMAIN weights[r].data = Stored(m)
               /\ \A p \in Stored(m) : DOMAIN weights[r].data[p] = 1..LocalSize(tp, p)
    <3>1. Shaped(m, tp, weights[r].data)
      BY <2>1 DEF Loading
    <3> DEFINE d == weights[r].data
    <3> HIDE DEF d
    <3>2. Shaped(m, tp, d)
      BY <3>1 DEF d
    <3>3. DOMAIN d = Stored(m)
      BY <3>2 DEF Shaped
    <3>4. \A p \in Stored(m) : DOMAIN d[p] = 1..LocalSize(tp, p)
      BY <3>2 DEF Shaped
    <3> QED BY <3>3, <3>4 DEF d
  <2>6. ASSUME NEW r \in DOMAIN weights, NEW p \in DOMAIN weights[r].data,
               NEW i \in DOMAIN weights[r].data[p]
        PROVE  weights[r].data[p][i] # Uninitialized
    <3>1. p \in Stored(m) /\ i \in 1..LocalSize(tp, p)
      BY <2>5
    <3>2. Given(m, tp, r, c) /\ Loading(m, tp, r, c, Len(c), weights[r]) /\ Complete(m, weights[r])
      BY <2>1 DEF k
    <3> QED BY <3>1, <3>2, Filled
  <2>7. ASSUME NEW name \in Known, Named(name) # {}, Included(m, name)
        PROVE  /\ \A i \in Named(name) : c[i].value = Value(name)
               /\ Slices(name) \subseteq
                    UNION { Range(weights[r].data[p]) :
                              r \in DOMAIN weights, p \in DOMAIN weights[0].data }
    <3>1. PICK j : j \in Named(name)
      BY <2>7
    <3>2. \A i \in Named(name) : i \in Taken(m, c, k) /\ c[i].name = name
      BY <2>4, <2>7 DEF Named, Taken, c, k
    <3>3. \A i \in Named(name) : i = j
      <4>1. Loading(m, tp, 0, c, k, weights[0])
        BY <2>1, <2>2
      <4>2. \A x, y \in Taken(m, c, k) : c[x].name = c[y].name => x = y
        BY <4>1 DEF Loading
      <4> QED BY <3>1, <3>2, <4>2
    <3>4. Value(name) = c[j].value
      BY <3>1, <3>3 DEF Value, c
    <3>5. ASSUME NEW i \in 1..FullSize(name)
          PROVE  \E r \in DOMAIN weights : \E p \in DOMAIN weights[0].data :
                    <<Value(name), i>> \in Range(weights[r].data[p])
      <4>1. PICK r \in 0..tp - 1 : \E x \in 1..Part(tp, name) : i = First(tp, r, name) + x
        BY <2>2, <2>4, Somewhere
      <4>2. PICK x \in 1..Part(tp, name) : i = First(tp, r, name) + x
        BY <4>1
      <4>3. r \in DOMAIN weights
        BY <2>2
      <4> DEFINE p == Where(m, name)
                 o == Offset(tp, name)
      <4>4. Loading(m, tp, r, c, k, weights[r])
        BY <2>1, <4>3
      <4>5. Keeps(m, tp, r, c[j], weights[r].data) /\ ParameterOf(m, name) \in Parameters(m)
        BY <3>1, <3>2, <4>4 DEF Loading, Targets
      <4>6. weights[r].data[p][o + x] = <<Value(name), i>>
        BY <3>1, <3>2, <3>4, <4>2, <4>5 DEF Keeps
      <4>7. p \in Stored(m) /\ o + x \in 1..LocalSize(tp, p)
        <5>1. p \in Stored(m)
          BY <2>4, <4>5, Placement
        <5>2. CASE name \in DOMAIN Packed
          <6>1. p = Packed[name][1]
            BY <2>4, <4>5, <5>2, Placement
          <6> QED BY <2>4, <5>1, <5>2, <6>1, Inside
        <5>3. CASE name \notin DOMAIN Packed
          <6>1. LocalSize(tp, p) = LocalSize(tp, name)
            BY <2>4, <4>5, <5>3, Placement
          <6>2. LocalSize(tp, name) = Part(tp, name) /\ o = 0 /\ Part(tp, name) \in Nat
            BY <2>4, <5>3 DEF Sized
          <6> HIDE DEF p, o
          <6> QED BY <5>1, <6>1, <6>2
        <5> QED BY <5>2, <5>3
      <4>8. o + x \in DOMAIN weights[r].data[p] /\ p \in DOMAIN weights[0].data
        BY <2>2, <2>5, <4>3, <4>7
      <4> DEFINE t == weights[r].data[p]
                 z == o + x
      <4> HIDE DEF t, z, p, o
      <4>9. t[z] \in Range(t)
        <5>1. z \in DOMAIN t
          BY <4>8 DEF t, z
        <5> QED BY <5>1 DEF Range
      <4>10. <<Value(name), i>> \in Range(weights[r].data[p])
        BY <4>6, <4>9 DEF t, z
      <4> QED BY <4>3, <4>8, <4>10
    <3> DEFINE U == UNION { Range(weights[r].data[p]) :
                              r \in DOMAIN weights, p \in DOMAIN weights[0].data }
    <3>6. Slices(name) \subseteq U
      BY <3>5 DEF Slices
    <3> HIDE DEF U
    <3>7. \A i \in Named(name) : c[i].value = Value(name)
      BY <3>3, <3>4
    <3> QED BY <3>6, <3>7 DEF U
  <2>8. LanguageNames \cup {"lm_head"} = Known
    BY DEF Known
  <2> QED BY <2>6, <2>7, <2>8 DEF m, c
<1> QED BY <1>1, WeightsStay, PTL

-----------------------------------------------------------------------------
(* The ranks are numbered from 0; two at least.                            *)
LEMMA RanksAre ==
    /\ TP \in Nat /\ TP >= 2 /\ Rank \subseteq Ranks /\ 0 \in Ranks
    /\ Ranks = 0..TP - 1 /\ \A r \in Ranks : r = 0 \/ r \in Rank
<1>1. Cardinality(Rank) \in Nat
  BY RanksAssumption, FS_CardinalityType
<1> DEFINE n == Cardinality(Rank)
<1>2. Rank = 1..n /\ Rank # {} /\ n \in Nat /\ TP = n + 1
  BY <1>1, RanksAssumption, RankAssumption DEF TP
<1> HIDE DEF n
<1>3. n >= 1
  BY <1>2
<1> QED BY <1>2, <1>3 DEF Ranks

(* A model that is spread is a text model.                                 *)
LEMMA Spread ==
    ASSUME WeightsInv, Started
    PROVE  /\ source.tp = TP /\ DOMAIN weights = Ranks /\ Sized(TP) /\ TP \in Nat \ {0}
           /\ source.model \in Models /\ source.model.family = "qwen3"
           /\ \A r \in Ranks :
                /\ Loading(source.model, TP, r, source.checkpoint, Len(source.checkpoint), weights[r])
                /\ Complete(source.model, weights[r])
           /\ \A i \in 1..Len(source.checkpoint) : i \in DOMAIN source.checkpoint
           /\ DOMAIN source.checkpoint = 1..Len(source.checkpoint)
<1>1. source.tp = TP /\ Accepted /\ TP \in Nat /\ TP >= 2
  BY RanksAre DEF Started
<1>2. DOMAIN weights = Ranks
  BY <1>1 DEF WeightsInv, Ranks
<1>3. \A r \in Ranks :
        /\ Given(source.model, TP, r, source.checkpoint)
        /\ Loading(source.model, TP, r, source.checkpoint, Len(source.checkpoint), weights[r])
        /\ Complete(source.model, weights[r])
  BY <1>1, <1>2, RankLoaded
<1>4. Given(source.model, TP, 0, source.checkpoint)
  BY <1>3, RanksAre
<1>5. /\ source.model \in Models /\ Constructible(source.model, TP)
      /\ source.checkpoint \in Seq([name : Known \cup {"visual"}, value : STRING])
  BY <1>4 DEF Given
<1>6. source.model.family = "qwen3"
  BY <1>1, <1>5 DEF Constructible
<1>7. DOMAIN source.checkpoint = 1..Len(source.checkpoint)
  BY <1>5
<1>8. Sized(TP) /\ TP \in Nat \ {0}
  BY <1>1, <1>5, Sizes
<1> QED BY <1>1, <1>2, <1>3, <1>5, <1>6, <1>7, <1>8

(* What a rank keeps of the one weight of each name.                       *)
Held(r, name) == [ x \in 1..Part(TP, name) |-> <<Value(name), First(TP, r, name) + x>> ]

LEMMA HeldBy ==
    ASSUME WeightsInv, Started, NEW r \in Ranks, NEW name \in Known
    PROVE  /\ ParameterOf(source.model, name) \in Parameters(source.model)
           /\ \A x \in 1..Part(TP, name) :
                weights[r].data[Where(source.model, name)][Offset(TP, name) + x] =
                  <<Value(name), First(TP, r, name) + x>>
<1> DEFINE m == source.model
           c == source.checkpoint
           k == Len(c)
<1>1. /\ m \in Models /\ m.family = "qwen3" /\ Loading(m, TP, r, c, k, weights[r])
      /\ Complete(m, weights[r]) /\ DOMAIN c = 1..k
  BY Spread
<1> HIDE DEF m, c, k
<1>2. PICK j \in Taken(m, c, k) : c[j].name = name
  <2> DEFINE s == weights[r]
  <2>0. GivenAll(m, c, k)
    <3>1. Loading(m, TP, r, c, k, s) /\ Complete(m, s)
      BY <1>1
    <3> HIDE DEF s
    <3> QED BY <1>1, <3>1, AllGiven
  <2>1. CASE name \in DOMAIN Packed
    BY <2>0, <2>1 DEF GivenAll
  <2>2. CASE name \notin DOMAIN Packed
    <3>1. name \in {"embed_tokens", "o_proj", "down_proj", "norm", "lm_head"}
      BY <2>2, Names
    <3>2. name \in Parameters(m) \ {"qkv_proj", "gate_up_proj"}
      BY <1>1, <3>1 DEF Parameters
    <3>3. PICK j \in Taken(m, c, k) :
                c[j].name \in Known \ DOMAIN Packed /\ Target(m, c[j].name) = name
      BY <2>0, <3>2 DEF GivenAll
    <3>4. c[j].name = name
      BY <1>1, <3>3 DEF Target
    <3> QED BY <3>4
  <2> QED BY <2>1, <2>2
<1>3. \A n : Included(m, n)
  BY <1>1 DEF Included
<1>4. Named(name) = {j}
  <2>1. Taken(m, c, k) = DOMAIN c
    BY <1>1, <1>3 DEF Taken
  <2>2. \A i, o \in Taken(m, c, k) : c[i].name = c[o].name => i = o
    BY <1>1 DEF Loading
  <2>3. Named(name) = { i \in DOMAIN c : c[i].name = name }
    BY DEF Named, c
  <2> QED BY <1>2, <2>1, <2>2, <2>3
<1>5. Value(name) = c[j].value
  <2>1. (CHOOSE i \in Named(name) : TRUE) = j
    BY <1>4
  <2> QED BY <2>1 DEF Value, c
<1>6. Keeps(m, TP, r, c[j], weights[r].data) /\ ParameterOf(m, name) \in Parameters(m)
  BY <1>1, <1>2 DEF Loading, Targets
<1>7. \A x \in 1..Part(TP, name) :
        weights[r].data[Where(m, name)][Offset(TP, name) + x] =
          <<Value(name), First(TP, r, name) + x>>
  BY <1>2, <1>5, <1>6 DEF Keeps
<1> QED BY <1>6, <1>7 DEF m

(* As the layers find it.                                                  *)
LEMMA PlainParam ==
    ASSUME WeightsInv, Started, NEW r \in Ranks, NEW name \in Known \ DOMAIN Packed
    PROVE  Param(r, name) = Held(r, name)
<1> DEFINE m == source.model
           t == Param(r, name)
           n == Part(TP, name)
<1>1. /\ m \in Models /\ m.family = "qwen3" /\ Sized(TP)
      /\ Shaped(m, TP, weights[r].data)
  BY Spread DEF Loading
<1>2. ParameterOf(m, name) = name /\ Where(m, name) = Storage(m, name)
      /\ ParameterOf(m, name) \in Parameters(m) /\ name \in Known
  <2>1. Target(m, name) = name
    BY <1>1 DEF Target
  <2> QED BY <2>1, HeldBy DEF ParameterOf, Where
<1>3. LocalSize(TP, Storage(m, name)) = n /\ Storage(m, name) \in Stored(m)
  <2>1. LocalSize(TP, name) = n
    BY <1>1 DEF Sized
  <2> QED BY <1>1, <1>2, <2>1, Placement
<1>4. t = weights[r].data[Storage(m, name)]
  BY DEF Param
<1>5. t = [ i \in 1..n |-> t[i] ]
  <2> HIDE DEF t, n, m
  <2> QED BY <1>1, <1>3, <1>4 DEF Shaped
<1>6. Offset(TP, name) = 0 /\ n \in Nat
  BY <1>1, OffsetNat DEF Offset
<1>7. \A x \in 1..n : t[x] = <<Value(name), First(TP, r, name) + x>>
  <2> TAKE x \in 1..n
  <2>1. t[Offset(TP, name) + x] = <<Value(name), First(TP, r, name) + x>>
    BY <1>2, <1>4, HeldBy
  <2> HIDE DEF t, n
  <2>2. Offset(TP, name) + x = x
    BY <1>6
  <2> QED BY <2>1, <2>2
<1> HIDE DEF t
<1>8. t = [ x \in 1..n |-> <<Value(name), First(TP, r, name) + x>> ]
  <2> HIDE DEF n
  <2> QED BY <1>5, <1>7
<1> QED BY <1>8 DEF t, Held

LEMMA PackedParam ==
    ASSUME WeightsInv, Started, NEW r \in Ranks, NEW name \in DOMAIN Packed
    PROVE  /\ Narrow(Param(r, Packed[name][1]), Offset(TP, name), Part(TP, name)) = Held(r, name)
           /\ Len(Param(r, Packed[name][1])) = LocalSize(TP, Packed[name][1])
<1> DEFINE m == source.model
           p == Packed[name][1]
           t == Param(r, p)
           n == Part(TP, name)
           o == Offset(TP, name)
           L == LocalSize(TP, p)
<1>1. /\ m \in Models /\ Sized(TP) /\ Shaped(m, TP, weights[r].data)
  BY Spread DEF Loading
<1>2. /\ p \in {"qkv_proj", "gate_up_proj"} /\ Storage(m, p) = p /\ p \in Stored(m)
      /\ Where(m, name) = p /\ name \in Known
  BY Names DEF Stored, Storage, Parameters, Where, ParameterOf
<1>3. t = weights[r].data[p]
  BY <1>2 DEF Param
<1>4. n \in Nat \ {0} /\ o \in Nat
  BY <1>1, <1>2, OffsetNat
<1>5. \A x \in 1..n : o + x \in 1..L
  BY <1>1, Inside
<1>6. \A x \in 1..n : t[o + x] = <<Value(name), First(TP, r, name) + x>>
  BY <1>2, <1>3, HeldBy
<1> HIDE DEF p, n, o, L, m
<1>7. t = [ i \in 1..L |-> t[i] ]
  BY <1>1, <1>2, <1>3 DEF Shaped, L
<1> HIDE DEF t
<1>8. o + n <= L /\ L \in Nat
  <2>1. o + n \in 1..L
    BY <1>4, <1>5
  <2>2. L \in Int
    <3>1. /\ LocalSize(TP, "qkv_proj") = Part(TP, "q_proj") + 2 * Part(TP, "k_proj")
          /\ LocalSize(TP, "gate_up_proj") = 2 * Part(TP, "gate_proj")
          /\ Part(TP, "q_proj") \in Nat /\ Part(TP, "k_proj") \in Nat /\ Part(TP, "gate_proj") \in Nat
      BY <1>1, Names DEF Sized
    <3> QED BY <1>2, <3>1 DEF L
  <2> QED BY <1>4, <2>1, <2>2
<1> DEFINE X == { t[i] : i \in 1..L }
<1>9. t \in Seq(X) /\ Len(t) = L
  BY <1>7, <1>8
<1> HIDE DEF X
<1>10. Narrow(t, o, n) = [ x \in 1..n |-> t[o + x] ]
  BY <1>4, <1>8, <1>9, Narrowed
<1>11. Narrow(t, o, n) = [ x \in 1..n |-> <<Value(name), First(TP, r, name) + x>> ]
  BY <1>6, <1>10
<1> QED BY <1>9, <1>11 DEF Held, t, n, o, p, L

-----------------------------------------------------------------------------
(* What the ranks compute together.                                        *)

(* A sum of terms each of which is one rank's.                             *)
LEMMA ReducedOnce ==
    ASSUME NEW part, NEW terms, UNION { part[r] : r \in Ranks } = terms,
           \A r, o \in Ranks : \A t \in terms : t \in part[r] /\ t \in part[o] => r = o
    PROVE  Reduced(part) = Once(terms)
<1>1. ASSUME NEW t \in terms PROVE Cardinality({ r \in Ranks : t \in part[r] }) = 1
  <2>1. PICK r \in Ranks : t \in part[r]
    OBVIOUS
  <2>2. { o \in Ranks : t \in part[o] } = {r}
    BY <2>1
  <2> QED BY <2>2, FS_Singleton
<1>2. [ t \in terms |-> Cardinality({ r \in Ranks : t \in part[r] }) ] = [ t \in terms |-> 1 ]
  BY <1>1
<1> QED BY <1>2 DEF Reduced, Once

(* The shares are a whole.                                                 *)
LEMMA Shares ==
    ASSUME NEW n \in Nat \ {0}
    PROVE  /\ \A r \in Ranks : \A x \in 1..n : r * n + x \in 1..TP * n
           /\ \A i \in 1..TP * n : \E r \in Ranks : \E x \in 1..n : i = r * n + x
           /\ \A r, o \in Ranks : \A x, y \in 1..n : r * n + x = o * n + y => r = o
<1>1. TP \in Nat \ {0} /\ Ranks = 0..TP - 1
  BY RanksAre
<1>2. ASSUME NEW r \in Ranks, NEW x \in 1..n
      PROVE  r * n + x \in 1..TP * n /\ (r * n + x - 1) \div n = r
  BY <1>1, OwnerIn
<1>3. ASSUME NEW i \in 1..TP * n PROVE \E r \in Ranks : \E x \in 1..n : i = r * n + x
  BY <1>1, OwnerOf
<1>4. ASSUME NEW r \in Ranks, NEW o \in Ranks, NEW x \in 1..n, NEW y \in 1..n,
             r * n + x = o * n + y
      PROVE  r = o
  <2>1. (r * n + x - 1) \div n = r
    BY <1>2
  <2>2. (o * n + y - 1) \div n = o
    BY <1>2
  <2>3. r * n + x - 1 = o * n + y - 1
    <3> DEFINE a == r * n
               b == o * n
    <3>1. a \in Int /\ b \in Int /\ a + x = b + y
      <4>1. r \in Nat /\ o \in Nat
        BY <1>1
      <4> QED BY <1>4, <4>1
    <3> HIDE DEF a, b
    <3>2. a + x - 1 = b + y - 1
      BY <3>1
    <3> QED BY <3>2 DEF a, b
  <2> QED BY <2>1, <2>2, <2>3, Zenon
<1> QED BY <1>2, <1>3, <1>4

(* The embedding of a token is on the rank whose part of the vocabulary    *)
(* it is in.                                                               *)
LEMMA EmbeddedOnce ==
    ASSUME WeightsInv, Started, NEW token \in 0..Vocab - 1
    PROVE  Reduced([ r \in Ranks |-> Embedded(r, token) ]) =
             Once({ <<Value("embed_tokens"), token + 1>> })
<1> DEFINE v == Vocab \div TP
           e == <<Value("embed_tokens"), token + 1>>
           part == [ r \in Ranks |-> Embedded(r, token) ]
<1>1. Sized(TP)
  BY Spread
<1>2. "embed_tokens" \in Known \ DOMAIN Packed /\ Part(TP, "embed_tokens") = v
  BY Names DEF Part
<1>3. v \in Nat \ {0} /\ Vocab = TP * v
  <2>1. FullSize("embed_tokens") = Vocab
    BY DEF FullSize
  <2> QED BY <1>1, <1>2, <2>1, Names DEF Sized
<1>4. ASSUME NEW r \in Ranks
      PROVE  Param(r, "embed_tokens") = [ x \in 1..v |-> <<Value("embed_tokens"), r * v + x>> ]
  <2>1. First(TP, r, "embed_tokens") = r * v
    BY <1>2 DEF First
  <2> HIDE DEF v
  <2> QED BY <1>2, <2>1, PlainParam DEF Held
<1> HIDE DEF v
<1>5. TP \in Nat /\ \A r \in Ranks : r \in Nat
  BY RanksAre
<1>6. token \in Nat /\ token + 1 \in 1..TP * v
  <2>1. TP * v \in Nat
    BY <1>3, <1>5
  <2> DEFINE N == TP * v
  <2>2. N \in Nat /\ token \in 0..N - 1
    BY <1>3, <2>1
  <2> HIDE DEF N
  <2> QED BY <2>2 DEF N
<1>7. ASSUME NEW r \in Ranks
      PROVE  Embedded(r, token) = IF token \in r * v..r * v + v - 1 THEN {e} ELSE {}
  <2> DEFINE s == r * v
  <2>1. s \in Nat
    BY <1>3, <1>5
  <2>2. Embedded(r, token) = IF token \in s..s + v - 1
                             THEN { Param(r, "embed_tokens")[token - s + 1] } ELSE {}
    BY DEF Embedded, v
  <2> HIDE DEF s
  <2>3. ASSUME token \in s..s + v - 1 PROVE Param(r, "embed_tokens")[token - s + 1] = e
    <3>1. token - s + 1 \in 1..v /\ s + (token - s + 1) = token + 1
      BY <1>3, <1>6, <2>1, <2>3
    <3> DEFINE y == token - s + 1
    <3>2. Param(r, "embed_tokens")[y] = <<Value("embed_tokens"), s + y>>
      <4>1. y \in 1..v
        BY <3>1
      <4> HIDE DEF y
      <4> QED BY <1>4, <4>1 DEF s
    <3> QED BY <3>1, <3>2
  <2> QED BY <2>2, <2>3 DEF s
<1>8. ASSUME NEW r \in Ranks
      PROVE  token \in r * v..r * v + v - 1 <=> \E x \in 1..v : token + 1 = r * v + x
  <2> DEFINE s == r * v
  <2>1. s \in Nat
    BY <1>3, <1>5
  <2> HIDE DEF s
  <2>2. ASSUME token \in s..s + v - 1 PROVE \E x \in 1..v : token + 1 = s + x
    <3>1. token - s + 1 \in 1..v /\ token + 1 = s + (token - s + 1)
      BY <1>3, <1>6, <2>1, <2>2
    <3> QED BY <3>1
  <2>3. ASSUME NEW x \in 1..v, token + 1 = s + x PROVE token \in s..s + v - 1
    BY <1>3, <1>6, <2>1, <2>3
  <2> QED BY <2>2, <2>3 DEF s
<1>9. \E r \in Ranks : token \in r * v..r * v + v - 1
  BY <1>3, <1>6, <1>8, Shares
<1>10. ASSUME NEW r \in Ranks, NEW o \in Ranks,
              token \in r * v..r * v + v - 1, token \in o * v..o * v + v - 1
       PROVE  r = o
  <2>1. PICK x \in 1..v : token + 1 = r * v + x
    BY <1>8, <1>10
  <2>2. PICK y \in 1..v : token + 1 = o * v + y
    BY <1>8, <1>10
  <2>3. r * v + x = o * v + y
    BY <2>1, <2>2
  <2> QED BY <1>3, <2>3, Shares
<1> HIDE DEF e
<1>11. UNION { part[r] : r \in Ranks } = {e}
  <2> DEFINE In(r) == token \in r * v..r * v + v - 1
  <2>1. \A r \in Ranks : part[r] = IF In(r) THEN {e} ELSE {}
    BY <1>7
  <2>2. \E r \in Ranks : In(r)
    BY <1>9
  <2> HIDE DEF In, part
  <2> QED BY <2>1, <2>2
<1>12. \A r, o \in Ranks : \A t \in {e} : t \in part[r] /\ t \in part[o] => r = o
  <2> DEFINE In(r) == token \in r * v..r * v + v - 1
  <2>1. \A r \in Ranks : part[r] = IF In(r) THEN {e} ELSE {}
    BY <1>7
  <2>2. \A r, o \in Ranks : In(r) /\ In(o) => r = o
    BY <1>10
  <2> HIDE DEF In, part
  <2> QED BY <2>1, <2>2
<1> HIDE DEF part
<1>13. Reduced(part) = Once({e})
  BY <1>11, <1>12, ReducedOnce
<1> QED BY <1>13 DEF part, e

(* The neurons of the ranks are all of them.                               *)
Neuron(i) == <<<<Value("down_proj"), i>>, <<Value("gate_proj"), i>>, <<Value("up_proj"), i>>>>

LEMMA GateUp ==
    ASSUME WeightsInv, Started, NEW r \in Ranks
    PROVE  /\ Chunk(Param(r, "gate_up_proj"), 2, 0) = Held(r, "gate_proj")
           /\ Chunk(Param(r, "gate_up_proj"), 2, 1) = Held(r, "up_proj")
<1> DEFINE n == Part(TP, "gate_proj")
           t == Param(r, "gate_up_proj")
<1>1. /\ n \in Nat \ {0} /\ LocalSize(TP, "gate_up_proj") = 2 * n /\ Part(TP, "up_proj") = n
      /\ Offset(TP, "gate_proj") = 0 /\ Offset(TP, "up_proj") = n
  BY Spread, Names DEF Sized
<1>2. /\ Narrow(t, Offset(TP, "gate_proj"), n) = Held(r, "gate_proj") /\ Len(t) = 2 * n
      /\ Narrow(t, Offset(TP, "up_proj"), n) = Held(r, "up_proj")
  <2>1. /\ "gate_proj" \in DOMAIN Packed /\ "up_proj" \in DOMAIN Packed
        /\ Packed["gate_proj"][1] = "gate_up_proj" /\ Packed["up_proj"][1] = "gate_up_proj"
    BY Names
  <2>2. /\ Narrow(Param(r, Packed["gate_proj"][1]), Offset(TP, "gate_proj"), Part(TP, "gate_proj"))
             = Held(r, "gate_proj")
        /\ Len(Param(r, Packed["gate_proj"][1])) = LocalSize(TP, Packed["gate_proj"][1])
        /\ Narrow(Param(r, Packed["up_proj"][1]), Offset(TP, "up_proj"), Part(TP, "up_proj"))
             = Held(r, "up_proj")
    BY <2>1, PackedParam
  <2> QED BY <1>1, <2>1, <2>2
<1> HIDE DEF n, t
<1>3. (Len(t) + 2 - 1) \div 2 = n
  <2>1. (2 * n + 2 - 1) \div 2 = n
    BY <1>1, Exact
  <2> QED BY <1>2, <2>1
<1>4. 0 * n = 0 /\ 1 * n = n
  BY <1>1
<1>5. Chunk(t, 2, 0) = Narrow(t, 0 * n, n) /\ Chunk(t, 2, 1) = Narrow(t, 1 * n, n)
  BY <1>3 DEF Chunk
<1>6. Chunk(t, 2, 0) = Held(r, "gate_proj") /\ Chunk(t, 2, 1) = Held(r, "up_proj")
  BY <1>1, <1>2, <1>4, <1>5
<1> QED BY <1>6 DEF t

LEMMA ActivatedOnce ==
    ASSUME WeightsInv, Started
    PROVE  Reduced([ r \in Ranks |-> Activated(r) ]) = Once(AllNeurons)
<1> DEFINE n == Part(TP, "gate_proj")
           part == [ r \in Ranks |-> Activated(r) ]
           all == { Neuron(i) : i \in 1..Inner }
<1>1. /\ n \in Nat \ {0} /\ Part(TP, "up_proj") = n /\ Part(TP, "down_proj") = n
      /\ FullSize("gate_proj") = TP * n
      /\ "down_proj" \in Known \ DOMAIN Packed
  BY Spread, Names DEF Sized, Part
<1>2. FullSize("gate_proj") = Inner /\ FullSize("up_proj") = Inner /\ FullSize("down_proj") = Inner
  BY DEF FullSize
<1> HIDE DEF n
<1>3. Inner = TP * n
  BY <1>1, <1>2
<1>4. ASSUME NEW r \in Ranks PROVE Activated(r) = { Neuron(r * n + x) : x \in 1..n }
  <2> DEFINE gate == Chunk(Param(r, "gate_up_proj"), 2, 0)
             up == Chunk(Param(r, "gate_up_proj"), 2, 1)
             down == Param(r, "down_proj")
  <2>1. /\ gate = [ x \in 1..n |-> <<Value("gate_proj"), r * n + x>> ]
        /\ up = [ x \in 1..n |-> <<Value("up_proj"), r * n + x>> ]
    BY <1>1, GateUp DEF Held, First, n
  <2>2. down = [ x \in 1..n |-> <<Value("down_proj"), r * n + x>> ]
    <3>1. down = Held(r, "down_proj")
      BY <1>1, PlainParam
    <3> QED BY <1>1, <3>1 DEF Held, First
  <2>3. Activated(r) = { <<down[i], gate[i], up[i]>> : i \in DOMAIN gate }
    BY DEF Activated
  <2> HIDE DEF gate, up, down
  <2>4. DOMAIN gate = 1..n
    BY <2>1
  <2>5. \A x \in 1..n : <<down[x], gate[x], up[x]>> = Neuron(r * n + x)
    BY <2>1, <2>2 DEF Neuron
  <2> QED BY <2>3, <2>4, <2>5
<1>5. /\ \A r \in Ranks : \A x \in 1..n : r * n + x \in 1..Inner
      /\ \A i \in 1..Inner : \E r \in Ranks : \E x \in 1..n : i = r * n + x
      /\ \A r, o \in Ranks : \A x, y \in 1..n : r * n + x = o * n + y => r = o
  BY <1>1, <1>3, Shares
<1>6. \A i, j : Neuron(i) = Neuron(j) => i = j
  BY DEF Neuron
<1> DEFINE pos(r, x) == r * n + x
<1>7. /\ \A r \in Ranks : part[r] = { Neuron(pos(r, x)) : x \in 1..n }
      /\ \A r \in Ranks : \A x \in 1..n : pos(r, x) \in 1..Inner
      /\ \A i \in 1..Inner : \E r \in Ranks : \E x \in 1..n : i = pos(r, x)
      /\ \A r, o \in Ranks : \A x, y \in 1..n : pos(r, x) = pos(o, y) => r = o
  BY <1>4, <1>5
<1> HIDE DEF part, pos
<1>8. UNION { part[r] : r \in Ranks } = all
  <2>1. ASSUME NEW t \in all PROVE \E r \in Ranks : t \in part[r]
    BY <1>7
  <2>2. ASSUME NEW r \in Ranks, NEW t \in part[r] PROVE t \in all
    BY <1>7
  <2> QED BY <2>1, <2>2
<1>9. \A r, o \in Ranks : \A t \in all : t \in part[r] /\ t \in part[o] => r = o
  <2> SUFFICES ASSUME NEW r \in Ranks, NEW o \in Ranks, NEW t \in all, t \in part[r], t \in part[o]
               PROVE  r = o
    OBVIOUS
  <2>0. part[r] = { Neuron(pos(r, x)) : x \in 1..n } /\ part[o] = { Neuron(pos(o, y)) : y \in 1..n }
    BY <1>7
  <2>1. PICK x \in 1..n : t = Neuron(pos(r, x))
    BY <2>0
  <2>2. PICK y \in 1..n : t = Neuron(pos(o, y))
    BY <2>0
  <2>3. pos(r, x) = pos(o, y)
    BY <1>6, <2>1, <2>2
  <2>4. \A a, b \in Ranks : \A u, w \in 1..n : pos(a, u) = pos(b, w) => a = b
    BY <1>7
  <2> QED BY <2>3, <2>4
<1>10. Reduced(part) = Once(all)
  <2> HIDE DEF all
  <2> QED BY <1>8, <1>9, ReducedOnce
<1>11. \A i \in 1..Inner :
         <<Whole("down_proj")[i], Whole("gate_proj")[i], Whole("up_proj")[i]>> = Neuron(i)
  BY <1>2 DEF Whole, Neuron
<1>12. AllNeurons = all
  BY <1>11 DEF AllNeurons
<1> QED BY <1>10, <1>12 DEF part

(* The heads of the ranks are all of them, and each head of queries has    *)
(* its own keys and values beside it.                                      *)
OneHead(name, h) == [ x \in 1..HeadDim |-> <<Value(name), h * HeadDim + x>> ]
Group         == Heads \div KVHeads
HeadTerm(h, d) ==
    <<<<Value("o_proj"), h * HeadDim + d>>, OneHead("q_proj", h), OneHead("k_proj", h \div Group),
      <<Value("v_proj"), (h \div Group) * HeadDim + d>>>>

LEMMA HeadIs ==
    ASSUME NEW name, NEW n \in Nat, NEW first \in Nat, NEW h \in 0..n - 1, NEW t,
           t = [ x \in 1..n * HeadDim |-> <<Value(name), first * HeadDim + x>> ]
    PROVE  HeadOf(t, h) = OneHead(name, first + h)
<1> DEFINE D == HeadDim
           L == n * D
           s == h * D
           T == {Value(name)} \X Nat
<1>1. D \in Nat \ {0} /\ h \in Nat /\ h + 1 <= n
  BY ShapeAssumption
<1>2. L \in Nat /\ s \in Nat /\ s + D <= L /\ first * D \in Nat
  <2>1. (h + 1) * D <= n * D /\ (h + 1) * D = h * D + D
    BY <1>1
  <2> QED BY <1>1, <2>1
<1>3. (first + h) * D = first * D + s
  BY <1>1
<1> DEFINE f == first * D
<1>4. t = [ x \in 1..L |-> <<Value(name), f + x>> ]
  OBVIOUS
<1> HIDE DEF f, L, s, D
<1>5. t \in Seq(T) /\ Len(t) = L
  <2>1. \A x \in 1..L : <<Value(name), f + x>> \in T
    BY <1>2 DEF f
  <2> DEFINE u == t
  <2>2. u = [ x \in 1..L |-> <<Value(name), f + x>> ]
    BY <1>4
  <2> HIDE DEF T, u
  <2>3. u \in Seq(T) /\ Len(u) = L
    BY <1>2, <2>1, <2>2
  <2> QED BY <2>3 DEF u
<1>6. Narrow(t, s, D) = [ i \in 1..D |-> t[s + i] ]
  <2> DEFINE u == t
  <2>1. u \in Seq(T) /\ s + D <= Len(u)
    BY <1>2, <1>5
  <2> HIDE DEF T, u
  <2>2. s \in Nat /\ D \in Nat
    BY <1>1, <1>2
  <2>3. Narrow(u, s, D) = [ i \in 1..D |-> u[s + i] ]
    BY <2>1, <2>2, Narrowed
  <2> QED BY <2>3 DEF u
<1>7. \A i \in 1..D : t[s + i] = <<Value(name), f + s + i>>
  <2> TAKE i \in 1..D
  <2>1. s + i \in 1..L
    BY <1>1, <1>2
  <2>2. t[s + i] = <<Value(name), f + (s + i)>>
    BY <1>4, <2>1
  <2>3. f + (s + i) = f + s + i
    BY <1>1, <1>2 DEF f
  <2> QED BY <2>2, <2>3
<1>8. Narrow(t, s, D) = [ i \in 1..D |-> <<Value(name), f + s + i>> ]
  BY <1>6, <1>7
<1>9. (first + h) * D = f + s
  BY <1>3 DEF f
<1> DEFINE g == (first + h) * D
<1> HIDE DEF g
<1>10. g = f + s
  BY <1>9 DEF g
<1>11. [ i \in 1..D |-> <<Value(name), f + s + i>> ] = [ i \in 1..D |-> <<Value(name), g + i>> ]
  BY <1>10
<1> QED BY <1>8, <1>11 DEF HeadOf, OneHead, g, s, D

(* Heads, and groups of heads, are shared out alike.                       *)
LEMMA Groups ==
    ASSUME Constructible(source.model, TP), TP \in Nat \ {0}
    PROVE  LET hl == Heads \div TP
               kl == KVHeads \div TP
           IN  /\ hl \in Nat \ {0} /\ kl \in Nat \ {0} /\ Heads = TP * hl /\ KVHeads = TP * kl
               /\ hl \div kl = Group /\ Group \in Nat \ {0}
               /\ \A h \in 0..hl - 1 : h \div Group \in 0..kl - 1
               /\ \A r \in Nat : \A h \in 0..hl - 1 :
                    (r * hl + h) \div Group = r * kl + (h \div Group)
               /\ \A h \in 0..Heads - 1 : h \div Group \in 0..KVHeads - 1
<1> DEFINE hl == Heads \div TP
           kl == KVHeads \div TP
           G == Group
<1>1. Heads \in Nat \ {0} /\ KVHeads \in Nat \ {0} /\ Heads % KVHeads = 0
  BY ShapeAssumption
<1>2. Heads % TP = 0 /\ KVHeads % TP = 0
  BY DEF Constructible
<1>3. hl \in Nat \ {0} /\ Heads = hl * TP /\ kl \in Nat \ {0} /\ KVHeads = kl * TP
  BY <1>1, <1>2, Divides
<1>4. G \in Nat \ {0} /\ Heads = G * KVHeads
  BY <1>1, Divides DEF Group
<1> HIDE DEF hl, kl, G
<1>5. hl = G * kl
  <2> DEFINE m == G * kl
  <2>1. hl * TP = m * TP /\ m \in Nat
    BY <1>3, <1>4
  <2> HIDE DEF m
  <2>2. (hl * TP) \div TP = hl /\ (m * TP) \div TP = m
    BY <1>3, <2>1, Exact
  <2> QED BY <2>1, <2>2 DEF m
<1>6. hl \div kl = G
  <2>1. (G * kl) \div kl = G
    BY <1>3, <1>4, Exact
  <2> QED BY <1>5, <2>1
<1>7. Heads = TP * hl /\ KVHeads = TP * kl
  BY <1>3
<1>8. ASSUME NEW h \in 0..hl - 1
      PROVE  h \div G \in 0..kl - 1 /\ (h \div G) * G <= h /\ h < ((h \div G) + 1) * G
  <2>1. h \in Nat /\ h < kl * G
    BY <1>3, <1>4, <1>5
  <2> DEFINE q == h \div G
             y == h % G
  <2>2. q \in Nat /\ y \in 0..G - 1 /\ h = G * q + y /\ q < kl
    BY <1>3, <1>4, <2>1, Quotient
  <2> HIDE DEF q, y
  <2>3. q \in 0..kl - 1
    BY <1>3, <2>2
  <2>4. q * G <= h /\ h < (q + 1) * G
    <3>1. q * G = G * q /\ (q + 1) * G = G * q + G /\ G * q \in Nat /\ y \in Nat /\ y < G
      BY <1>4, <2>2
    <3> DEFINE z == G * q
    <3> HIDE DEF z
    <3>2. q * G = z /\ (q + 1) * G = z + G /\ z \in Nat /\ h = z + y
      BY <2>2, <3>1 DEF z
    <3> QED BY <1>4, <3>1, <3>2
  <2> QED BY <2>3, <2>4 DEF q
<1>9. ASSUME NEW r \in Nat, NEW h \in 0..hl - 1 PROVE (r * hl + h) \div G = r * kl + (h \div G)
  <2> DEFINE g == h \div G
             q == r * kl + g
             n == r * hl + h
  <2>1. g \in Nat /\ g * G <= h /\ h < (g + 1) * G /\ h \in Nat
    BY <1>8
  <2> HIDE DEF g
  <2>2. r * kl \in Nat /\ r * hl \in Nat /\ r * hl = (r * kl) * G
    <3>1. r * (G * kl) = (r * kl) * G
      BY <1>3, <1>4
    <3> QED BY <1>3, <1>5, <3>1
  <2>3. q * G = r * hl + g * G /\ (q + 1) * G = r * hl + (g + 1) * G
    <3> DEFINE z == r * kl
    <3>1. z \in Nat /\ r * hl = z * G /\ q = z + g
      BY <2>2
    <3> HIDE DEF z, q
    <3>2. (z + g) * G = z * G + g * G /\ (z + g + 1) * G = z * G + (g + 1) * G
      BY <1>4, <2>1, <3>1
    <3> QED BY <3>1, <3>2
  <2>4. q \in Nat /\ n \in Nat
    BY <2>1, <2>2
  <2>5. q * G <= n /\ n < (q + 1) * G
    <3> DEFINE a == r * hl
               b == g * G
               c == (g + 1) * G
    <3>1. a \in Nat /\ b \in Nat /\ c \in Nat /\ n = a + h
      BY <1>4, <2>1, <2>2
    <3>2. q * G = a + b /\ (q + 1) * G = a + c /\ b <= h /\ h < c
      BY <2>1, <2>3
    <3> HIDE DEF a, b, c, n, q
    <3> QED BY <2>1, <3>1, <3>2
  <2> HIDE DEF n, q
  <2>6. n \div G = q
    BY <1>4, <2>4, <2>5, Quotient
  <2> QED BY <2>6 DEF n, q, g
<1>10. ASSUME NEW h \in 0..Heads - 1 PROVE h \div G \in 0..KVHeads - 1
  <2>1. h \in Nat /\ h < KVHeads * G
    BY <1>1, <1>4
  <2>2. h \div G \in Nat /\ h \div G < KVHeads
    BY <1>1, <1>4, <2>1, Quotient
  <2> QED BY <1>1, <2>2
<1> QED BY <1>3, <1>4, <1>6, <1>7, <1>8, <1>9, <1>10 DEF hl, kl, G

LEMMA SplitOf ==
    ASSUME WeightsInv, Started, NEW r \in Ranks
    PROVE  /\ Split(r).q = Held(r, "q_proj") /\ Split(r).k = Held(r, "k_proj")
           /\ Split(r).v = Held(r, "v_proj")
<1> DEFINE a == Part(TP, "q_proj")
           b == Part(TP, "k_proj")
           t == Param(r, "qkv_proj")
<1>1. /\ a = (Heads \div TP) * HeadDim /\ b = (KVHeads \div TP) * HeadDim /\ Part(TP, "v_proj") = b
      /\ Offset(TP, "q_proj") = 0 /\ Offset(TP, "k_proj") = a /\ Offset(TP, "v_proj") = a + b
  BY Spread DEF Part, Sized
<1>2. ASSUME NEW name \in {"q_proj", "k_proj", "v_proj"}
      PROVE  Narrow(t, Offset(TP, name), Part(TP, name)) = Held(r, name)
  <2>1. name \in DOMAIN Packed /\ Packed[name][1] = "qkv_proj"
    BY Names
  <2>2. Narrow(Param(r, Packed[name][1]), Offset(TP, name), Part(TP, name)) = Held(r, name)
    BY <2>1, PackedParam
  <2> QED BY <2>1, <2>2
<1>3. Split(r) = [q |-> Narrow(t, 0, a), k |-> Narrow(t, a, b), v |-> Narrow(t, a + b, b)]
  BY <1>1 DEF Split
<1> HIDE DEF t
<1>4. Narrow(t, 0, a) = Held(r, "q_proj")
  BY <1>1, <1>2
<1>5. Narrow(t, a, b) = Held(r, "k_proj")
  BY <1>1, <1>2
<1>6. Narrow(t, a + b, b) = Held(r, "v_proj")
  BY <1>1, <1>2
<1> HIDE DEF a, b
<1> QED BY <1>3, <1>4, <1>5, <1>6

(* The heads of one rank.                                                  *)
LEMMA AttendedBy ==
    ASSUME WeightsInv, Started, NEW r \in Ranks
    PROVE  LET hl == Heads \div TP
           IN  Attended(r) = { HeadTerm(r * hl + h, d) : h \in 0..hl - 1, d \in 1..HeadDim }
<1> DEFINE hl == Heads \div TP
           kl == KVHeads \div TP
           D == HeadDim
           s == Split(r)
           column == Param(r, "o_proj")
<1>1. /\ Constructible(source.model, TP) /\ TP \in Nat \ {0} /\ r \in Nat /\ D \in Nat \ {0}
  BY Spread, RanksAre, ShapeAssumption DEF Started, Accepted
<1>2. /\ hl \in Nat \ {0} /\ kl \in Nat \ {0} /\ hl \div kl = Group /\ Group \in Nat \ {0}
      /\ \A h \in 0..hl - 1 : h \div Group \in 0..kl - 1
      /\ \A h \in 0..hl - 1 : (r * hl + h) \div Group = r * kl + (h \div Group)
  BY <1>1, Groups
<1>3. Attended(r) = { <<column[h * D + d], HeadOf(s.q, h), HeadOf(s.k, h \div Group),
                        HeadOf(s.v, h \div Group)[d]>> : h \in 0..hl - 1, d \in 1..D }
  BY <1>2 DEF Attended
<1>4. /\ column = Held(r, "o_proj") /\ s.q = Held(r, "q_proj") /\ s.k = Held(r, "k_proj")
      /\ s.v = Held(r, "v_proj")
  <2>1. "o_proj" \in Known \ DOMAIN Packed
    BY Names
  <2> QED BY <2>1, PlainParam, SplitOf
<1> HIDE DEF s, column
<1>5. /\ Part(TP, "q_proj") = hl * D /\ Part(TP, "o_proj") = hl * D
      /\ Part(TP, "k_proj") = kl * D /\ Part(TP, "v_proj") = kl * D
  BY DEF Part
<1> HIDE DEF hl, kl
<1>6. r * (hl * D) = (r * hl) * D /\ r * (kl * D) = (r * kl) * D
      /\ r * hl \in Nat /\ r * kl \in Nat
  BY <1>1, <1>2
<1>7. /\ column = [ x \in 1..hl * D |-> <<Value("o_proj"), (r * hl) * D + x>> ]
      /\ s.q = [ x \in 1..hl * D |-> <<Value("q_proj"), (r * hl) * D + x>> ]
      /\ s.k = [ x \in 1..kl * D |-> <<Value("k_proj"), (r * kl) * D + x>> ]
      /\ s.v = [ x \in 1..kl * D |-> <<Value("v_proj"), (r * kl) * D + x>> ]
  <2> DEFINE a == hl * D
             b == kl * D
             ra == (r * hl) * D
             rb == (r * kl) * D
  <2>1. First(TP, r, "o_proj") = ra /\ First(TP, r, "q_proj") = ra
        /\ First(TP, r, "k_proj") = rb /\ First(TP, r, "v_proj") = rb
    BY <1>5, <1>6 DEF First
  <2>2. /\ Part(TP, "q_proj") = a /\ Part(TP, "o_proj") = a
        /\ Part(TP, "k_proj") = b /\ Part(TP, "v_proj") = b
    BY <1>5
  <2> HIDE DEF a, b, ra, rb
  <2>3. /\ column = [ x \in 1..a |-> <<Value("o_proj"), ra + x>> ]
        /\ s.q = [ x \in 1..a |-> <<Value("q_proj"), ra + x>> ]
        /\ s.k = [ x \in 1..b |-> <<Value("k_proj"), rb + x>> ]
        /\ s.v = [ x \in 1..b |-> <<Value("v_proj"), rb + x>> ]
    BY <1>4, <2>1, <2>2 DEF Held
  <2> QED BY <2>3 DEF a, b, ra, rb
<1>8. ASSUME NEW h \in 0..hl - 1
      PROVE  /\ HeadOf(s.q, h) = OneHead("q_proj", r * hl + h)
             /\ HeadOf(s.k, h \div Group) = OneHead("k_proj", r * kl + (h \div Group))
             /\ HeadOf(s.v, h \div Group) = OneHead("v_proj", r * kl + (h \div Group))
  <2>1. HeadOf(s.q, h) = OneHead("q_proj", r * hl + h)
    <3> DEFINE f == r * hl
    <3>1. f \in Nat /\ hl \in Nat /\ s.q = [ x \in 1..hl * HeadDim |-> <<Value("q_proj"), f * HeadDim + x>> ]
      BY <1>2, <1>6, <1>7
    <3> HIDE DEF f
    <3>2. HeadOf(s.q, h) = OneHead("q_proj", f + h)
      BY <3>1, HeadIs
    <3> QED BY <3>2 DEF f
  <2>2. ASSUME NEW name, NEW t, t = [ x \in 1..kl * D |-> <<Value(name), (r * kl) * D + x>> ]
        PROVE  HeadOf(t, h \div Group) = OneHead(name, r * kl + (h \div Group))
    <3> DEFINE f == r * kl
               g == h \div Group
    <3>1. f \in Nat /\ kl \in Nat /\ g \in 0..kl - 1
          /\ t = [ x \in 1..kl * HeadDim |-> <<Value(name), f * HeadDim + x>> ]
      BY <1>2, <1>6, <2>2
    <3> HIDE DEF f, g
    <3>2. HeadOf(t, g) = OneHead(name, f + g)
      BY <3>1, HeadIs
    <3> QED BY <3>2 DEF f, g
  <2>3. HeadOf(s.k, h \div Group) = OneHead("k_proj", r * kl + (h \div Group))
    BY <1>7, <2>2
  <2>4. HeadOf(s.v, h \div Group) = OneHead("v_proj", r * kl + (h \div Group))
    BY <1>7, <2>2
  <2> QED BY <2>1, <2>3, <2>4
<1>9. ASSUME NEW h \in 0..hl - 1, NEW d \in 1..D
      PROVE  column[h * D + d] = <<Value("o_proj"), (r * hl + h) * D + d>>
  <2> DEFINE a == hl * D
             ra == (r * hl) * D
             s1 == h * D
  <2>1. a \in Nat /\ ra \in Nat /\ s1 \in Nat /\ s1 + d \in 1..a /\ h \in Nat
    <3>1. h \in Nat /\ h + 1 <= hl
      BY <1>2
    <3>2. (h + 1) * D <= hl * D /\ (h + 1) * D = h * D + D /\ h * D \in Nat /\ hl * D \in Nat
      BY <1>1, <1>2, <3>1
    <3>3. ra \in Nat
      BY <1>1, <1>6
    <3> HIDE DEF ra
    <3>4. a \in Nat /\ s1 \in Nat /\ s1 + D <= a
      BY <3>2
    <3> HIDE DEF a, s1
    <3> QED BY <1>1, <3>1, <3>3, <3>4
  <2>2. (r * hl + h) * D = ra + s1
    <3> DEFINE f == r * hl
    <3>1. f \in Nat
      BY <1>6
    <3> HIDE DEF f
    <3>2. (f + h) * D = f * D + h * D
      BY <1>1, <2>1, <3>1
    <3> QED BY <3>2 DEF f
  <2>3. column = [ x \in 1..a |-> <<Value("o_proj"), ra + x>> ]
    BY <1>7
  <2> DEFINE z == (r * hl + h) * D
  <2> HIDE DEF a, ra, s1, z
  <2>4. column[s1 + d] = <<Value("o_proj"), ra + (s1 + d)>>
    BY <2>1, <2>3
  <2>5. ra + (s1 + d) = z + d
    BY <1>1, <2>1, <2>2 DEF z
  <2>6. column[s1 + d] = <<Value("o_proj"), z + d>>
    BY <2>4, <2>5
  <2> QED BY <2>6 DEF s1, z
<1>10. ASSUME NEW h \in 0..hl - 1, NEW d \in 1..D
       PROVE  <<column[h * D + d], HeadOf(s.q, h), HeadOf(s.k, h \div Group),
                HeadOf(s.v, h \div Group)[d]>> = HeadTerm(r * hl + h, d)
  <2> DEFINE H == r * hl + h
             g == h \div Group
  <2>1. H \div Group = r * kl + g
    BY <1>2
  <2>2. /\ HeadOf(s.q, h) = OneHead("q_proj", H) /\ HeadOf(s.k, g) = OneHead("k_proj", r * kl + g)
        /\ HeadOf(s.v, g) = OneHead("v_proj", r * kl + g)
        /\ column[h * D + d] = <<Value("o_proj"), H * D + d>>
    BY <1>8, <1>9
  <2> DEFINE K == r * kl + g
  <2>3. OneHead("v_proj", K)[d] = <<Value("v_proj"), K * D + d>>
    <3> HIDE DEF K
    <3> QED BY DEF OneHead
  <2> DEFINE c == column[h * D + d]
  <2>4. /\ c = <<Value("o_proj"), H * HeadDim + d>> /\ HeadOf(s.q, h) = OneHead("q_proj", H)
        /\ HeadOf(s.k, g) = OneHead("k_proj", H \div Group)
        /\ HeadOf(s.v, g)[d] = <<Value("v_proj"), (H \div Group) * HeadDim + d>>
    BY <2>1, <2>2, <2>3
  <2> HIDE DEF H, g, K, c
  <2>5. <<c, HeadOf(s.q, h), HeadOf(s.k, g), HeadOf(s.v, g)[d]>> = HeadTerm(H, d)
    BY <2>4 DEF HeadTerm
  <2> QED BY <2>5 DEF H, g, c
<1>11. { <<column[h * D + d], HeadOf(s.q, h), HeadOf(s.k, h \div Group),
           HeadOf(s.v, h \div Group)[d]>> : h \in 0..hl - 1, d \in 1..D }
         = { HeadTerm(r * hl + h, d) : h \in 0..hl - 1, d \in 1..D }
  <2> DEFINE e(h, d) == <<column[h * D + d], HeadOf(s.q, h), HeadOf(s.k, h \div Group),
                          HeadOf(s.v, h \div Group)[d]>>
             f(h, d) == HeadTerm(r * hl + h, d)
  <2>1. \A h \in 0..hl - 1 : \A d \in 1..D : e(h, d) = f(h, d)
    BY <1>10
  <2> HIDE DEF e, f
  <2>2. { e(h, d) : h \in 0..hl - 1, d \in 1..D } = { f(h, d) : h \in 0..hl - 1, d \in 1..D }
    BY <2>1
  <2> QED BY <2>2 DEF e, f
<1>12. Attended(r) = { HeadTerm(r * hl + h, d) : h \in 0..hl - 1, d \in 1..D }
  BY <1>3, <1>11
<1> QED BY <1>12 DEF hl

(* A whole weight, head by head.                                           *)
LEMMA WholeHeads ==
    ASSUME NEW h \in 0..Heads - 1, NEW d \in 1..HeadDim
    PROVE  LET g == h \div Group
           IN  <<Whole("o_proj")[h * HeadDim + d], HeadOf(Whole("q_proj"), h),
                 HeadOf(Whole("k_proj"), g), HeadOf(Whole("v_proj"), g)[d]>> = HeadTerm(h, d)
<1> DEFINE g == h \div Group
           D == HeadDim
<1>1. D \in Nat \ {0} /\ Heads \in Nat \ {0} /\ KVHeads \in Nat \ {0} /\ Heads % KVHeads = 0
  BY ShapeAssumption
<1>2. g \in 0..KVHeads - 1
  <2>1. Group \in Nat \ {0} /\ Heads = Group * KVHeads
    BY <1>1, Divides DEF Group
  <2>2. h \in Nat /\ h < KVHeads * Group
    <3>1. KVHeads * Group = Group * KVHeads
      BY <1>1, <2>1
    <3> QED BY <1>1, <2>1, <3>1
  <2>3. h \div Group \in Nat /\ h \div Group < KVHeads
    BY <1>1, <2>1, <2>2, Quotient
  <2> QED BY <1>1, <2>3
<1>3. ASSUME NEW name, NEW n \in Nat, FullSize(name) = n * D
      PROVE  Whole(name) = [ x \in 1..n * D |-> <<Value(name), 0 * HeadDim + x>> ]
  <2> DEFINE N == n * D
  <2>1. N \in Nat /\ FullSize(name) = N /\ 0 * HeadDim = 0
    BY <1>1, <1>3
  <2> HIDE DEF N
  <2>2. \A x \in 1..N : 0 * HeadDim + x = x
    BY <2>1
  <2>3. Whole(name) = [ x \in 1..N |-> <<Value(name), x>> ]
    BY <2>1 DEF Whole
  <2>4. Whole(name) = [ x \in 1..N |-> <<Value(name), 0 * HeadDim + x>> ]
    BY <2>2, <2>3
  <2> QED BY <2>4 DEF N
<1>4. ASSUME NEW name, NEW n \in Nat, FullSize(name) = n * D, NEW i \in 0..n - 1
      PROVE  HeadOf(Whole(name), i) = OneHead(name, i)
  <2> DEFINE t == Whole(name)
  <2>1. t = [ x \in 1..n * HeadDim |-> <<Value(name), 0 * HeadDim + x>> ]
    BY <1>3, <1>4
  <2> HIDE DEF t
  <2>2. HeadOf(t, i) = OneHead(name, 0 + i)
    BY <2>1, HeadIs
  <2>3. 0 + i = i
    OBVIOUS
  <2> QED BY <2>2, <2>3 DEF t
<1>5. /\ FullSize("o_proj") = Heads * D /\ FullSize("q_proj") = Heads * D
      /\ FullSize("k_proj") = KVHeads * D /\ FullSize("v_proj") = KVHeads * D
  BY DEF FullSize
<1> HIDE DEF g
<1>6. HeadOf(Whole("q_proj"), h) = OneHead("q_proj", h)
  BY <1>1, <1>4, <1>5
<1>7. /\ HeadOf(Whole("k_proj"), g) = OneHead("k_proj", g)
      /\ HeadOf(Whole("v_proj"), g) = OneHead("v_proj", g)
  BY <1>1, <1>2, <1>4, <1>5
<1>8. HeadOf(Whole("v_proj"), g)[d] = <<Value("v_proj"), g * D + d>>
  BY <1>7 DEF OneHead
<1>9. Whole("o_proj")[h * D + d] = <<Value("o_proj"), h * D + d>>
  <2> DEFINE N == Heads * D
             s == h * D
  <2>1. s \in Nat /\ N \in Nat /\ s + D <= N
    <3>1. h \in Nat /\ h + 1 <= Heads
      BY <1>1
    <3>2. (h + 1) * D <= Heads * D /\ (h + 1) * D = h * D + D /\ h * D \in Nat /\ Heads * D \in Nat
      BY <1>1, <3>1
    <3> QED BY <3>2
  <2>2. FullSize("o_proj") = N
    BY <1>5
  <2> HIDE DEF N, s
  <2>3. s + d \in 1..N
    BY <1>1, <2>1
  <2>4. Whole("o_proj")[s + d] = <<Value("o_proj"), s + d>>
    BY <2>2, <2>3 DEF Whole
  <2> QED BY <2>4 DEF s
<1>10. HeadTerm(h, d) = <<<<Value("o_proj"), h * D + d>>, OneHead("q_proj", h), OneHead("k_proj", g),
                          <<Value("v_proj"), g * D + d>>>>
  BY DEF HeadTerm, g
<1> DEFINE c == Whole("o_proj")[h * D + d]
<1>11. c = <<Value("o_proj"), h * D + d>>
  BY <1>9
<1> HIDE DEF c
<1>12. <<c, HeadOf(Whole("q_proj"), h), HeadOf(Whole("k_proj"), g), HeadOf(Whole("v_proj"), g)[d]>>
         = HeadTerm(h, d)
  BY <1>6, <1>7, <1>8, <1>10, <1>11
<1> QED BY <1>12 DEF c, g

LEMMA AttendedOnce ==
    ASSUME WeightsInv, Started
    PROVE  Reduced([ r \in Ranks |-> Attended(r) ]) = Once(AllHeads)
<1> DEFINE hl == Heads \div TP
           D == HeadDim
           part == [ r \in Ranks |-> Attended(r) ]
           all == { HeadTerm(h, d) : h \in 0..Heads - 1, d \in 1..D }
           at0(r, h) == r * hl + h
           cell(h, d) == h * D + d
<1>1. /\ hl \in Nat \ {0} /\ Heads = TP * hl /\ D \in Nat \ {0} /\ TP \in Nat \ {0}
      /\ \A r \in Ranks : r \in Nat
  <2>1. Constructible(source.model, TP) /\ TP \in Nat \ {0} /\ Ranks = 0..TP - 1 /\ D \in Nat \ {0}
    BY Spread, RanksAre, ShapeAssumption DEF Started, Accepted
  <2>2. hl \in Nat \ {0} /\ Heads = TP * hl
    BY <2>1, Groups
  <2>3. \A r \in Ranks : r \in Nat
    BY <2>1
  <2> QED BY <2>1, <2>2, <2>3
<1> DEFINE a == hl * D
<1>2. a \in Nat \ {0}
  BY <1>1
<1>3. \A r \in Ranks : part[r] = { HeadTerm(at0(r, h), d) : h \in 0..hl - 1, d \in 1..D }
  BY AttendedBy
<1> HIDE DEF hl
<1>4. ASSUME NEW r \in Ranks, NEW h \in 0..hl - 1 PROVE at0(r, h) \in 0..Heads - 1
  <2> DEFINE s == r * hl
             N == TP * hl
  <2>1. h + 1 \in 1..hl /\ h \in Nat
    BY <1>1
  <2>2. s + (h + 1) \in 1..N
    BY <1>1, <2>1, Shares
  <2>3. s \in Nat /\ N \in Nat /\ Heads = N
    BY <1>1
  <2> HIDE DEF s, N
  <2>4. s + h \in 0..Heads - 1
    BY <2>1, <2>2, <2>3
  <2> QED BY <2>4 DEF s
<1>5. ASSUME NEW h \in 0..Heads - 1
      PROVE  \E r \in Ranks : \E i \in 0..hl - 1 : h = at0(r, i)
  <2>1. h + 1 \in 1..TP * hl
    <3> DEFINE N == TP * hl
    <3>1. N \in Nat /\ h \in 0..N - 1
      BY <1>1
    <3> HIDE DEF N
    <3>2. h + 1 \in 1..N
      BY <3>1
    <3> QED BY <3>2 DEF N
  <2>2. \E r \in Ranks : \E x \in 1..hl : h + 1 = r * hl + x
    BY <1>1, <2>1, Shares
  <2>3. PICK r \in Ranks : \E x \in 1..hl : h + 1 = r * hl + x
    BY <2>2
  <2>4. PICK x \in 1..hl : h + 1 = r * hl + x
    BY <2>3
  <2> DEFINE s == r * hl
  <2>5. s \in Nat /\ h + 1 = s + x
    BY <1>1, <2>4
  <2>6. h \in Nat /\ x \in Nat
    BY <1>1
  <2> HIDE DEF s
  <2>7. h = s + (x - 1) /\ x - 1 \in 0..hl - 1
    BY <1>1, <2>5, <2>6
  <2>8. h = at0(r, x - 1)
    BY <2>7 DEF s
  <2> QED BY <2>7, <2>8
<1>6. ASSUME NEW r \in Ranks, NEW h \in 0..hl - 1, NEW d \in 1..D
      PROVE  \E x \in 1..a : cell(at0(r, h), d) = r * a + x
  <2>1. h \in Nat /\ h + 1 <= hl /\ r \in Nat /\ d \in Nat /\ 1 <= d /\ d <= D
    BY <1>1
  <2>2. (h + 1) * D <= hl * D /\ (h + 1) * D = h * D + D /\ h * D \in Nat
    BY <1>1, <2>1
  <2>3. (r * hl + h) * D = r * (hl * D) + h * D
    BY <1>1, <2>1
  <2> DEFINE s == h * D
             ra == r * a
             z == (r * hl + h) * D
  <2>4. s \in Nat /\ ra \in Nat /\ s + D <= a /\ z = ra + s
    BY <1>1, <1>2, <2>1, <2>2, <2>3
  <2> HIDE DEF s, ra, z, a
  <2>5. s + d \in 1..a /\ z + d = ra + (s + d)
    BY <1>1, <1>2, <2>1, <2>4
  <2>6. \E x \in 1..a : z + d = ra + x
    BY <2>5
  <2> QED BY <2>6 DEF z, ra
<1> HIDE DEF a
<1>7. ASSUME NEW r \in Ranks, NEW o \in Ranks, NEW h \in 0..hl - 1, NEW i \in 0..hl - 1,
             NEW d \in 1..D, NEW e \in 1..D, cell(at0(r, h), d) = cell(at0(o, i), e)
      PROVE  r = o
  <2>1. PICK x \in 1..a : cell(at0(r, h), d) = r * a + x
    BY <1>6
  <2>2. PICK y \in 1..a : cell(at0(o, i), e) = o * a + y
    BY <1>6
  <2> HIDE DEF cell, at0
  <2>3. r * a + x = o * a + y
    BY <1>7, <2>1, <2>2, Zenon
  <2> QED BY <1>2, <2>3, Shares
<1>8. \A h, d, i, e : HeadTerm(h, d) = HeadTerm(i, e) => cell(h, d) = cell(i, e)
  <2> DEFINE H(h, d) == HeadTerm(h, d)
  <2>1. \A h, d : H(h, d)[1] = <<Value("o_proj"), cell(h, d)>>
    BY DEF HeadTerm
  <2> HIDE DEF H, cell
  <2>2. \A h, d, i, e : H(h, d) = H(i, e) => cell(h, d) = cell(i, e)
    <3> SUFFICES ASSUME NEW h, NEW d, NEW i, NEW e, H(h, d) = H(i, e)
                 PROVE  cell(h, d) = cell(i, e)
      OBVIOUS
    <3>1. H(h, d)[1] = <<Value("o_proj"), cell(h, d)>> /\ H(i, e)[1] = <<Value("o_proj"), cell(i, e)>>
      BY <2>1
    <3>2. <<Value("o_proj"), cell(h, d)>> = <<Value("o_proj"), cell(i, e)>>
      BY <3>1
    <3> QED BY <3>2
  <2> QED BY <2>2 DEF H
<1> HIDE DEF part, at0, cell, D
<1>9. UNION { part[r] : r \in Ranks } = all
  <2>1. ASSUME NEW t \in all PROVE \E r \in Ranks : t \in part[r]
    <3>1. PICK h \in 0..Heads - 1, d \in 1..D : t = HeadTerm(h, d)
      OBVIOUS
    <3>2. PICK r \in Ranks : \E i \in 0..hl - 1 : h = at0(r, i)
      BY <1>5
    <3>3. PICK i \in 0..hl - 1 : h = at0(r, i)
      BY <3>2
    <3>4. part[r] = { HeadTerm(at0(r, x), y) : x \in 0..hl - 1, y \in 1..D }
      BY <1>3
    <3> QED BY <3>1, <3>3, <3>4
  <2>2. ASSUME NEW r \in Ranks, NEW t \in part[r] PROVE t \in all
    <3>1. part[r] = { HeadTerm(at0(r, x), y) : x \in 0..hl - 1, y \in 1..D }
      BY <1>3
    <3>2. PICK h \in 0..hl - 1, d \in 1..D : t = HeadTerm(at0(r, h), d)
      BY <2>2, <3>1
    <3>3. at0(r, h) \in 0..Heads - 1
      BY <1>4
    <3> QED BY <3>2, <3>3
  <2> HIDE DEF all
  <2> QED BY <2>1, <2>2
<1>10. \A r, o \in Ranks : \A t \in all : t \in part[r] /\ t \in part[o] => r = o
  <2> SUFFICES ASSUME NEW r \in Ranks, NEW o \in Ranks, NEW t, t \in part[r], t \in part[o]
               PROVE  r = o
    OBVIOUS
  <2>1. /\ part[r] = { HeadTerm(at0(r, x), y) : x \in 0..hl - 1, y \in 1..D }
        /\ part[o] = { HeadTerm(at0(o, x), y) : x \in 0..hl - 1, y \in 1..D }
    BY <1>3
  <2>2. PICK h \in 0..hl - 1, d \in 1..D : t = HeadTerm(at0(r, h), d)
    BY <2>1
  <2>3. PICK i \in 0..hl - 1, e \in 1..D : t = HeadTerm(at0(o, i), e)
    BY <2>1
  <2>4. HeadTerm(at0(r, h), d) = HeadTerm(at0(o, i), e)
    BY <2>2, <2>3
  <2>5. cell(at0(r, h), d) = cell(at0(o, i), e)
    <3> DEFINE u == at0(r, h)
               w == at0(o, i)
    <3> HIDE DEF u, w
    <3>1. HeadTerm(u, d) = HeadTerm(w, e)
      BY <2>4 DEF u, w
    <3>2. cell(u, d) = cell(w, e)
      BY <1>8, <3>1
    <3> QED BY <3>2 DEF u, w
  <2> QED BY <1>7, <2>5
<1>11. Reduced(part) = Once(all)
  <2> HIDE DEF all
  <2> QED BY <1>9, <1>10, ReducedOnce
<1> DEFINE e(h, d) == LET g == h \div (Heads \div KVHeads)
                      IN  <<Whole("o_proj")[h * HeadDim + d], HeadOf(Whole("q_proj"), h),
                            HeadOf(Whole("k_proj"), g), HeadOf(Whole("v_proj"), g)[d]>>
<1>12. \A h \in 0..Heads - 1 : \A d \in 1..D : e(h, d) = HeadTerm(h, d)
  BY WholeHeads DEF Group, D
<1>13. { e(h, d) : h \in 0..Heads - 1, d \in 1..D } = all
  <2> HIDE DEF e
  <2> QED BY <1>12
<1> HIDE DEF all
<1>14. Reduced(part) = Once({ e(h, d) : h \in 0..Heads - 1, d \in 1..D })
  <2> HIDE DEF e
  <2> QED BY <1>11, <1>13
<1>15. AllHeads = { e(h, d) : h \in 0..Heads - 1, d \in 1..D }
  BY DEF AllHeads, D
<1> HIDE DEF e
<1> QED BY <1>14, <1>15 DEF part

(* The logits of the ranks, one after the other, are the vocabulary's.     *)
LEMMA GatheredWhole ==
    ASSUME WeightsInv, Started
    PROVE  Gathered = Whole("lm_head")
<1> DEFINE v == Part(TP, "lm_head")
           V == Value("lm_head")
           T == {V} \X Nat
           ss == [ k \in 1..TP |-> Param(k - 1, "lm_head") ]
           off == [ i \in 1..Len(ss) + 1 |-> (i - 1) * v ]
           x == SE!FlattenSeq(ss)
<1>1. /\ v \in Nat \ {0} /\ FullSize("lm_head") = TP * v /\ TP \in Nat \ {0} /\ Ranks = 0..TP - 1
      /\ "lm_head" \in Known \ DOMAIN Packed
  BY Spread, RanksAre, Names DEF Sized
<1> HIDE DEF v
<1>2. ASSUME NEW k \in 1..TP
      PROVE  ss[k] = [ i \in 1..v |-> <<V, (k - 1) * v + i>> ] /\ (k - 1) * v \in Nat
  <2>1. k - 1 \in Ranks /\ k - 1 \in Nat
    BY <1>1
  <2>2. Param(k - 1, "lm_head") = Held(k - 1, "lm_head")
    BY <1>1, <2>1, PlainParam
  <2> QED BY <1>1, <2>1, <2>2 DEF Held, First, v
<1>3. Len(ss) = TP
  BY <1>1
<1>4. \A k \in 1..TP : ss[k] \in Seq(T) /\ Len(ss[k]) = v
  <2> TAKE k \in 1..TP
  <2> DEFINE f == (k - 1) * v
             s == ss[k]
  <2>1. s = [ i \in 1..v |-> <<V, f + i>> ] /\ f \in Nat
    BY <1>2
  <2> HIDE DEF f, s
  <2>2. \A i \in 1..v : <<V, f + i>> \in T
    BY <1>1, <2>1
  <2> HIDE DEF T
  <2>3. s \in Seq(T) /\ Len(s) = v
    <3>1. v \in Nat
      BY <1>1
    <3> DEFINE e(i) == <<V, f + i>>
    <3>2. s = [ i \in 1..v |-> e(i) ] /\ \A i \in 1..v : e(i) \in T
      BY <2>1, <2>2
    <3> HIDE DEF e
    <3> QED BY <3>1, <3>2
  <2> QED BY <2>3 DEF s
<1>5. ss \in Seq(Seq(T))
  <2> HIDE DEF T
  <2> QED BY <1>1, <1>4
<1>6. off = [ i \in 1..TP + 1 |-> (i - 1) * v ]
  BY <1>3
<1> HIDE DEF off
<1>7. Offsets(off, ss)
  <2>1. off[1] = 0 /\ \A i \in 1..TP + 1 : off[i] = (i - 1) * v /\ (i - 1) * v \in Nat
    <3>1. (1 - 1) * v = 0 /\ \A i \in 1..TP + 1 : (i - 1) * v \in Nat
      BY <1>1
    <3> QED BY <1>1, <1>6, <3>1
  <2>2. \A i \in 1..TP : off[i + 1] = off[i] + v
    <3> TAKE i \in 1..TP
    <3>1. i \in 1..TP + 1 /\ i + 1 \in 1..TP + 1 /\ i \in Nat
      BY <1>1
    <3>2. (i + 1 - 1) * v = (i - 1) * v + v
      BY <1>1, <3>1
    <3> QED BY <1>6, <3>1, <3>2
  <2>3. off \in [1..TP + 1 -> Nat]
    BY <1>6, <2>1
  <2> HIDE DEF ss
  <2> QED BY <1>3, <1>4, <2>1, <2>2, <2>3 DEF Offsets
<1>8. JoinOf(x, ss, off, T)
  <2> HIDE DEF T, ss
  <2> QED BY <1>5, <1>7, FlattenFacts
<1> HIDE DEF x, ss
<1>9. off[TP + 1] = TP * v /\ \A i \in 1..TP : off[i] = (i - 1) * v
  <2> DEFINE z == TP + 1
  <2>1. z \in 1..z /\ z - 1 = TP /\ \A i \in 1..TP : i \in 1..z
    BY <1>1
  <2>2. off = [ i \in 1..z |-> (i - 1) * v ]
    BY <1>6
  <2> HIDE DEF z
  <2>3. off[z] = (z - 1) * v /\ \A i \in 1..TP : off[i] = (i - 1) * v
    BY <2>1, <2>2
  <2>4. off[z] = TP * v
    BY <2>1, <2>3
  <2> QED BY <2>3, <2>4 DEF z
<1> DEFINE N == TP * v
<1>10. N \in Nat
  BY <1>1
<1> HIDE DEF N
<1>11. x \in Seq(T) /\ Len(x) = N
  <2> HIDE DEF T
  <2> QED BY <1>3, <1>8, <1>9 DEF JoinOf, N
<1>12. \A r \in 1..N : x[r] = <<V, r>>
  <2> TAKE r \in 1..N
  <2>1. PICK i \in 1..TP : \E k \in 1..Len(ss[i]) : r = off[i] + k
    BY <1>3, <1>8, <1>11 DEF JoinOf
  <2>2. PICK k \in 1..v : r = off[i] + k
    BY <1>4, <2>1
  <2>3. x[off[i] + k] = ss[i][k]
    <3>1. k \in 1..Len(ss[i])
      BY <1>4
    <3> QED BY <1>3, <1>8, <3>1 DEF JoinOf
  <2>4. ss[i][k] = <<V, off[i] + k>>
    <3> DEFINE f == (i - 1) * v
    <3>1. ss[i] = [ j \in 1..v |-> <<V, f + j>> ] /\ off[i] = f
      BY <1>2, <1>9
    <3> HIDE DEF f
    <3> QED BY <3>1
  <2> QED BY <2>2, <2>3, <2>4
<1>13. x = [ i \in 1..N |-> <<V, i>> ]
  <2> HIDE DEF T, V
  <2>1. x = [ i \in 1..N |-> x[i] ]
    BY <1>10, <1>11
  <2> QED BY <1>12, <2>1
<1>14. Gathered = x
  BY DEF Gathered, x, ss
<1>15. FullSize("lm_head") = N
  BY <1>1 DEF N
<1> QED BY <1>13, <1>14, <1>15 DEF Whole

(* Rank 0 samples after the last token of each sequence.                   *)
LEMMA SampledLast ==
    ASSUME NEW n \in DOMAIN Inputs
    PROVE  /\ DOMAIN Sampled(n) = DOMAIN LastTokens(n)
           /\ \A i \in DOMAIN LastTokens(n) :
                /\ Rows(n)[Sampled(n)[i]] = LastTokens(n)[i]
                /\ LastTokens(n)[i] \in 0..Vocab - 1
<1> DEFINE T == 0..Vocab - 1
           ss == Inputs[n].sequences
           x == SE!FlattenSeq(ss)
           L == Len(ss)
<1>1. /\ ss \in Seq(Seq(T)) /\ Inputs[n].isPrefill \in BOOLEAN
      /\ \A i \in 1..L : ss[i] \in Seq(T) /\ ss[i] # << >>
      /\ ~ Inputs[n].isPrefill => \A i \in 1..L : Len(ss[i]) = 1
      /\ L \in Nat /\ DOMAIN ss = 1..L
  <2> DEFINE X == Seq(Seq(T) \ {<< >>})
  <2>1. Inputs \in Seq([isPrefill : BOOLEAN, sequences : X])
        /\ (~ Inputs[n].isPrefill => \A i \in DOMAIN ss : Len(ss[i]) = 1)
    BY InputsAssumption
  <2>2. ss \in X /\ Inputs[n].isPrefill \in BOOLEAN
    <3> DEFINE Y == [isPrefill : BOOLEAN, sequences : X]
    <3> HIDE DEF X
    <3>1. Inputs \in Seq(Y)
      BY <2>1
    <3>2. Inputs[n] \in Y
      <4> HIDE DEF Y
      <4> QED BY <3>1
    <3> QED BY <3>2
  <2> HIDE DEF ss, T
  <2>3. ss \in Seq(Seq(T)) /\ L \in Nat /\ DOMAIN ss = 1..L
    BY <2>2
  <2>4. \A i \in 1..L : ss[i] \in Seq(T) /\ ss[i] # << >>
    BY <2>2
  <2> QED BY <2>1, <2>2, <2>3, <2>4 DEF ss
<1> HIDE DEF T, ss, L
<1>2. \A i \in 1..L : Len(ss[i]) \in Nat \ {0} /\ Last(ss[i]) = ss[i][Len(ss[i])]
                      /\ Last(ss[i]) \in T
  <2> TAKE i \in 1..L
  <2> DEFINE s == ss[i]
  <2>1. s \in Seq(T) /\ s # << >>
    BY <1>1
  <2> HIDE DEF s
  <2>2. Len(s) \in Nat \ {0} /\ Last(s) = s[Len(s)] /\ Last(s) \in T
    BY <2>1 DEF Last
  <2> QED BY <2>2 DEF s
<1>3. LastTokens(n) = [ i \in 1..L |-> Last(ss[i]) ] /\ Rows(n) = x
  BY <1>1 DEF LastTokens, Rows, ss
<1>4. ASSUME Inputs[n].isPrefill
      PROVE  /\ DOMAIN Sampled(n) = 1..L
             /\ \A i \in 1..L : x[Sampled(n)[i]] = Last(ss[i])
  <2> DEFINE weight == [ s \in Range(ss) |-> Len(s) ]
             off == [ i \in 1..Len(ss) + 1 |-> Before(weight, ss, i) ]
  <2>1. \A i \in 1..Len(ss) : weight[ss[i]] = Len(ss[i])
    <3> TAKE i \in 1..Len(ss)
    <3>1. ss[i] \in Range(ss)
      BY <1>1 DEF Range, L
    <3> QED BY <3>1
  <2> HIDE DEF weight
  <2>2. Offsets(off, ss)
    BY <1>1, <2>1, TotalIsOffset
  <2>3. CuSeqlens(n) = off
    BY DEF CuSeqlens, Before, ss, weight
  <2> HIDE DEF off
  <2>4. Sampled(n) = [ i \in 1..L |-> off[i + 1] ]
    BY <1>1, <1>4, <2>3 DEF Sampled, ss
  <2>5. JoinOf(x, ss, off, T)
    BY <1>1, <2>2, FlattenFacts
  <2> HIDE DEF x
  <2>6. ASSUME NEW i \in 1..L PROVE x[off[i + 1]] = Last(ss[i])
    <3>1. off[i + 1] = off[i] + Len(ss[i])
      BY <2>2 DEF Offsets, L
    <3>2. Len(ss[i]) \in 1..Len(ss[i])
      BY <1>2
    <3>3. x[off[i] + Len(ss[i])] = ss[i][Len(ss[i])]
      BY <2>5, <3>2 DEF JoinOf, L
    <3> QED BY <1>2, <3>1, <3>3
  <2> QED BY <2>4, <2>6
<1>5. ASSUME ~ Inputs[n].isPrefill
      PROVE  /\ DOMAIN Sampled(n) = 1..L
             /\ \A i \in 1..L : x[Sampled(n)[i]] = Last(ss[i])
  <2> DEFINE off == [ i \in 1..L + 1 |-> i - 1 ]
  <2>1. Offsets(off, ss)
    <3>1. \A i \in 1..L : i \in 1..L + 1 /\ i + 1 \in 1..L + 1 /\ (i + 1) - 1 = (i - 1) + 1
      BY <1>1
    <3>2. \A i \in 1..L : Len(ss[i]) = 1
      BY <1>1, <1>5
    <3>3. off \in [1..L + 1 -> Nat] /\ off[1] = 0
      BY <1>1
    <3>4. \A i \in 1..L : off[i + 1] = off[i] + Len(ss[i])
      BY <3>1, <3>2
    <3> HIDE DEF off
    <3> QED BY <3>3, <3>4 DEF Offsets, L
  <2>2. JoinOf(x, ss, off, T)
    <3> HIDE DEF off
    <3> QED BY <1>1, <2>1, FlattenFacts
  <2>3. off[L + 1] = L /\ \A i \in 1..L : off[i] = i - 1
    BY <1>1
  <2> HIDE DEF x, off
  <2>4. x \in Seq(T) /\ Len(x) = L
    BY <2>2, <2>3 DEF JoinOf, L
  <2>5. DOMAIN x = 1..L
    BY <1>1, <2>4
  <2>6. Sampled(n) = [ i \in 1..L |-> i ]
    <3>1. Rows(n) = x
      BY <1>3
    <3> QED BY <1>5, <2>5, <3>1 DEF Sampled
  <2>7. ASSUME NEW i \in 1..L PROVE x[i] = Last(ss[i])
    <3>1. Len(ss[i]) = 1
      BY <1>1, <1>5
    <3>2. x[off[i] + 1] = ss[i][1]
      BY <2>2, <3>1 DEF JoinOf, L
    <3>3. off[i] + 1 = i
      BY <1>1, <2>3
    <3> QED BY <1>2, <3>1, <3>2, <3>3
  <2> QED BY <2>6, <2>7
<1> HIDE DEF x
<1> QED BY <1>1, <1>2, <1>3, <1>4, <1>5 DEF T

-----------------------------------------------------------------------------
(* A run that every rank executes.                                         *)
Expected(n) == [ i \in DOMAIN LastTokens(n) |-> Unsharded(LastTokens(n)[i]) ]

LEMMA RunWhole ==
    ASSUME WeightsInv, Started, Current \in DOMAIN Inputs, \A r \in Rank : got[r] = Current
    PROVE  RunOutput = Expected(Current)
<1> DEFINE n == Current
           D == DOMAIN LastTokens(n)
<1>1. /\ DOMAIN Sampled(n) = D
      /\ \A i \in D : Rows(n)[Sampled(n)[i]] = LastTokens(n)[i] /\ LastTokens(n)[i] \in 0..Vocab - 1
  BY SampledLast
<1>2. ASSUME NEW i \in D, NEW r \in Ranks PROVE Token(r, i) = LastTokens(n)[i]
  <2>1. (IF r = 0 THEN Current ELSE got[r]) = n
    BY RanksAre
  <2> HIDE DEF n
  <2>2. n \in DOMAIN Inputs /\ i \in DOMAIN Sampled(n)
    BY <1>1 DEF n
  <2> QED BY <1>1, <2>1, <2>2 DEF Token
<1>3. ASSUME NEW i \in D
      PROVE  Reduced([ r \in Ranks |-> Embedded(r, Token(r, i)) ]) =
               Once({ <<Value("embed_tokens"), LastTokens(n)[i] + 1>> })
  <2> DEFINE token == LastTokens(n)[i]
  <2>1. token \in 0..Vocab - 1
    BY <1>1
  <2>2. \A r \in Ranks : Token(r, i) = token
    BY <1>2
  <2> HIDE DEF token, n, D
  <2>3. [ r \in Ranks |-> Embedded(r, Token(r, i)) ] = [ r \in Ranks |-> Embedded(r, token) ]
    BY <2>2
  <2>4. Reduced([ r \in Ranks |-> Embedded(r, token) ]) =
          Once({ <<Value("embed_tokens"), token + 1>> })
    BY <2>1, EmbeddedOnce
  <2> QED BY <2>3, <2>4 DEF token
<1> HIDE DEF D, n
<1>4. ASSUME NEW i \in D
      PROVE  [embedded  |-> Reduced([ r \in Ranks |-> Embedded(r, Token(r, i)) ]),
              attended  |-> Reduced([ r \in Ranks |-> Attended(r) ]),
              activated |-> Reduced([ r \in Ranks |-> Activated(r) ]),
              logits    |-> Gathered] = Unsharded(LastTokens(n)[i])
  <2> DEFINE e == Reduced([ r \in Ranks |-> Embedded(r, Token(r, i)) ])
             a == Reduced([ r \in Ranks |-> Attended(r) ])
             b == Reduced([ r \in Ranks |-> Activated(r) ])
             t == LastTokens(n)[i]
  <2>1. e = Once({ <<Value("embed_tokens"), t + 1>> })
    BY <1>3
  <2>2. a = Once(AllHeads)
    BY AttendedOnce
  <2>3. b = Once(AllNeurons)
    BY ActivatedOnce
  <2>4. Gathered = Whole("lm_head")
    BY GatheredWhole
  <2> HIDE DEF e, a, b, t
  <2>5. [embedded |-> e, attended |-> a, activated |-> b, logits |-> Gathered] = Unsharded(t)
    BY <2>1, <2>2, <2>3, <2>4 DEF Unsharded
  <2> QED BY <2>5 DEF e, a, b, t
<1>5. RunOutput = [ i \in D |-> Unsharded(LastTokens(n)[i]) ]
  <2> DEFINE f(i) == [embedded  |-> Reduced([ r \in Ranks |-> Embedded(r, Token(r, i)) ]),
                      attended  |-> Reduced([ r \in Ranks |-> Attended(r) ]),
                      activated |-> Reduced([ r \in Ranks |-> Activated(r) ]),
                      logits    |-> Gathered]
             g(i) == Unsharded(LastTokens(n)[i])
  <2>1. RunOutput = [ i \in DOMAIN Sampled(n) |-> f(i) ]
    BY DEF RunOutput, n
  <2>2. \A i \in D : f(i) = g(i)
    BY <1>4
  <2> HIDE DEF f, g
  <2>3. RunOutput = [ i \in D |-> g(i) ]
    BY <1>1, <2>1, <2>2
  <2> QED BY <2>3 DEF g
<1> QED BY <1>5 DEF Expected, D, n

(* A rank that is between two calls has executed the last it read, and no  *)
(* more calls are made than there are inputs for.                          *)
Caught  == \A r \in Rank : at[r] \in {"wait", "read", "load", "left"} => got[r] = executed[r]
Counted == Current > 0 /\ ~ IsExit(Current) => Current < MaxCalls
RunInv  ==
    /\ WeightsInv /\ DeliveryInv /\ Counted /\ RunsAsUnsharded
    /\ overrun = 0 => Caught

LEMMA RunStart == TPInit => RunInv
<1> SUFFICES ASSUME TPInit PROVE RunInv
  OBVIOUS
<1>1. WeightsInv /\ DeliveryInv
  BY DeliveryStart DEF TPInit, WeightsInv
<1>2. Current = 0 /\ calls = << >>
  BY DEF TPInit, Init, Current
<1>3. Caught
  BY DEF TPInit, Init, Caught, Garbage
<1>4. Counted /\ RunsAsUnsharded
  BY <1>2 DEF Counted, RunsAsUnsharded
<1> QED BY <1>1, <1>3, <1>4 DEF RunInv

LEMMA CaughtStays ==
    ASSUME BroadcastInv, Caught, [Next]_vars
    PROVE  Caught'
<1>1. /\ at \in [Rank -> {"wait", "read", "load", "clear", "execute", "left"}]
      /\ got \in [Rank -> Nat] /\ executed \in [Rank -> Nat]
  BY DEF BroadcastInv, Types
<1>2. CASE UNCHANGED loops
  BY <1>2 DEF Caught, loops
<1>3. ASSUME NEW r \in Rank, Loop(r) PROVE Caught'
  <2>1. CASE WaitEvent(r)
    BY <1>1, <2>1 DEF Caught, WaitEvent
  <2>2. CASE ReadLength(r)
    BY <1>1, <2>2 DEF Caught, ReadLength
  <2>3. CASE LoadPayload(r)
    <3>1. PICK n : /\ got' = [got EXCEPT ![r] = n]
                   /\ at'  = [at EXCEPT ![r] = IF n = Garbage THEN "dead" ELSE "clear"]
      BY <2>3 DEF LoadPayload
    <3>2. executed' = executed
      BY <2>3 DEF LoadPayload
    <3> QED BY <1>1, <3>1, <3>2 DEF Caught
  <2>4. CASE ClearEvent(r)
    BY <1>1, <2>4 DEF Caught, ClearEvent
  <2>5. CASE Execute(r)
    BY <1>1, <2>5 DEF Caught, Execute
  <2> QED BY <1>3, <2>1, <2>2, <2>3, <2>4, <2>5 DEF Loop
<1>4. ASSUME Driver \/ \E m \in Method \cup {"exit"} : Call(m) PROVE UNCHANGED loops
  BY <1>4 DEF Driver, Call, WriteLength, WritePayload, SetEvent, ExecuteLocal, Join
<1>5. UNCHANGED vars => UNCHANGED loops
  BY DEF vars
<1> QED BY <1>2, <1>3, <1>4, <1>5 DEF Next

LEMMA CountedStays ==
    ASSUME DeliveryInv, Counted, [Next]_vars
    PROVE  Counted'
<1>1. calls \in Seq(Method \cup {"exit"})
  BY DEF DeliveryInv, Overran
<1>2. CASE UNCHANGED calls
  BY <1>2 DEF Counted, IsExit, Current
<1>3. ASSUME NEW m \in Method \cup {"exit"}, Call(m) PROVE Counted'
  <2>1. calls' = Append(calls, m) /\ (m = "exit" \/ Current + 1 < MaxCalls)
    BY <1>3 DEF Call
  <2>2. Current' = Current + 1 /\ calls'[Current'] = m
    BY <1>1, <2>1 DEF Current
  <2> QED BY <2>1, <2>2 DEF Counted, IsExit
<1>4. ASSUME Driver \/ \E r \in Rank : Loop(r) PROVE UNCHANGED calls
  BY <1>4 DEF Driver, Loop, WriteLength, WritePayload, SetEvent, ExecuteLocal, Join, WaitEvent,
     ReadLength, LoadPayload, ClearEvent, Execute, driver
<1>5. UNCHANGED vars => UNCHANGED calls
  BY DEF vars, driver
<1> QED BY <1>2, <1>3, <1>4, <1>5 DEF Next

(* When rank 0 is through with a run, every rank has it.                   *)
LEMMA AllHave ==
    ASSUME BroadcastInv, Caught, ExecuteLocal, IsRun(Current)
    PROVE  \A r \in Rank : got[r] = Current
<1>1. pc = "local" /\ AllIn(Current)
  BY DEF ExecuteLocal, NeedsAll, IsRun
<1>2. Current \in Nat
  BY DEF BroadcastInv, Types, Current
<1> TAKE r \in Rank
<1>3. executed[r] \in Nat /\ got[r] \in Nat
  BY DEF BroadcastInv, Types
<1>4. executed[r] >= Current \/ (at[r] = "execute" /\ got[r] = Current)
  BY <1>1 DEF AllIn
<1>5. Took(r, Current) \/ Reading(r, Current)
  BY <1>1 DEF BroadcastInv, InStep
<1> QED BY <1>2, <1>3, <1>4, <1>5 DEF Took, Reading, Caught

LEMMA ExpectedStays ==
    ASSUME UNCHANGED <<source, calls>>
    PROVE  Expected(Current)' = Expected(Current)
<1>1. \A name : Value(name)' = Value(name)
  BY DEF Value, Named
<1>2. \A name : Whole(name)' = Whole(name)
  BY <1>1 DEF Whole
<1>3. ASSUME NEW token PROVE Unsharded(token)' = Unsharded(token)
  <2>1. source' = source
    OBVIOUS
  <2> QED BY <2>1 DEF Unsharded, AllHeads, AllNeurons, Whole, Value, Named, HeadOf, Once, Narrow
<1>4. Current' = Current /\ \A n : LastTokens(n)' = LastTokens(n)
  BY DEF Current, LastTokens
<1> QED BY <1>3, <1>4 DEF Expected

LEMMA RunStep ==
    ASSUME RunInv, [TPNext]_tpVars
    PROVE  RunInv'
<1>1. [Next]_vars /\ UNCHANGED <<source, weights>>
  BY DEF TPNext, tpVars
<1>2. WeightsInv' /\ DeliveryInv' /\ Counted'
  <2>1. WeightsInv'
    BY <1>1 DEF RunInv, WeightsInv
  <2> QED BY <1>1, <2>1, OverrunStep, CountedStays DEF RunInv
<1>3. overrun' = 0 => overrun = 0
  BY <1>1, OverrunStays DEF RunInv
<1>4. overrun' = 0 => Caught'
  BY <1>1, <1>3, CaughtStays DEF RunInv, DeliveryInv
<1> SUFFICES ASSUME overrun' = 0 PROVE RunsAsUnsharded'
  BY <1>2, <1>4 DEF RunInv, RunsAsUnsharded
<1>5. overrun = 0 /\ BroadcastInv /\ Caught
  BY <1>3 DEF RunInv, DeliveryInv
<1>6. /\ RunsAsUnsharded <=>
            (pc = "idle" /\ calls # << >> /\ IsRun(Current) => output = Expected(Current))
      /\ RunsAsUnsharded' <=>
            (pc' = "idle" /\ calls' # << >> /\ IsRun(Current)' => output' = Expected(Current)')
  BY <1>5 DEF RunsAsUnsharded, Expected
<1>7. CASE UNCHANGED <<calls, pc, output>>
  <2>1. IsRun(Current)' <=> IsRun(Current)
    BY <1>7 DEF IsRun, Current
  <2> QED BY <1>1, <1>6, <1>7, <2>1, ExpectedStays DEF RunInv
<1>8. CASE TPNext
  <2>1. /\ Next /\ Started
        /\ output' = IF ExecuteLocal /\ IsRun(Current) THEN RunOutput ELSE output
    BY <1>8 DEF TPNext
  <2>2. CASE ExecuteLocal
    <3>1. pc = "local" /\ calls' = calls /\ pc' = IF IsExit(Current) THEN "join" ELSE "idle"
      BY <2>2 DEF ExecuteLocal
    <3>2. IsRun(Current)' <=> IsRun(Current)
      BY <3>1 DEF IsRun, Current
    <3>3. CASE IsExit(Current) \/ ~ IsRun(Current)
      BY <1>6, <3>1, <3>2, <3>3
    <3>4. CASE ~ IsExit(Current) /\ IsRun(Current)
      <4>1. \A r \in Rank : got[r] = Current
        BY <1>5, <2>2, <3>4, AllHave
      <4>2. Current \in DOMAIN Inputs
        <5>1. Current \in Nat /\ Current > 0 /\ Current < MaxCalls
          BY <1>5, <3>1, <3>4 DEF RunInv, BroadcastInv, Types, Written, Counted, Current
        <5>2. Len(Inputs) >= MaxCalls - 1 /\ Inputs \in Seq([isPrefill : BOOLEAN,
                                                            sequences : Seq(Seq(0..Vocab - 1) \ {<< >>})])
          BY InputsAssumption
        <5>3. MaxCalls \in Nat /\ Len(Inputs) \in Nat /\ DOMAIN Inputs = 1..Len(Inputs)
          BY <5>2, RankAssumption
        <5> QED BY <5>1, <5>2, <5>3
      <4>3. output' = Expected(Current)
        BY <2>1, <2>2, <3>4, <4>1, <4>2, RunWhole DEF RunInv
      <4> QED BY <1>1, <1>6, <3>1, <4>3, ExpectedStays
    <3> QED BY <3>3, <3>4
  <2>3. CASE ~ ExecuteLocal
    <3>1. output' = output
      BY <2>1, <2>3
    <3>2. CASE \E r \in Rank : Loop(r)
      <4>1. UNCHANGED <<calls, pc>>
        BY <3>2 DEF Loop, WaitEvent, ReadLength, LoadPayload, ClearEvent, Execute, driver
      <4> QED BY <1>7, <3>1, <4>1
    <3>3. CASE Driver \/ \E m \in Method \cup {"exit"} : Call(m)
      <4>1. pc' # "idle"
        BY <2>3, <3>3 DEF Driver, Call, WriteLength, WritePayload, SetEvent, Join
      <4> QED BY <1>6, <4>1
    <3> QED BY <2>1, <3>2, <3>3 DEF Next
  <2> QED BY <2>2, <2>3
<1>9. UNCHANGED tpVars => UNCHANGED <<calls, pc, output>>
  BY DEF tpVars, vars, driver
<1> QED BY <1>7, <1>8, <1>9

(* What ModelRunner.run samples from on rank 0 is what one process with    *)
(* the whole weights computes for the last token of each sequence of this  *)
(* very call, in every run until a call is lost (ExecuteLocal of rank 0,   *)
(* after every rank has joined).                                           *)
THEOREM RunsAlwaysAsUnsharded == TPSpec => []RunsAsUnsharded
<1>1. RunInv /\ [TPNext]_tpVars => RunInv'
  BY RunStep
<1>2. RunInv => RunsAsUnsharded
  BY DEF RunInv
<1> QED BY RunStart, <1>1, <1>2, PTL DEF TPSpec
=============================================================================
