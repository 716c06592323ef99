--------------------------- MODULE MultimodalCore ---------------------------
(***************************************************************************)
(* The serving core of multimodal requests                                 *)
(* (engine/multimodal_engine.py): client threads put requests into a       *)
(* batcher and wait; one worker thread forms batches and runs them.  With  *)
(* the native backend the worker keeps a dynamic session open, admitting   *)
(* new batches between the steps of the engine, as long as there is work;  *)
(* with the HF backend it runs one batch after the other.                  *)
(*                                                                         *)
(* Clients may give up at any time, and set a flag no lock protects.  The  *)
(* worker's loops over requests look at the flag of one request at a time; *)
(* a client giving up before or after its turn is, for every other         *)
(* request, the same as giving up before or after the loop, so each loop   *)
(* is one action.                                                          *)
(***************************************************************************)
EXTENDS NativeBackend, Batcher

CONSTANT Backends     (* which backends may be configured: "native"         *)
                      (* (NativeQwenVLBackend), "hf"                        *)

VARIABLES
    backend,          (* the one that is                                    *)
    waiting,          (* the batcher's queue                                *)
    pending,          (* the keys of _pending                               *)
    canceled,         (* the requests whose canceled flag is set            *)
    answer,           (* none, or what done reported: result or error       *)
    sent,             (* all that was ever put into each request's events   *)
    shutdown,
    pc, batch, active, events,      (* the worker's locals                  *)
    submitted, completed, failed,   (* the counters of stats()              *)
    cause             (* history: why each request failed                   *)

clientVars == <<waiting, pending, canceled, answer, sent, shutdown, backend, cause>>
workerVars == <<pc, batch, active, events>>
counters   == <<submitted, completed, failed>>
vars == <<engineVars, backendVars, clientVars, workerVars, counters>>

Service == INSTANCE RequestService
    WITH streaming <- backend = "native",
         state     <- [ c \in Client |->
                          IF c \in pending THEN "open"
                          ELSE CASE answer[c] = "none"   -> "new"
                                 [] answer[c] = "result" -> "answered"
                                 [] answer[c] = "error"  -> "failed" ],
         stream    <- sent,
         dropped   <- canceled

Init ==
    /\ EngineInit /\ BackendInit
    /\ backend \in Backends
    /\ waiting = << >> /\ pending = {} /\ canceled = {} /\ shutdown = FALSE
    /\ answer = [ c \in Client |-> "none" ] /\ cause = answer
    /\ sent   = [ c \in Client |-> << >> ]
    /\ pc = "unborn" /\ batch = << >> /\ active = {} /\ events = {}
    /\ submitted = 0 /\ completed = 0 /\ failed = 0

(***************************************************************************)
(* The clients.                                                            *)
(***************************************************************************)

(* generate and stream: the first request starts the worker.               *)
Enqueue(c) ==
    /\ c \notin pending /\ answer[c] = "none" /\ ~shutdown
    /\ pc' = IF pc = "unborn" THEN "wait" ELSE pc
    /\ waiting' = Append(waiting, c)
    /\ pending' = pending \cup {c}
    /\ submitted' = submitted + 1
    /\ UNCHANGED <<engineVars, backendVars, canceled, answer, sent, shutdown, backend,
                   cause, batch, active, events, completed, failed>>

(* A timeout, or the close of a stream; a flag set after the answer is     *)
(* read by nobody.                                                         *)
GiveUp(c) ==
    /\ c \in pending \ canceled
    /\ canceled' = canceled \cup {c}
    /\ UNCHANGED <<engineVars, backendVars, waiting, pending, answer, sent, shutdown,
                   backend, cause, workerVars, counters>>

Shutdown ==
    /\ ~shutdown
    /\ shutdown' = TRUE
    /\ UNCHANGED <<engineVars, backendVars, waiting, pending, canceled, answer, sent,
                   backend, cause, workerVars, counters>>

(***************************************************************************)
(* What the worker tells the clients.                                      *)
(***************************************************************************)

(* Requests R end with a result and F, because of why, with an error; each *)
(* client of items is put its item, unless it has given up.                *)
Settle(R, F, why, items) ==
    /\ pending' = pending \ (R \cup F)
    /\ answer'  = [ c \in Client |-> IF c \in R THEN "result"
                                     ELSE IF c \in F THEN "error" ELSE answer[c] ]
    /\ sent'    = [ c \in Client |-> IF c \in DOMAIN items \ canceled
                                     THEN Append(sent[c], items[c]) ELSE sent[c] ]
    /\ completed' = completed + Cardinality(R)
    /\ failed'    = failed + Cardinality(F)
    /\ cause'     = [ c \in Client |-> IF c \in F THEN why ELSE cause[c] ]
    /\ UNCHANGED <<canceled, shutdown, backend, submitted>>

Fail(F, why) == Settle({}, F, why, [ c \in F |-> Service!Error ])
Finish(R)    == Settle(R, {}, "none", << >>)

(***************************************************************************)
(* The worker.                                                             *)
(***************************************************************************)

(* With the condition held and an empty queue after shutdown.              *)
BugExit ==
    /\ pc = "wait" /\ shutdown /\ waiting # << >>
    /\ pc' = "exited"
    /\ UNCHANGED <<engineVars, backendVars, clientVars, batch, active, events, counters>>
Exit ==
    /\ pc = "wait" /\ shutdown /\ waiting = << >>
    /\ pc' = "exited"
    /\ UNCHANGED <<engineVars, backendVars, clientVars, batch, active, events, counters>>

(* The coalescing wait releases the condition; it ends when it times out,  *)
(* so at any moment as far as the clients can tell.                        *)
PopCoalescedBatch ==
    /\ pc = "wait" /\ waiting # << >>
    /\ pc' = IF backend = "native" THEN "enter" ELSE "execute"
    /\ batch' = Batch(waiting) /\ waiting' = Rest(waiting)
    /\ UNCHANGED <<engineVars, backendVars, pending, canceled, answer, sent, shutdown,
                   backend, cause, active, events, counters>>

(* The static loop: the HF backend answers the whole batch, or raises.     *)
Execute ==
    /\ pc = "execute"
    /\ pc' = "wait" /\ batch' = << >>
    /\ Finish(Range(batch)) \/ ("run" \in Faults /\ Fail(Range(batch), "run"))
    /\ UNCHANGED <<engineVars, backendVars, waiting, active, events>>

EnterSession ==
    /\ pc = "enter" /\ lock = Free
    /\ lock' = Worker
    /\ pc' = "admit"
    /\ UNCHANGED <<engineVars, decoders, text, error, clientVars, batch, active, events, counters>>

AdmitBatch ==
    /\ pc = "admit"
    /\ AdmitChatBatch(Range(batch))
    /\ active' = active \cup Range(batch)
    /\ batch' = << >> /\ pc' = "top"
    /\ UNCHANGED <<lock, text, error, clientVars, events, counters>>

(* A request of the batch cannot be admitted: those before it stay in the  *)
(* engine, and all of them fail.                                           *)
AdmitFails ==
    /\ pc = "admit" /\ "admit" \in Faults
    /\ \E k \in 0..(Len(batch) - 1) : AddSequences(Range(SubSeq(batch, 1, k)))
    /\ Fail(Range(batch), "admit")
    /\ batch' = << >> /\ pc' = "top"
    /\ UNCHANGED <<backendVars, waiting, active, events>>

(* _abort_canceled_dynamic: what it takes out of the session.              *)
ToAbort == active \cap canceled

BugAbortCanceled ==
    /\ AbortDynamic(ToAbort)
    /\ Finish(ToAbort)
    /\ UNCHANGED <<active, lock, text, error, events>>
AbortCanceled ==
    /\ AbortDynamic(ToAbort)
    /\ active' = active \ ToAbort
    /\ Finish(ToAbort)
    /\ UNCHANGED <<lock, text, error, events>>

PopImmediateBatch == batch' = Batch(waiting) /\ waiting' = Rest(waiting) /\ pc' = "admit"

(* Top of the session's loop, with no batch to admit.                      *)
Top ==
    /\ pc = "top"
    /\ AbortCanceled
    /\ \/ /\ active \ ToAbort # {}
          /\ pc' = "step" /\ UNCHANGED <<batch, waiting>>
       \/ /\ active \ ToAbort = {} /\ waiting = << >>
          /\ pc' = "leave" /\ UNCHANGED <<batch, waiting>>
       \/ /\ active \ ToAbort = {} /\ waiting # << >>
          /\ PopImmediateBatch

Step ==
    /\ pc = "step"
    /\ \/ \E o \in Outcomes :
            /\ StepDynamic(o)
            /\ events' = tokenEvents \cup Produced(o)
            /\ pc' = "route" /\ UNCHANGED error
       \/ StepRaises /\ pc' = "fail" /\ UNCHANGED events
    /\ UNCHANGED <<lock, text, clientVars, batch, active, counters>>

(* Every event goes to the client of its sequence, and the last one of a   *)
(* sequence ends the request.                                              *)
Routed ==
    [ c \in { e.seq : e \in events } |->
        LET ev == CHOOSE e \in events : e.seq = c
        IN  Service!Item(ev.token, ev.finished) ]
Ended == { e.seq : e \in { f \in events : f.finished } }
BugRoute ==
    /\ pc = "route"
    /\ Settle(Ended \ canceled, {}, "none", Routed)
    /\ active' = active \ Ended
    /\ events' = {} /\ pc' = "bottom"
    /\ UNCHANGED <<engineVars, backendVars, waiting, batch>>
Route ==
    /\ pc = "route"
    /\ Settle(Ended, {}, "none", Routed)
    /\ active' = active \ Ended
    /\ events' = {} /\ pc' = "bottom"
    /\ UNCHANGED <<engineVars, backendVars, waiting, batch>>

(* Bottom of the loop: admit who is waiting, go on, or end the session.    *)
Bottom ==
    /\ pc = "bottom"
    /\ AbortCanceled
    /\ \/ waiting # << >> /\ PopImmediateBatch
       \/ /\ waiting = << >>
          /\ pc' = IF active \ ToAbort # {} THEN "top" ELSE "leave"
          /\ UNCHANGED <<batch, waiting>>

(* _fail_active_dynamic.                                                   *)
BugFailActive ==
    /\ pc = "fail"
    /\ Fail(active, error) /\ error' = "none"
    /\ active' = {} /\ pc' = "leave"
    /\ UNCHANGED <<engineVars, lock, decoders, text, waiting, batch, events>>
FailActive ==
    /\ pc = "fail"
    /\ AbortDynamic(active)
    /\ Fail(active, error) /\ error' = "none"
    /\ active' = {} /\ pc' = "leave"
    /\ UNCHANGED <<lock, text, waiting, batch, events>>

BugLeaveLocked ==
    /\ pc = "leave"
    /\ pc' = IF shutdown /\ waiting = << >> THEN "exited" ELSE "wait"
    /\ UNCHANGED <<engineVars, backendVars, clientVars, batch, active, events, counters>>
Leave ==
    /\ pc = "leave"
    /\ lock' = Free
    /\ pc' = IF shutdown /\ waiting = << >> THEN "exited" ELSE "wait"
    /\ UNCHANGED <<engineVars, decoders, text, error, clientVars, batch, active, events, counters>>

RunLoop ==
    \/ Exit \/ PopCoalescedBatch \/ Execute
    \/ EnterSession \/ AdmitBatch \/ AdmitFails
    \/ Top \/ Step \/ Route \/ Bottom \/ FailActive \/ Leave

TextCaller(t) == TextNext(t) /\ UNCHANGED <<clientVars, workerVars, counters>>

Next ==
    \/ \E c \in Client : Enqueue(c) \/ GiveUp(c)
    \/ Shutdown
    \/ RunLoop
    \/ \E t \in Text : TextCaller(t)

Spec == Init /\ [][Next]_vars

(***************************************************************************)
(* Properties.                                                             *)
(***************************************************************************)

(* No request is lost between the batcher, a popped batch and the session, *)
(* and none is in two of these places: _pending is what they hold.         *)
PendingPlaces ==
    /\ pending = Range(waiting) \cup Range(batch) \cup active
    /\ Cardinality(pending) = Len(waiting) + Len(batch) + Cardinality(active)

(* The counters of /metrics account for every request exactly once,        *)
(* however it ended.                                                       *)
CountsAgree == submitted = completed + failed + Cardinality(pending)

(* "Dynamic continuous batching ... takes requests in during decode,       *)
(* cancels them, and reclaims their resources": when the session is over   *)
(* no decoder is left, and no multimodal sequence or event in the engine   *)
(* but those of requests that were refused at admission themselves.        *)
SessionLeavesNothing ==
    lock # Worker =>
        /\ decoders = {}
        /\ \A c \in inEngine \cap Client : cause[c] = "admit"
        /\ \A e \in tokenEvents : e.seq \in Client => cause[e.seq] = "admit"

(* A request fails because its own batch was refused at admission, or a    *)
(* run or the tokenizer failed in its own session; or else the session has *)
(* met an event of a sequence it does not know, and then that sequence was *)
(* left behind by a batch refused at admission.  Text calls, clients that  *)
(* give up and batches that ended otherwise, failed ones too, make nobody  *)
(* fail.                                                                   *)
FailsOnlyOnFaults ==
    \A c \in Client : answer[c] = "error" =>
        \/ cause[c] \in {"admit", "run", "decode"}
        \/ cause[c] \in Client /\ cause[cause[c]] = "admit"

(* The core is an implementation of the service: answers, streams and      *)
(* giving up are as RequestService.tla says.                               *)
ImplementsService == Service!Spec

(* Every submitted request ends, whatever the others do.                   *)
RequestsEnd == \A c \in Client : c \in pending ~> c \notin pending

(* A text call gets its turn, although a dynamic session keeps the lock    *)
(* as long as it finds requests waiting, and it returns or raises.  (Each  *)
(* client asks once; were there always one more, a session need not end.)  *)
TextCallsEnd == \A t \in Text : text[t] = "waiting" ~> text[t] \in {"returned", "raised"}

(* shutdown() can join the worker.                                         *)
ShutdownCompletes == shutdown ~> pc \in {"unborn", "exited"}
=============================================================================
