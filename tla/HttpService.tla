---------------------------- MODULE HttpService ----------------------------
(***************************************************************************)
(* Chat completions over HTTP (serving/openai_api.py) on top of the        *)
(* multimodal core.  A streamed answer has four parties: the worker that   *)
(* puts events into the request's queue, a thread of the event loop's pool *)
(* that blocks in the queue for the next one, the generator that turns it  *)
(* into chunks, and the client, who may leave at any moment.               *)
(*                                                                         *)
(* The web server cancels the generator where it waits when the client     *)
(* leaves; a thread that is blocked cannot be cancelled.  (External.)      *)
(***************************************************************************)
EXTENDS MultimodalCore

CONSTANTS
    Streams,    (* the clients that ask for a stream                        *)
    Silent,     (* the tokens that add no text yet: CumulativeTextDecoder   *)
                (* returns an empty delta                                   *)
    Pool        (* the threads of asyncio.to_thread                         *)

VARIABLES
    http,       (* where each request is                                    *)
    reader,     (* its thread: idle, or blocked in the queue                *)
    taken,      (* how many of its events it has taken                      *)
    ended,      (* the requests whose stream handle is _finished            *)
    wire        (* the chunks its client was sent                           *)

httpVars == <<http, reader, taken, ended, wire>>
coreVars == vars
webVars  == <<coreVars, httpVars>>

(* Chunks: the role, token n, the finish reason, and the end of the stream. *)
Role   == 0
Stop   == MaxTokens + 1
Done   == MaxTokens + 2

HttpInit ==
    /\ Init
    /\ http   = [ c \in Client |-> "new" ]
    /\ reader = [ c \in Client |-> "idle" ]
    /\ taken  = [ c \in Client |-> 0 ]
    /\ ended  = {}
    /\ wire   = [ c \in Client |-> << >> ]

Goes(c, stage) == http' = [http EXCEPT ![c] = stage]
Reads(c, what) == reader' = [reader EXCEPT ![c] = what]
Sends(c, chunks) == wire' = [wire EXCEPT ![c] = @ \o chunks]

(* create_chat_completion: only the native backend streams, 501 otherwise; *)
(* after shutdown it answers 503.                                          *)
Post(c) ==
    /\ http[c] = "new"
    /\ \/ /\ c \in Streams => backend = "native"
          /\ Enqueue(c)
          /\ Goes(c, IF c \in Streams THEN "head" ELSE "wait")
       \/ /\ shutdown \/ (c \in Streams /\ backend # "native")
          /\ Goes(c, "refused") /\ UNCHANGED coreVars
    /\ UNCHANGED <<reader, taken, ended, wire>>

(* generate: wait for done.                                                *)
Return(c) ==
    /\ http[c] = "wait" /\ answer[c] # "none"
    /\ Goes(c, "returned")
    /\ UNCHANGED <<coreVars, reader, taken, ended, wire>>

(***************************************************************************)
(* stream_events.                                                          *)
(***************************************************************************)

Begin(c) ==
    /\ http[c] = "head"
    /\ Goes(c, "open") /\ Sends(c, <<Role>>)
    /\ UNCHANGED <<coreVars, reader, taken, ended>>

(* next(iterator) in a thread.                                             *)
Ask(c) ==
    /\ http[c] = "open" /\ reader[c] = "idle" /\ c \notin ended
    /\ Cardinality({ d \in Client : reader[d] = "blocked" }) < Pool
    /\ Reads(c, "blocked")
    /\ UNCHANGED <<coreVars, http, taken, ended, wire>>

(* The chunks of an event.                                                 *)
BugChunks(item) ==
    IF item.finished THEN <<Stop>> ELSE IF item.token \in Silent THEN << >> ELSE <<item.token>>
Chunks(item) ==
    (IF item.token \in Silent THEN << >> ELSE <<item.token>>)
    \o (IF item.finished THEN <<Stop>> ELSE << >>)

(* The generator's finally: handle.close().                                *)
Close(c) == IF c \in pending \ canceled THEN GiveUp(c) ELSE UNCHANGED coreVars

(* MultimodalStreamHandle.__next__, once there is an item.  The generator  *)
(* goes on with it: an error ends it, an event makes chunks.  After it was *)
(* cancelled the item is dropped.  (A client that leaves between the two   *)
(* is one that leaves before.)                                             *)
Item(c) == sent[c][taken[c] + 1]
BugEnds(item) == item = Service!Error
Ends(item)    == item.finished

Receive(c) ==
    /\ reader[c] = "blocked" /\ taken[c] < Len(sent[c])
    /\ taken' = [taken EXCEPT ![c] = @ + 1]
    /\ Reads(c, "idle")
    /\ ended' = IF Ends(Item(c)) THEN ended \cup {c} ELSE ended
    /\ \/ http[c] = "gone" /\ UNCHANGED <<http, wire, coreVars>>
       \/ http[c] = "open" /\ Item(c) = Service!Error
            /\ Goes(c, "broken") /\ Close(c) /\ UNCHANGED wire
       \/ http[c] = "open" /\ Item(c) # Service!Error
            /\ Sends(c, Chunks(Item(c))) /\ UNCHANGED <<http, coreVars>>

(* The handle is finished and stops the iteration: with a terminal event   *)
(* there is an end, without one an exception.                              *)
End(c) ==
    /\ http[c] = "open" /\ reader[c] = "idle" /\ c \in ended
    /\ IF Stop \in Range(wire[c]) THEN Sends(c, <<Done>>) /\ Goes(c, "done")
       ELSE Goes(c, "broken") /\ UNCHANGED wire
    /\ Close(c)
    /\ UNCHANGED <<reader, taken, ended>>

(* A client that leaves before the generator has started leaves no         *)
(* finally to run.                                                         *)
Leaves(c) ==
    /\ http[c] \in {"head", "open"}
    /\ Goes(c, "gone")
    /\ ended' = IF http[c] = "open" THEN ended \cup {c} ELSE ended
    /\ IF http[c] = "open" THEN Close(c) ELSE UNCHANGED coreVars
    /\ UNCHANGED <<reader, taken, wire>>

-----------------------------------------------------------------------------
EventLoop(c) == Begin(c) \/ Ask(c) \/ End(c)

HttpNext ==
    \/ \E c \in Client :
        \/ Post(c)
        \/ Return(c)
        \/ EventLoop(c)
        \/ Receive(c)
        \/ Leaves(c)
    \/ (Shutdown \/ RunLoop \/ \E t \in Text : TextCaller(t)) /\ UNCHANGED httpVars

HttpSpec == HttpInit /\ [][HttpNext]_webVars

(* The worker thread runs whenever it can, and so do a text call that has  *)
(* been made, the event loop and its threads; clients need not come, nor   *)
(* leave, and nobody has to shut down.                                     *)
HttpFairSpec ==
    /\ HttpSpec
    /\ WF_webVars(RunLoop /\ UNCHANGED httpVars)
    /\ \A t \in Text : WF_webVars((TextAcquire(t) \/ TextStep(t))
                                    /\ UNCHANGED <<clientVars, workerVars, counters, httpVars>>)
    /\ \A c \in Client : WF_webVars(EventLoop(c)) /\ WF_webVars(Receive(c)) /\ WF_webVars(Return(c))

-----------------------------------------------------------------------------
(* What a client reads is the engine's completion: the text of its tokens, *)
(* in order, none missing or repeated, and an end only behind all of them. *)
(* [DONE] therefore means that the answer is whole, whatever became of     *)
(* other clients, and however far the queue was ahead of the reader.       *)
Spoken(n) == Keep([ i \in 1..n |-> i ], Nat \ Silent)
WireTellsCompletion ==
    \A c \in Client : wire[c] # << >> =>
        \/ \E n \in 0..made[c] : wire[c] = <<Role>> \o Spoken(n)
        \/ /\ \/ wire[c] = <<Role>> \o Spoken(made[c]) \o <<Stop>>
              \/ wire[c] = <<Role>> \o Spoken(made[c]) \o <<Stop, Done>>
           /\ answer[c] = "result" /\ c \notin inEngine

(* Every request that was posted gets its answer or the end of its stream, *)
(* unless its client leaves, with threads enough for all of them.          *)
ResponsesEnd ==
    \A c \in Client :
        http[c] \in {"wait", "head", "open"} ~>
            http[c] \in {"returned", "done", "broken", "gone"}

(* When the worker lets go of the engine, the sequences it leaves there    *)
(* are those of requests that were refused together at admission, after    *)
(* some of them had been added; no decoder is kept for them.               *)
LeftBehind ==
    lock # Worker =>
        \A c \in inEngine \cap Client :
            answer[c] = "error" /\ cause[c] = "admit" /\ c \notin decoders
=============================================================================
