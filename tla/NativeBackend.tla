--------------------------- MODULE NativeBackend ---------------------------
(***************************************************************************)
(* Who may use the engine (serving/engine_client.py).  One execution lock  *)
(* is shared by every call of EngineClient.generate, which holds it until  *)
(* its own prompts are done, and by the multimodal worker, which holds it  *)
(* for a whole dynamic session (MultimodalCore.tla) and keeps a text       *)
(* decoder for every sequence it has admitted.                             *)
(***************************************************************************)
EXTENDS LLMEngine

CONSTANT Faults    (* what may go wrong: "run" the model execution raises,  *)
                   (* "decode" the tokenizer, "admit" reading a prompt's    *)
                   (* images or registering them                            *)

VARIABLES
    lock,          (* the execution lock: Free, Worker or a text call       *)
    decoders,      (* the keys of _dynamic_decoders                         *)
    text,          (* where each text call is                               *)
    error          (* what the last step_dynamic raised, until the worker   *)
                   (* has dealt with it: "run", "decode", or the unknown    *)
                   (* sequence that it names                                *)

backendVars == <<lock, decoders, text, error>>

Free   == "free"
Worker == "worker"

(* No text call is taken for one of the other values of the lock.          *)
ASSUME HolderAssumption == Text \cap {Free, Worker} = {}

BackendInit ==
    /\ lock = Free
    /\ decoders = {}
    /\ text = [ t \in Text |-> "idle" ]
    /\ error = "none"

TextCall(t) ==
    /\ text[t] = "idle"
    /\ text' = [text EXCEPT ![t] = "waiting"]
    /\ UNCHANGED <<engineVars, lock, decoders, error>>

TextAcquire(t) ==
    /\ text[t] = "waiting" /\ lock = Free
    /\ lock' = t
    /\ text' = [text EXCEPT ![t] = "draining"]
    /\ AddSequences({t})
    /\ UNCHANGED <<decoders, error>>

(* An iteration of _drain_sequences: it looks at what the step returns and *)
(* drains no events.                                                       *)
TextStep(t) ==
    /\ text[t] = "draining"
    /\ \E o \in Outcomes :
         /\ Progress(o)
         /\ tokenEvents' = tokenEvents \cup Produced(o)
         /\ IF t \in o.fin
            THEN /\ text' = [text EXCEPT ![t] = "returned"]
                 /\ lock' = Free
            ELSE UNCHANGED <<text, lock>>
    /\ UNCHANGED <<decoders, error>>

(* The step raises: the call leaves its sequence in the engine.            *)
TextRaises(t) ==
    /\ text[t] = "draining" /\ "run" \in Faults
    /\ text' = [text EXCEPT ![t] = "raised"]
    /\ lock' = Free
    /\ UNCHANGED <<engineVars, decoders, error>>

TextNext(t) == TextCall(t) \/ TextAcquire(t) \/ TextStep(t) \/ TextRaises(t)

(* admit_chat_batch: the sequences first, then a decoder for each of them. *)
AdmitChatBatch(R) ==
    /\ AddSequences(R)
    /\ decoders' = decoders \cup R

(* step_dynamic, when it returns: every event that was waiting to be       *)
(* drained, or came from this step, is of a sequence with a decoder.       *)
BugStepDynamic(o) ==
    LET events == tokenEvents \cup Produced(o)
    IN  /\ \A e \in events : e.seq \in decoders
        /\ Progress(o)
        /\ tokenEvents' = events
        /\ decoders' = decoders \ { e.seq : e \in { f \in events : f.finished } }
StepDynamic(o) ==
    LET events == tokenEvents \cup Produced(o)
    IN  /\ \A e \in events : e.seq \in decoders
        /\ Progress(o)
        /\ tokenEvents' = {}
        /\ decoders' = decoders \ { e.seq : e \in { f \in events : f.finished } }

(* step_dynamic, when it raises.  Model execution failed and nothing was   *)
(* changed; or an event e is of an unknown sequence or cannot be decoded:  *)
(* the step is done and all events are lost.  (The decoders of requests    *)
(* that ended before e are gone; the worker now drops all of them.)        *)
StepRaises ==
    \/ /\ "run" \in Faults /\ error' = "run"
       /\ UNCHANGED <<engineVars, decoders>>
    \/ \E o \in Outcomes : \E e \in tokenEvents \cup Produced(o) :
         /\ IF e.seq \in decoders THEN "decode" \in Faults /\ error' = "decode"
                                 ELSE error' = e.seq
         /\ Progress(o)
         /\ tokenEvents' = {}
         /\ UNCHANGED decoders

(* abort_dynamic on each of R.                                             *)
AbortDynamic(R) ==
    /\ AbortSequences(R)
    /\ decoders' = decoders \ R

=============================================================================
