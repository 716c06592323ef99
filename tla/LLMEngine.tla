----------------------------- MODULE LLMEngine -----------------------------
(***************************************************************************)
(* The engine as its callers see it (engine/engine_core.py and             *)
(* engine/llm_engine.py): sequences are added, every step gives some of    *)
(* them a token, and each token leaves an event behind until somebody      *)
(* drains the events.  Which sequences a step serves is the scheduler's    *)
(* choice (Scheduler.tla); a step that only prefills part of a prompt      *)
(* gives nobody a token and is invisible here.                             *)
(*                                                                         *)
(* A request is its own sequence, and a token is its number in the         *)
(* completion.  _token_events is a list; it keeps the tokens of a sequence *)
(* in order, and it is only ever searched by sequence, so a set of         *)
(* numbered events says the same.                                          *)
(***************************************************************************)
EXTENDS Integers, FiniteSets

CONSTANTS
    Client,       (* the multimodal requests that are ever submitted        *)
    Text,         (* the calls of generate() for a text prompt              *)
    MaxTokens     (* max_tokens: a request ends there, or earlier on EOS    *)

ASSUME EngineAssumption == MaxTokens \in Nat \ {0} /\ Client \cap Text = {}

Request == Client \cup Text

VARIABLES
    inEngine,     (* the sequences waiting or running in the scheduler      *)
    made,         (* num_completion_tokens of each sequence                 *)
    tokenEvents   (* EngineCore._token_events                               *)

engineVars == <<inEngine, made, tokenEvents>>

EngineInit ==
    /\ inEngine = {}
    /\ made = [ r \in Request |-> 0 ]
    /\ tokenEvents = {}

(* What a step may do: the sequences it serves, and those that end in it.  *)
Outcomes ==
    { o \in [out : SUBSET inEngine \ {{}}, fin : SUBSET inEngine] :
        /\ o.fin \subseteq o.out
        /\ \A r \in o.out : made[r] + 1 = MaxTokens => r \in o.fin }

Produced(o) ==
    { [seq |-> r, token |-> made[r] + 1, finished |-> r \in o.fin] : r \in o.out }

(* EngineCore.step, but for the events, which it adds to tokenEvents.      *)
Progress(o) ==
    /\ made' = [ r \in Request |-> IF r \in o.out THEN made[r] + 1 ELSE made[r] ]
    /\ inEngine' = inEngine \ o.fin

AddSequences(R) ==
    /\ inEngine' = inEngine \cup R
    /\ UNCHANGED <<made, tokenEvents>>

(* abort_sequence on each of R: one the scheduler no longer has is left as *)
(* it is, events included.                                                 *)
BugAborted(R) == {}
Aborted(R)    == R \cap inEngine
AbortSequences(R) ==
    /\ inEngine' = inEngine \ Aborted(R)
    /\ tokenEvents' = { e \in tokenEvents : e.seq \notin Aborted(R) }
    /\ UNCHANGED made

=============================================================================
