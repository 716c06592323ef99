----------------------------- MODULE Scheduler -----------------------------
(***************************************************************************)
(* The scheduler (nanovllm/engine/scheduler.py) and the loop of            *)
(* EngineCore.step around it: schedule(), the model run, postprocess().    *)
(*                                                                         *)
(* One step of the engine is a sequence of TLA+ steps, one per iteration   *)
(* of the loops of schedule() and postprocess(); phase says where the      *)
(* engine is.  Requests are added and aborted only between two steps: the  *)
(* engine is driven by one thread, under the execution lock of the serving *)
(* backend.                                                                *)
(***************************************************************************)
EXTENDS BlockManager

CONSTANTS
    Prompts,          (* the prompts a client may submit                    *)
    MaxTokens,        (* SamplingParams.max_tokens                          *)
    Eos,              (* Config.eos                                         *)
    Sampled,          (* the token ids the sampler may return               *)
    MaxNumSeqs,       (* Config.max_num_seqs                                *)
    MaxBatchedTokens, (* Config.max_num_batched_tokens                      *)
    RunsRaise,        (* whether model runs may raise                       *)
    NoSeq             (* no sequence is being given a decode slot           *)

ASSUME SchedulerAssumption ==
    /\ Prompts \subseteq Seq(Token) \ {<< >>}
    /\ MaxTokens \in Nat
    /\ Sampled \subseteq TokenId
    /\ MaxNumSeqs \in Nat \ {0}
    /\ MaxBatchedTokens \in Nat \ {0}
    /\ RunsRaise \in BOOLEAN
    /\ NoSeq \notin SeqId

VARIABLES
    waiting,    (* Scheduler.waiting                                        *)
    running,    (* Scheduler.running                                        *)
    status,     (* Sequence.status, with the finish reason                  *)
    nprompt,    (* Sequence.num_prompt_tokens                               *)
    nsched,     (* Sequence.num_scheduled_tokens                            *)
    phase,      (* where in EngineCore.step the engine is                   *)
    batch,      (* scheduled_seqs; in postprocess, what is left of it       *)
    nbatched,   (* num_batched_tokens                                       *)
    cur         (* the sequence decode scheduling is finding a slot for     *)

queueVars == <<waiting, running, status, nprompt, nsched>>
stepVars  == <<phase, batch, nbatched, cur>>
schedVars == <<bmVars, queueVars, stepVars>>

Finished == {"stop", "length", "abort"}
Live(s)  == status[s] \in {"waiting", "running"}

Phases == {"idle", "prefill", "decode", "append", "runPrefill", "runDecode",
           "postPrefill", "postDecode", "asserted"}

InitScheduler ==
    /\ InitPool
    /\ tokens  = [ s \in SeqId |-> << >> ]
    /\ table   = [ s \in SeqId |-> << >> ]
    /\ ncached = [ s \in SeqId |-> 0 ]
    /\ waiting = << >>
    /\ running = << >>
    /\ status  = [ s \in SeqId |-> "new" ]
    /\ nprompt = [ s \in SeqId |-> 0 ]
    /\ nsched  = [ s \in SeqId |-> 0 ]
    /\ phase = "idle"
    /\ batch = << >>
    /\ nbatched = 0
    /\ cur = NoSeq

-----------------------------------------------------------------------------
(* Between two steps.                                                      *)

(* EngineCore.add_sequence -> Scheduler.add.                               *)
Add(s, p) ==
    /\ phase = "idle"
    /\ status[s] = "new"
    /\ tokens'  = [tokens EXCEPT ![s] = p]
    /\ nprompt' = [nprompt EXCEPT ![s] = Len(p)]
    /\ status'  = [status EXCEPT ![s] = "waiting"]
    /\ waiting' = Append(waiting, s)
    /\ UNCHANGED <<table, ncached, poolVars, running, nsched, stepVars>>

Cancel(s) ==
    /\ Live(s)
    /\ waiting' = IF s \in Range(waiting) THEN Without(waiting, s) ELSE waiting
    /\ running' = IF s \in Range(waiting) THEN running ELSE Without(running, s)
    /\ IF table[s] # << >>
       THEN Deallocate(s)
       ELSE UNCHANGED <<table, ncached, free, used, ref>>
    /\ status' = [status EXCEPT ![s] = "abort"]
    /\ UNCHANGED <<tokens, bhash, hmap, nprompt, nsched>>

(* EngineCore.abort_sequence -> Scheduler.abort.                           *)
Abort(s) ==
    /\ phase = "idle"
    /\ Cancel(s)
    /\ UNCHANGED stepVars

(* EngineCore.step: every caller loops while the scheduler has work.       *)
StartStep ==
    /\ phase = "idle"
    /\ waiting # << >> \/ running # << >>
    /\ phase' = "prefill"
    /\ batch' = << >>
    /\ nbatched' = 0
    /\ UNCHANGED <<bmVars, queueVars, cur>>

-----------------------------------------------------------------------------
(* schedule(): the prefill loop looks only at the head of waiting.         *)

Remaining == MaxBatchedTokens - nbatched
Fresh(s)  == table[s] = << >>

(* Tokens of s that still have to be computed before it can decode.        *)
ToPrefill(s) ==
    IF Fresh(s)
    THEN NumTokens(s) - NumCachedBlocks(s) * BlockSize
    ELSE NumTokens(s) - ncached[s]

(* A first admission needs blocks; a prompt in chunks already has them.    *)
HasRoom(s)    == Fresh(s) => CanAllocate(s)

(* Only the first request of a batch may be split into chunks.             *)
BugFitsWhole(s)  == ToPrefill(s) <= Remaining
FitsBatch(s)     == ToPrefill(s) <= Remaining \/ batch = << >>

(* How many tokens are scheduled, and whether they complete the prompt.    *)
BugChunk(s) == ToPrefill(s)
Chunk(s)    == IF ToPrefill(s) < Remaining THEN ToPrefill(s) ELSE Remaining
CompletesPrompt(s)    == Chunk(s) = ToPrefill(s)

CanPrefillHead ==
    /\ waiting # << >>
    /\ Len(batch) < MaxNumSeqs
    /\ Remaining > 0
    /\ HasRoom(Head(waiting))
    /\ FitsBatch(Head(waiting))

PrefillHead ==
    LET s == Head(waiting)
    IN  /\ phase = "prefill"
        /\ CanPrefillHead
        /\ IF Fresh(s)
           THEN Allocate(s, NumCachedBlocks(s))
           ELSE UNCHANGED <<table, ncached, poolVars>>
        /\ nsched'   = [nsched EXCEPT ![s] = Chunk(s)]
        /\ nbatched' = nbatched + Chunk(s)
        /\ batch'    = Append(batch, s)
        /\ IF CompletesPrompt(s)
           THEN /\ status'  = [status EXCEPT ![s] = "running"]
                /\ waiting' = Tail(waiting)
                /\ running' = Append(running, s)
           ELSE UNCHANGED <<status, waiting, running>>
        /\ UNCHANGED <<tokens, nprompt, phase, cur>>

(* A batch of prefills is returned by itself; decode is tried only when    *)
(* nothing could be prefilled.                                             *)
EndPrefill ==
    /\ phase = "prefill"
    /\ ~ CanPrefillHead
    /\ phase' = IF batch # << >> THEN "runPrefill" ELSE "decode"
    /\ UNCHANGED <<bmVars, queueVars, batch, nbatched, cur>>

-----------------------------------------------------------------------------
(* schedule(): the decode loop.                                            *)

CanDecodeMore == running # << >> /\ Len(batch) < MaxNumSeqs

DecodeHead ==
    /\ phase = "decode"
    /\ CanDecodeMore
    /\ cur' = Head(running)
    /\ running' = Tail(running)
    /\ phase' = "append"
    /\ UNCHANGED <<bmVars, waiting, status, nprompt, nsched, batch, nbatched>>

(* preempt(seq): give up its blocks and go back to the head of waiting.    *)
Preempt(s) ==
    /\ status'  = [status EXCEPT ![s] = "waiting"]
    /\ Deallocate(s)
    /\ waiting' = <<s>> \o waiting
    /\ UNCHANGED <<tokens, bhash, hmap, nprompt, nsched>>

PreemptTail ==
    /\ phase = "append"
    /\ ~ CanAppend(cur)
    /\ running # << >>
    /\ Preempt(Last(running))
    /\ running' = Front(running)
    /\ UNCHANGED stepVars

PreemptSelf ==
    /\ phase = "append"
    /\ ~ CanAppend(cur)
    /\ running = << >>
    /\ Preempt(cur)
    /\ phase' = "decode"
    /\ cur' = NoSeq
    /\ UNCHANGED <<running, batch, nbatched>>

(* A sequence with a slot stays out of running, where victims are looked   *)
(* for, until the loop ends.                                               *)
BugRunningAfterSlot == Append(running, cur)
RunningAfterSlot    == running
ScheduleDecode ==
    /\ phase = "append"
    /\ CanAppend(cur)
    /\ MayAppend(cur)
    /\ nsched' = [nsched EXCEPT ![cur] = 1]
    /\ batch'  = Append(batch, cur)
    /\ phase'  = "decode"
    /\ cur'    = NoSeq
    /\ running' = RunningAfterSlot
    /\ UNCHANGED <<tokens, ncached, waiting, status, nprompt, nbatched>>

(* assert scheduled_seqs, then the batch goes back to the head of running. *)
BugBackToRunning == running
BackToRunning    == batch \o running
EndDecode ==
    /\ phase = "decode"
    /\ ~ CanDecodeMore
    /\ phase'   = IF batch = << >> THEN "asserted" ELSE "runDecode"
    /\ running' = BackToRunning
    /\ UNCHANGED <<bmVars, waiting, status, nprompt, nsched, batch, nbatched, cur>>

-----------------------------------------------------------------------------
(* executor.run: the model computes the batch, or raises.                  *)

Run ==
    /\ phase \in {"runPrefill", "runDecode"}
    /\ phase' = IF phase = "runPrefill" THEN "postPrefill" ELSE "postDecode"
    /\ UNCHANGED <<bmVars, queueVars, batch, nbatched, cur>>

(* The exception leaves step() before postprocess, and nothing is undone.  *)
(* What happens to the requests is the caller's choice: a dynamic session  *)
(* aborts its own, generate() none, and either way others may be left that *)
(* the next step() goes on with.                                           *)
RunRaises ==
    /\ phase \in {"runPrefill", "runDecode"}
    /\ RunsRaise
    /\ phase' = "idle"
    /\ batch' = << >>
    /\ nbatched' = 0
    /\ UNCHANGED <<bmVars, queueVars, cur>>

-----------------------------------------------------------------------------
(* postprocess: one iteration per sequence of the batch.                   *)

(* What postprocess leaves of the batch, and what follows the last one.    *)
NextPost ==
    /\ batch' = Tail(batch)
    /\ phase' = IF Tail(batch) = << >> THEN "idle" ELSE phase
    /\ nbatched' = IF Tail(batch) = << >> THEN 0 ELSE nbatched
    /\ UNCHANGED cur

PromptIncomplete(s) ==
    phase = "postPrefill" /\ ncached[s] + nsched[s] < NumTokens(s)

(* A chunk of a prompt: the sampled token is dropped.                      *)
PostChunk ==
    LET s == Head(batch)
    IN  /\ phase \in {"postPrefill", "postDecode"}
        /\ PromptIncomplete(s)
        /\ HashBlocks(s, nsched[s])
        /\ ncached' = [ncached EXCEPT ![s] = @ + nsched[s]]
        /\ nsched'  = [nsched EXCEPT ![s] = 0]
        /\ NextPost
        /\ UNCHANGED <<tokens, table, free, used, ref,
                       waiting, running, status, nprompt>>

Reason(s, t) ==
    CASE t = Eos -> "stop"
      [] t # Eos /\ NumTokens(s) + 1 - nprompt[s] = MaxTokens -> "length"
      [] OTHER -> "none"

(* append_token, then finish on EOS or on max_tokens.                      *)
PostToken(t) ==
    LET s == Head(batch)
    IN  /\ phase \in {"postPrefill", "postDecode"}
        /\ ~ PromptIncomplete(s)
        /\ HashBlocks(s, nsched[s])
        /\ tokens' = [tokens EXCEPT ![s] = Append(@, [id |-> t, mm |-> NoVisual])]
        /\ nsched' = [nsched EXCEPT ![s] = 0]
        /\ IF Reason(s, t) = "none"
           THEN /\ ncached' = [ncached EXCEPT ![s] = @ + nsched[s]]
                /\ UNCHANGED <<table, free, used, ref, status, running>>
           ELSE /\ status' = [status EXCEPT ![s] = Reason(s, t)]
                /\ Deallocate(s)
                /\ running' = Without(running, s)
        /\ NextPost
        /\ UNCHANGED <<waiting, nprompt>>

-----------------------------------------------------------------------------
=============================================================================
