# nano-vllm-Multimodal in TLA+

This directory holds TLA+ modules that model the inference engine and the
serving core of the repository, TLC configurations that check them on small
instances, and proofs checked by TLAPS for every value of the constants.
`PROJECT.json` maps each definition to the source lines it stands for.

## 1. The system

nano-vllm-Multimodal is an LLM inference engine with a paged KV cache, a
prefix cache shared by requests, chunked prefill, preemption, tensor
parallelism over shared memory, and a serving layer that batches multimodal
requests continuously.

| Part | State it keeps | Operations | Hard behaviour | What makes it correct |
|---|---|---|---|---|
| KV block manager, `engine/block_manager.py` | blocks with reference count and hash, free list, used set, hash index | `can_allocate`, `allocate`, `deallocate`, `can_append`, `may_append`, `hash_blocks` | a block in the free list still serves prefix hits; a block handed out again must disappear from the index; several requests share one block | counts equal owners; free and used split the blocks; the index never points at other content |
| Scheduler, `engine/scheduler.py` | `waiting`, `running` | `add`, `abort`, `schedule` (prefill loop, decode loop, `preempt`), `postprocess` | chunked prompts stay at the head of `waiting`; a request may be preempted while another one is given its slot | no request lost or scheduled twice; batches within budget; every request finishes |
| Engine core, `engine/engine_core.py` | scheduler, executor, token events | `add_sequence`, `step`, `abort_sequence`, `drain_token_events` | the model run may raise between `schedule` and `postprocess` | a request is never stepped on as if a step that raised had succeeded |
| Sequence, `engine/sequence.py` | tokens, block table, counters, status | `append_token`, `block_cache_key`, pickling for workers | the key of a block mixes token ids and image identities | two prefixes share a block only if they are the same |
| Model runner, `engine/model_runner.py` | KV cache tensor, CUDA graphs, shared memory | `prepare_prefill`, `prepare_decode`, `run`, `loop`, `call` | slots of a batch must be disjoint; worker ranks read commands from shared memory | attention reads only K/V computed from this request's prefix |
| LLM engine, `engine/llm_engine.py` | - | `generate`, `generate_multimodal(_stream)`, `admit_multimodal_requests` | events of one caller's requests reach another caller | each caller gets its own tokens |
| Native backend and engine client, `serving/engine_client.py` | execution lock, decoders per sequence | text generation, dynamic session | text and multimodal callers alternate on one engine | as above |
| Multimodal engine core, `engine/multimodal_engine.py` | batcher, pending requests, worker thread | `generate`, `stream`, worker loops, `shutdown` | timeouts and cancellation race with completion; a failed step fails a session | every submitted request is answered once |
| Vision features, `multimodal/feature_store.py`, `vision_provider.py` | byte-budgeted LRU with pins, input reference counts | `register_inputs`, `release_inputs`, `resolve_pinned`, `put_many` | eviction while pinned, partial failure | pinned features stay; counts match the live requests |
| Prompt metadata and batch tensors, `multimodal/runtime.py`, `qwen25_vl_runtime.py`, `qwen3_vl_runtime.py`, `model_runner.py` | spans, positions and delta of a prompt | `build_*_prompt_metadata`, `plan_visual_replacements`, `build_prefill_position_rows`, slot mapping | chunks cut through images; rows of several requests are packed; decoded tokens are prefilled again | every row gets its token's embedding, position and slot |
| Request batching, `multimodal/batching.py`, `scheduler_policy.py` | queue | `add`, `pop_batch` | which requests may share a batch | batch within limits, order kept |
| Images, `multimodal/openai_adapter.py`, `manager.py`, `cache.py`, `*_processor.py` | LRU cache of decoded images | `prepare_batch`, `materialize` | files replaced between stat and read, patches of several images in one tensor | images current; equal feature keys, equal patches |
| Attention and paged KV kernels, `layers/attention.py`, `layers/paged_kv/`, `csrc/` | slot buffer, transfer stream, pending copies | store and gather by slot, `copy_slots_async` | three backends, two attention paths, two streams over one buffer | every row attends to its own prefix; kernels read their own run's slots |
| Language models on ranks, `models/qwen3*.py`, `layers/linear.py`, `embed_head.py`, `utils/loader.py` | parameters of each rank | `load_model`, `forward` | packed, aliased and missing weights; sums over ranks | the ranks together are the unsharded model |
| Vision tower, `models/qwen3_vl_vision.py` | - | `forward` on a pack of images | four orders of the same patches | the features of an image do not depend on the pack |
| HTTP API, `serving/openai_api.py` | - | chat completions, streamed or not | clients that leave, threads that block | the chunks tell whether the answer is whole |
| Benchmarks, verification scripts | - | measuring | | |

They interact as follows. An HTTP handler calls the engine client, which takes
the execution lock for a text batch, or queues a multimodal request for the
worker thread of the multimodal engine core. The worker takes the same lock
for a whole session, admits batches into the LLM engine through the native
backend, and steps the engine until no request of the session is left. Each
step is `schedule()`, then `executor.run` (broadcast to the worker ranks
through shared memory), then `postprocess()`, which feeds the block manager.
The model runner looks image features up in the vision provider during a
prefill.

## 2. The modules

| Module | Models |
|---|---|
| `Deques` | removal by value and filtering of queues, in closed form, for the scheduler, the batcher and the feature store |
| `BlockManager` | `engine/block_manager.py`, with the fields of `Sequence` it uses |
| `BlockPool` | the abstract pool: blocks with owners and contents |
| `Scheduler` | `engine/scheduler.py` and the loop of `EngineCore.step` |
| `EngineCore` | the above, plus what `model_runner.py` reads and writes in the KV cache |
| `MCEngineCore` | prompts for TLC |
| `PromptMetadata` | `multimodal/qwen25_vl_runtime.py`, `qwen3_vl_runtime.py`, `runtime.py`: spans and M-RoPE positions of a prompt |
| `BatchInputs`, `MCBatchInputs` | the tensors of a batch (`prepare_prefill`, `prepare_decode`), computed from `EngineCore`'s state and `PromptMetadata` |
| `PagedKV` | `layers/paged_kv/` and the CUDA kernels: validation, store and gather of three backends |
| `PagedAttention` | `layers/attention.py`: what a batch stores and the keys its rows attend to |
| `DecodeGraph` | capture and replay of CUDA graphs in `model_runner.py` |
| `SlotTransfer` | `csrc/paged_kv/paged_kv.cpp`: streams, events and buffers of the slot mapping |
| `DequeTheorems` | lemmas on queues, finite sets, sums over sets and functions defined by a loop |
| `EngineCoreProofs` | proofs about the engine and its prefix cache |
| `BatchProofs` | proofs about the batches the engine runs: attention, positions, image features, graph replay |
| `PagedKVProofs` | proofs about `PagedKV` and `SlotTransfer` |
| `ServingProofs` | proofs about `MultimodalCore` and `HttpService` |
| `VisionProofs` | proofs about `VisionFeatures` and the packs of `VisionTower` |
| `AdmissionProofs` | proofs about `Admission`, with the batcher and the image cache |
| `TensorParallelProofs` | proofs about `RankBroadcast`, `WeightLoading` and `TensorParallel` |
| `FeatureStore` | `multimodal/feature_store.py`: the byte-budgeted LRU with pins |
| `VisionFeatures`, `MCVisionFeatures` | `multimodal/vision_provider.py` over the store, with the requests that register, resolve and release images |
| `Batcher` | `multimodal/batching.py`: which requests of a queue form a batch |
| `BatchQueue` | the queue of the batcher |
| `ImageAssets` | `multimodal/manager.py`, `cache.py`: images by reference and their cache |
| `Admission`, `MCAdmission` | from a chat to vision inputs, over the two above: `openai_adapter.py`, the processors' `materialize` |
| `VisionTower` | `models/qwen3_vl_vision.py` on a pack of images, and `_encode` |
| `LLMEngine` | the engine as its callers see it: admission, token events, abort |
| `NativeBackend` | `serving/engine_client.py`: execution lock, text calls, dynamic session |
| `MultimodalCore`, `MCServing` | `engine/multimodal_engine.py`: clients, worker loops, cancellation, shutdown; EXTENDS the two above and `Batcher` |
| `RequestService` | the abstract specification of the serving core |
| `HttpService`, `MCHttp` | `serving/openai_api.py` over `MultimodalCore` |
| `RankBroadcast` | the broadcast of commands to tensor-parallel ranks (`model_runner.py`, `executor.py`) |
| `WeightLoading` | `utils/loader.py` with the layers' weight loaders, for three model families |
| `TensorParallel`, `MCTensorParallel` | a sharded model run by the ranks of `RankBroadcast` |

Definitions named `BugX` are `X` with a plausible mistake. No specification
uses them; they are there to see that each property can fail.

### 2.1 The engine

`BlockManager` keeps the code's fields under short names: `free` is
`free_block_ids`, `used` is `used_block_ids`, `ref` and `bhash` are the fields
of `Block`, `hmap` is `hash_to_block_id`, and `table`, `ncached` and `tokens`
are fields of `Sequence`. `Allocate`, `Deallocate`, `MayAppend` and
`HashBlocks` are whole methods: a loop over the blocks of a request is one
step, because nothing interleaves with it. The 64-bit rolling hash is the
sequence of cache keys it digests, so hashing is injective in the model (see
section 7). A visual token carries the identity of its image feature, and
`CacheToken` is what `block_cache_key` makes of it.

`Scheduler` splits one engine step along the loops of `schedule()` and
`postprocess()`; `phase` is the program counter:

    idle -> prefill -> runPrefill -> postPrefill -> idle
                    -> decode <-> append ... -> runDecode -> postDecode -> idle

`PrefillHead` is one iteration of the prefill loop (lines 82-137),
`DecodeHead`, `PreemptTail`, `PreemptSelf` and `ScheduleDecode` are the parts
of the decode loop (145-172), `EndDecode` is the assertion and `extendleft`
(174-181), `PostChunk` and `PostToken` are one iteration of `postprocess`.
`Add` and `Abort` happen between steps only: one thread drives the engine. When
the model run raises (`RunRaises`), `step()` lets the exception out with the
queues and tables as `schedule()` left them, and the engine is idle. What
becomes of the batch is up to the caller: it may abort each of its requests or
none and step on. The constant `RunsRaise` says whether runs raise at all.

`EngineCore` adds `kv`, which is not a variable of the code but the content of
its KV tensor: a slot holds the prefix from whose last token its K/V was
computed, or `NoKV`. `PrefillWrites` and `DecodeWrites` are the slot mappings
of `prepare_prefill` and `prepare_decode`. A token whose context was not what
the request's prefix says writes `NoKV`, and two writers of one slot leave
`NoKV`, so any mistake in the tables, counters or hashes shows up as a context
that is not the request's own. Two more variables are history, and no guard
reads them: `interrupted`, the requests in `running` that were in a batch whose
run raised, and `resumed`, whether one of them has been decoded since. Section 7
says what that does to the cache.

`BatchInputs` adds no state. It computes, for the batch that is about to run,
what `prepare_prefill` and `prepare_decode` compute: token rows, positions,
slots, and the plan of visual replacements with its merge into embeddings and
DeepStack rows. `EngineCore` knows which slots a run writes; `BatchInputs` says
which row goes where, and compares each row with what its own token, in its
own request, should have. `PromptMetadata` is the builders of both model
families, chosen by the constant `Family`; the prompts of a run carry the
identities `visual_identity_at` gives, which `PromptsAssumption` checks.
`Reference` defines the position of every token without chunks, batches or
deltas: text follows the largest position before it, an image spreads from
there over rows and columns. `PlanRefused`, `FeaturesRefused`, `InputsRefused`
and `DeepStackRefused` are the checks on the way into the language model.

`PagedAttention` takes the context the model runner sets (cumulative lengths,
padded block tables, slots) and computes what each backend's store leaves in
the cache and which keys each row then attends to, with FlashAttention and
with SDPA. The key of a token stands for the prefix it ends, so that "attends
to the right keys" is an equality of sequences of prefixes.

`DecodeGraph` adds one variable, the buffers of the captured graphs. A decode
batch is written into their first rows; `ReplayedRows` run, with whatever the
rows beyond the batch still hold.

`SlotTransfer` is a model of its own: the host, two CUDA streams as queues of
operations, three events, one device buffer, and the pinned tensors the host
still holds. Rank 0 waits for each run's tokens; another rank runs ahead of its
device.

### 2.2 The serving core

`LLMEngine` reduces the engine to what its callers can tell: which sequences
are in the scheduler, how many tokens each has, and the token events not yet
drained. A step advances any nonempty set of sequences (`Outcomes`), because
the scheduler may choose any; that `step()` terminates and loses none is what
the engine modules show.

`NativeBackend` has the execution lock. `TextAcquire` and `TextStep` are
`EngineClient.generate`: it adds its sequence, steps the engine until that has
finished, and never drains token events. The worker's side is
`AdmitChatBatch`, `StepDynamic` (step, drain, one decoder per sequence) and
`AbortDynamic`. When a step raises, `error` says why: the model run, the
tokenizer, or an event of which sequence, without a decoder, it met. `cause`
(in `MultimodalCore`) is a history variable: why each client's request failed.

`HttpService` puts the handlers on top: `Post` enqueues or refuses, `Begin`,
`Ask` and `End` are the generator, `Receive` is a thread that was blocked in
the queue and hands its item on, `Leaves` is a client that goes. The generator
calls `Close` from its `finally`, unless it never started. Chunks are numbers:
the role, a token's text, the finish reason, the end mark.

`MultimodalCore` has the client threads (`Enqueue`, `GiveUp`, `Shutdown`) and
the worker, with `pc` as its program counter:

    unborn -> wait -> execute -> wait                          (HF backend)
              wait -> enter -> admit -> top -> step -> route -> bottom -> top
                                                   fail, bottom -> leave -> wait

`canceled` is set without a lock while the worker reads it. The worker's loops
over requests look at one flag at a time, and a flag that changes before or
after its turn is, for every other request, the same as one that changes
before or after the loop; each loop is therefore one action. `sent` is all that
was ever put into a request's event queue.

### 2.3 Vision features

`VisionFeatures` follows one prefill through `resolve_pinned` step by step:
lookup, pin what is cached, encode what is not, `put_many`, unpin, pin
everything, use, unpin, with the exceptions that can leave it at each step
(`error`). Requests register their images when they are added and release them
when they end; which images a prefill needs is any selection of the live
requests' images, because chunking, prefix hits and preemption let a prompt be
prefilled in any part and again. An eviction in `put_many` is written in
closed form (`Victims`).

The features themselves come from `VisionTower`. Of the numbers it keeps the
origin: the patch behind a row, the four entries of the position table that are
interpolated for it and their weights, its rotary coordinates, the patches it
has attended to, and the number of blocks. `Tower` computes these for a pack of
images in the code's own orders (pixel rows square by square, positions line by
line and then permuted, segments frame by frame); `Encoded` cuts the output up
again. `OwnBundle` says, without a pack, what the features of one image are.

`Admission` comes before: a request's content parts become image inputs,
`Begin` pops a batch, `LookUp` and `Load` are the two halves of
`_load_cached`, between which the image may be replaced (`Environment`), and
`Admit` cuts the processor's patches up under their feature keys.

### 2.4 Ranks

`RankBroadcast` follows `write_shm` and `read_shm` store by store: the length,
the payload and one event per rank on rank 0; wait, read the length, load the
payload, clear the event, execute on the others. A call is its number, so that
a payload cut at another call's length is a different value (`Garbage`, or by
chance the right one). A collective call, a run or exit, finishes on a rank only when
every rank has begun it. The others (`release_vision_inputs`, made whenever a
request ends, `register_vision_inputs`, `vision_stats`) return at once on rank
0. `overrun` is a history variable: the first call that rank 0 began to write
over while the event of some rank was still set for it.

`WeightLoading` is `load_model` on one rank. A tensor is the sequence of its
slices along the sharded dimension, a weight a name and a value; a model is one
decoder layer, embedding and head. `Aliased` storage (a tied head) has two
names. `TensorParallel` loads a checkpoint on every rank and, if all accept it,
runs the calls of `RankBroadcast`: sums over ranks are kept as the terms they
add, and how often.

## 3. The checks

| Run | Instance | Shows |
|---|---|---|
| `core` | 4 blocks of 2 tokens, 3 requests of 3 or 4 tokens with one image of two behind a placeholder, batches of 2 requests and 2 tokens; runs that raise, after which any of the requests are aborted or none | types; counts, free list, index and KV contents under sharing, eviction, preemption, failure and abort; until a request whose run raised is decoded all the same, no request reads K/V of another prefix (`CachedTokensComputed`); the engine implements `BlockPool` |
| `chunks` | 4 blocks, 3 requests with an image of 2 by 2 tokens, one of two frames of a token each shown twice, or text; budget 5, graphs for 2 rows, `GraphFairSpec` | embeddings, DeepStack rows and positions of every batch are those of their tokens; each row attends to its own prefix in every backend; a replayed graph does what an eager run would; every request finishes |
| `sdpa` | the same prompts | **violated**: a preempted request is prefilled beyond the context SDPA pads to |
| `tight` | 2 blocks, requests that outgrow them | **violated**: the assertion at `scheduler.py:175` fails |
| `transfer` | 4 runs with 1 or 2 slots, 2 kernels each, either rank | kernels read their own run's slots, pinned memory outlives its copy, no stream waits for ever (deadlock is checked) |
| `admission` | 5 requests in 2 classes, each limit biting; images from a file, a URL and inline, an asset cache of 2, contents that change | batches within the policy; a pop splits the queue and serves its head; files are current; equal feature keys mean equal patches |
| `vision` | 4 images, one of two frames of 4 tokens and three of 2 tokens, budget 10, 3 requests that share some, a position table of 3 by 3, 3 blocks, 2 DeepStack layers | registrations exact, pins balanced, refusals and evictions only when needed; cached features are the image's own |
| `session` | 3 clients in 2 classes, either backend, runs, decoders and admissions that fail, no text calls | nothing lost; nothing left behind but after a refused admission; every failure is of the request's own batch, of a fault in its session, or on an event of a sequence that a refused batch left; the core implements `RequestService` |
| `answers` | 2 web clients, one of which streams, and a text call, every fault, either backend, `HttpFairSpec` | counters agree; chunks tell the completion; only a batch refused at admission leaves sequences behind; requests, responses, text calls and shutdown end |
| `mixed` | a text call beside a session, no faults | **violated**: the session fails on the text call's events |
| `broadcast` | 3 other ranks, 4 calls, runs and releases in any order; checkpoints in two orders, with a weight missing or twice, tied and untied, three families | the first call written over unread is a release; until then every call is delivered once, every call returns and shutdown joins; a checkpoint is accepted only if it fills every parameter; the ranks' parts add up to the whole model |
| `lost` | 3 other ranks, 4 calls, runs and releases in any order | **violated**: a call is overwritten before a rank has read it |

### Bounds

*Engine.* Blocks of two tokens are the smallest for which
`len % block_size == 1` is not always true; the code demands multiples of 256,
and no other arithmetic depends on the size. Three requests are enough for one
to hold blocks, one to share or evict them and one to be preempted; four
blocks let two requests of maximal length collide while a shared prefix is
alive. `MaxTokens = 2` makes a prompt of 4 tokens cross a block boundary while
it decodes. A budget of 2 tokens splits every prompt of `core`; one of 5 cuts the
image of `chunks` in two and lets a whole prompt and a first chunk share a
batch. Its prompts of 5 and 6 tokens fill three of the four blocks, so that a
short request beside one of them and its own growth force preemption. Each
request is submitted at most once.

`chunks` has `Family = "qwen3_vl"`. The families differ in the positions of an
image of more than one frame; the run has one, although processors of static
images make none.

In `chunks` decode batches of 1 and 2 rows are replayed in a graph for 2, so
that a row beyond the batch is stale. `MaxModelLen = 10` gives five table
columns, more than any request needs.

*Transfer.* With four runs of 1 or 2 slots the buffer is made, reused, grown
and reused again; two kernels a run leave one waiting behind the other.

*Serving.* Two clients of one class share a batch, a third of another class is
deferred; batches hold two. A request has at most two tokens, enough for a
first and a last event. Each client and text call asks once. In `answers` the
first token adds no text yet, and there is a thread for every stream.

*Admission.* Of the contents of a reference two are enough for a cached one and
a newer one; the file's new content has another grid, so that a stale image
would also be cut up wrongly. The asset cache holds two of three images. The
run has `Family = "qwen2_5_vl"`, whose keys may be shared by any two requests;
Qwen3-VL's name the whole group and are shared by less.

*Vision.* Four images are enough for one in use, one cached, one to be evicted
and one new; requests come and go without bound. Any request fits the budget
of 10 tokens, not every two do. The grids are two frames of a square, wide
and high, so that exchanging rows and columns shows; the position table is
smaller than some of their sides and larger than others.

*Ranks.* Three ranks besides rank 0 can be at three different places; in four
calls (the last is `exit`) a release comes before a run, between two runs and
before `exit`, and a rank can be late with it. `broadcast` follows a behaviour up to
the write that overruns a call (`UntilOverrun`, a constraint) and checks that
state too. What comes after cannot change a verdict: `overrun` keeps its value,
which `DeliveredUntilOverrun` is then about, `CallsReturn` is satisfied by it,
and `RunsAsUnsharded` claims nothing, since the calls of the ranks no longer
meet by number.
16 heads with 8 of keys on 4 ranks leave each rank 4 and 2: groups of two, and
offsets of q, k and v that all differ.

Symmetry is not used: the queues order requests, and liveness excludes it.
Deadlock is checked in `transfer`; elsewhere the system may rest: an engine
without requests, a service without clients, ranks that have left.

### Fairness

* `GraphFairSpec` (`DecodeGraph`, the engine with graph replay): weak fairness
  of the engine's own steps, together: whoever submitted a request loops on
  `step()` while it has work (`llm_engine.py:306`, `multimodal_engine.py:346`).
* `HttpFairSpec` (`HttpService`, over the core): weak fairness of the worker
  thread, of a text call that has been made, of the event loop and of its
  threads. Nobody has to come, leave, make calls, give up or shut down. A
  text call waits for the lock; weak fairness suffices because the number of
  clients is bounded, so that sessions end for good. With an endless supply of
  multimodal requests a session need never end, and text calls starve.
* `TPSpec` (`TensorParallel`): weak fairness of every rank; rank 0 need not make
  calls.

### Findings

* `tight`. Nothing compares a request with the number of KV blocks when it is
  added. A request that outgrows them finds `running` empty, preempts itself,
  and the assertion fails.
* `sdpa`. `prepare_prefill` passes the length of the original prompt as the
  full context. A request preempted after it has generated is prefilled with
  more rows, and language SDPA (Qwen3-VL with
  `language_attn_implementation="sdpa"`) raises on the negative padding.
* `mixed`. `LLMEngine.generate` never drains token events; the next session
  drains them, finds no decoder and fails all its requests.
* `lost`. A broadcast is not acknowledged. `release_vision_inputs`, called for
  every finished request even without images, needs no other rank, so the next
  call may overwrite it or lose its wake-up; a run or exit that a rank has lost
  never returns. `broadcast` shows that nothing but such a call is ever the
  first to be overwritten. Only text models run on more than
  one rank (`config.py:147`).

Other observations, which contradict nothing the repository says of itself or
lie outside a model:

* `admit_multimodal_requests` adds sequences one by one; when a later prompt of
  the batch is refused, the earlier ones stay in the engine and run on. No
  decoder knows them: a session that meets one of their events fails with every
  request it holds (`engine_client.py:130`). `LeftBehind` shows that nothing else is ever
  left, `FailsOnlyOnFaults` that nothing but this and faults fails a request.
* A client that leaves before its generator has started runs no `finally`: its
  request is not cancelled.
* A Qwen3 checkpoint with a tied head must still contain `lm_head.weight`, and
  one whose head differs from the embedding is loaded over it in file order;
  Qwen3-VL refuses that, and Qwen2.5-VL with an untied head can never be
  loaded, because its prefixes exclude the head. `broadcast` covers the
  accepted cases; Qwen3 checkpoints are as their configuration says.
* The captured graph sizes end at a multiple of 16. With another `max_num_seqs`
  above 8 a batch of that size finds no graph (`model_runner.py:1112`, `987`).
* An image behind a URL is never read again while it is cached.
* Every rank computes the number of KV blocks from its own free memory, but the
  slots are handed out by rank 0's number.

A limit of `max_tokens = 0` is accepted and never met (`scheduler.py:218`
compares with `==` after appending); the runs use positive limits.

## 4. The abstract specifications

`BlockPool` knows owners and contents only. Its steps say what the block
manager promises to requests: a request without blocks acquires full ones and
unowned ones, whose content is forgotten; a request extends itself by an
unowned block; a request fills blocks only it owns and may give all its blocks
back. `ImplementsPool` maps owners to the requests whose table contains the
block and contents to `bhash`. That no content changes under an owner follows
in the abstract pool by inspection, and hence holds in the code's.

`RequestService` knows requests, streams and who has given up: a request is
answered at most once, a stream is its own tokens in order without a gap,
nothing follows the answer, and only a client that has given up may miss the
end. `ImplementsService` maps `pending` and `answer` to the state of a request
and `sent` to its stream.

## 5. The proofs

### The engine

`EngineCoreProofs` proves, for every number and size of blocks, set of
requests and prompts, budget and failure mode allowed by `PoolAssumption` and
`SchedulerAssumption`:

* `TypeCorrect`, `RefCountsAlwaysExact`, `PoolAlwaysPartitioned`,
  `IndexAlwaysSound`, `NoRequestEverLost`, `WritesAlwaysExclusive`.

They all follow from `InductiveInvariant`, `Spec => []IInv`, where `IInv` is
the conjunction of

* `TypeOK` and `PoolInv`, which are the pool properties plus `TailExclusive`:
  the blocks of a table beyond the cached tokens have one owner and no hash.
  Without it, hashing a block could rename one that others share, and the
  exactness of counts says nothing about the index;
* `NoRequestLost`, needed because a request in two queues would be deallocated
  twice;
* `TablesCover`, a table has a block for every token of a waiting request that
  holds blocks and for all but the last token of a running one. It is what
  makes `may_append` at `len % block_size == 1` sufficient;
* `BatchCovered`, the requests of a batch are distinct, still queued and hold
  blocks for what is scheduled. The case of a chunk that stays in `waiting`
  while it is in the batch needs `Remaining = 0`: the loop cannot take the same
  head twice, because the chunk used up the budget.

The argument has one lemma per action (`PrefillHeadKeepsIInv`, ...), which
splits `IInv` with `IInvParts`, uses a lemma of the module's first part for the
pool (`AllocateKeepsPool`, `DeallocateKeepsPool`, `MayAppendKeepsPool`,
`HashBlocksKeepsIndex`) and joins the parts with `IInvPutTogether`.
`AllocateKeepsPool` rests on `CachedBlocksDistinct`, that prefixes of different
length lead to different blocks, and on `EnoughFree`, that the count in
`can_allocate` suffices although cached blocks may lie in the free list.
`DequeTheorems` has the facts about removal, filtering and reversal, an
induction over finite sets (`SubsetInduction`) whose predicate is a set, since
the provers cannot instantiate the library's theorems with an operator, and two
means against recursion: `LoopDefined`, that a function defined by a loop over
`1..m` is what its body says, and `SumIsUnits`, that a sum over a finite set is
the size of the set `Units` of its single units, so that the library's facts on
unions and subsets apply to sums. From the first follows `JoinFacts`: a sequence
joined of parts has each part at its offset, and nothing else.

Every inductive invariant below was checked by TLC as an invariant of a run
before it was proved.

### The prefix cache

The second part of `EngineCoreProofs` is about what the cache contains:

* `ScheduledNeverPreempted`: a request that got its decode slot keeps it. The
  invariant is `StatusOK`, that all requests in `running`, in the batch or on
  their way between them have status RUNNING.
* `CacheInvariant` and `CachedAlwaysComputed`. The counters only say *how many*
  tokens are cached. `KeyedContent` adds that a block with a hash is full and
  holds the tokens its hash stands for, wherever it lies; `TableKeyed` that the
  full cached blocks of a table carry the hashes of their request's prefix;
  `Contents` is the property; and `Progress` that a request which decodes has
  all but its last token cached. A run writes only slots of new tokens, which
  are distinct and, by `WritesExclusive`, in blocks nobody else references or
  finds; `postprocess` enters the blocks that became full under the hash of
  what they now hold; `allocate` takes blocks whose hash is that of the prefix.
  A run that raises leaves its requests behind their counters; the invariant
  excepts those in `interrupted`, and all of it holds as long as `~ resumed`.
  No caller is assumed to abort anything: `CacheInvariant` covers failed runs,
  any aborts between them, and new requests beside what a failed run has left.
* `EngineImplementsPool`: the refinement of `BlockPool`. Each action of the engine is a stutter or one of the pool's
  steps: allocation is `Acquire`, `may_append` is `Extend`, `hash_blocks` is
  `Fill`, `deallocate` is `Release`; a preemption, an abort and the end of a
  request are releases.

### Batches

`BatchProofs` takes the step from "the cache is right" to "each row of the next
run is computed from the right data". What its theorems say of the cache and of
decoded rows is said, like the cache invariant they rest on, until a request
whose run raised is decoded all the same.

* `RowsAlwaysAttendPrefix` (`RowsAttendPrefix`), for every block size, batch,
  chunk and backend. It follows from `IInv` and
  `CacheInv` in any state that runs a batch, in four steps. `SlotsOfFacts` and
  `RowsFacts`: the rows of a batch are its new tokens and `slot_mapping`, cut out
  of the blocks piece by piece, names the slots of those tokens.
  `SlotAfterStore`: no other token has one of these slots, so the store puts
  each new key where the block table looks for it and leaves all others; its
  order does not matter. `GatheredPrefixes` with `GatherAgrees`: what comes back
  through the padded table, by whole blocks or slot by slot, are the keys of the
  request in order. `NothingToRead`: `cu_seqlens_k[-1] <= cu_seqlens_q[-1]`, the
  one test for the whole batch, implies that *no* request of it has cached
  tokens, so the rows themselves are the keys.
* `PromptsInvariant`: `PromptsKept`, a live request begins with a prompt that was
  submitted and has generated only plain tokens since, and `DecodesGenerated`, it
  is not decoded before it has its first token. The next three theorems are about
  requests with images, whose prompt must still be the one that was submitted
  after any number of preemptions.
* `RowsAlwaysPositioned` (`RowsPositioned`), for both families, any number of
  images and any shapes the builders accept. `MetadataLoop` says what the builder's
  loop has laid after each image, from `LoopDefined`; `Laid` is the result in closed
  form: images at their placeholders, one after the other, each token of an image
  at its row and column (`Quotient` is the arithmetic). `Reaches` is the largest
  position up to a token, which links what was laid to `Reference`, whose
  definition knows nothing of a loop. A row of a chunk cuts the prompt's positions,
  or continues them with the delta where it recomputes generated tokens; a
  decoded token continues them, which is right because `DecodesGenerated` puts it
  behind the prompt.
* `RowsAlwaysEmbedded` (`RowsEmbedded`). Spans of a prompt do not meet, so the
  replacements planned for a batch are increasing and each goes to a row of its
  own; a row has one exactly if it is an image token; keys name one image, so the
  cut of an image's features that a chunk needs is as long as its rows, and nothing
  is refused by any of the four checks.
* `GraphRunsEngine`: the engine with graphs is the engine, so all of the above
  holds of it. `ReplaysAlwaysAsEager` (`ReplayAsEager`) adds `LengthsBounded`, that a
  request stays below `MaxTokens`, `BatchBounded`, that a batch stays within
  `max_num_seqs` also while a request looks for its slot, and `BuffersOK`, that
  stale rows keep their shape. The rows of the batch read what they would read
  eagerly, through the stored block table; the rows beyond it have length 0 and
  slot -1 and touch nothing. Two hypotheses are the code's own: `GraphsCaptured`,
  that some captured size reaches the buffers (otherwise `next()` in
  `model_runner.py:987` raises; it holds unless `max_num_seqs` lies above 8 and
  is no multiple of 16), and `RequestsFit`, that prompt and answer fit in
  `max_model_len`, which sizes the buffers and which the engine checks for no
  request: a caller has to.

The assumption on prompts, `PromptsAssumption`, is what admission guarantees:
the builder of the family accepted each prompt for its images (`Accepted` states
its guards), the identities are those of `visual_identity_at`, and two images of
one key are one image.

### Serving

`ServingProofs` is about `MultimodalCore` for any number of requests, text
calls and faults, and any function that assigns batch classes. `CoreInv` says
where a request can be (the batcher's queue, a popped batch, the session), what
the worker believes of its session (`active`, decoders) and what the engine
holds of it, and that the stream of every client that still listens is level
with the tokens the engine has made. Its assumptions are `HolderAssumption`
(the worker is not one of the text calls) and those on the batcher and engine.

* `RequestsInOnePlace` (`PendingPlaces`), `SessionsCleanUp`
  (`SessionLeavesNothing`) and `FailuresHaveACause` (`FailsOnlyOnFaults`). The
  last needs `Text = {}`: with text calls it is false, which is finding `mixed`.
  `Explained` keeps, for every request that failed, its `cause`, and that a
  cause that names a sequence names one whose own batch was refused: an event
  without decoder is of no other (`Admitted`).
* `CoreImplementsService`: the refinement of `RequestService`.
* `EveryRequestCounted` (`CountsAgree`) and `OnlyRefusedStayBehind`
  (`LeftBehind`) are stated for `HttpSpec`, whose steps are steps of the core
  or leave it alone.
* `HttpInvariant` and `WireAlwaysTells` (`WireTellsCompletion`). Each stream
  holds the tokens by number, and an end only with the last token there will
  be (`Streamed`, from `CoreInv`'s `StreamsInStep`); the chunks sent are those
  of the events its thread has taken (`ReaderOK`). Whatever the engine does
  afterwards cannot change an answer that is whole, because the sequence has
  left the engine (`WireOK`).

### Image features

`VisionProofs` covers `VisionFeatures` for any images, sizes, budget and
requests. Its assumption, `VisionAssumption`, is that the processor gives each
image a grid that the checks of the tower let pass when it comes alone. `FeatureInvariant` has four parts: the store (`StoreInv`: no key
twice, every byte accounted for), the registrations (`InputInv`: counted by the
live requests), the images of a prefill (`NeedInv`: they belong to live
requests, and what was found is pinned and stays), and the errors (`ErrorInv`).
Which part speaks of what at which place of `resolve_pinned` is what makes them
inductive: between `lookup` and `pin`, for instance, what is cached is exactly
what is needed and stored. From it follow `RegisteredWhileLive`,
`PinsAlwaysExact` and `NeverRefusedByTheCache`; the last says that a batch is
refused only if its *own* images exceed the budget, because everything else in
the cache is unpinned by then and may be evicted.

`EvictsLeastRecentlyUsed` is the action property: a step evicts the least
recently used of what is not pinned, and no more than it must.

The bytes of a set of features are a fold. The proofs count the single bytes
instead (`SizeIsUnits`).

`FeaturesAlwaysOwn` is `FeaturesOwn`, for any sides of the squares that are
merged and of the table of positions, any grids, and packs of any images. It is about the
engine of Qwen3-VL (`Family = "qwen3_vl"`), as the tower is that model's alone.
The argument goes from the patches up:

* The orders of the patches are numbers of several digits, square first or line
  first. `Digits` and `DigitsBelow` give the arithmetic, `Layout` and `PatchAt`
  the patch at a row of an image's grid.
* Whatever a pack joins, image after image or frame after frame, is taken apart
  again at the sums of the lengths before it (`Unfold`, `SumOfIs`,
  `PackedFacts`). `FrameEnds` and `SegmentsAre` show that the attention segments
  are the frames, wherever in the pack their image starts; so a token sees its
  own frame and nothing else (`AttendsFrame`, `FrameSeen`).
* `CornersInterpolate`: the four corners of a patch lie in the table of positions,
  and their weights place it where it lies in its frame (`Between` is the
  arithmetic of one axis, clipped at the far edge).
* `HiddenAt` and `MergedAt` put these together for a row before and after merging,
  and `FeaturesAreOwn` for an image of a pack, whose rows are cut from the output by
  token counts.

The invariant is `OwnInv`: `FeaturesOwn` of what is stored, and the same of what
`resolve_pinned` has encoded and is about to put. `PutComesFromEncode` relates the two:
between the encoding and the `put` the keys that are missing stay the same.

### Batching and images

`AdmissionProofs` covers `Admission` for any requests, limits, images and sizes
of the asset cache and both model families. `BatcherAssumption` says that no
request exceeds the limits by itself, which `add()` checks; `AssetAssumption`
that there is at least one content and a cache of some size;
`AdmissionAssumption` that every image has at least one patch. `AdmitInv` has
four parts:

* `QueueInv`, with `BatchesWithinPolicy`. `SelectedWithin` is the loop invariant
  of `pop_batch`: what is selected after each candidate respects the limits,
  since it starts with a request that does and takes what still fits.
  `TotalOfPart` carries the sums from the positions of the queue to those of the
  batch. `PopSplits` proves `PopsAlwaysSplit` (`PopSplitsQueue`); it needs that
  no request waits twice.
* `AssetInv`: an image in the cache under a file's key is *no older* than the
  key, as the key is made before the file is read. It may be newer, which is
  why equality would not be inductive.
* `PrepareInv`: the batch is prepared up to the image at hand, with
  `FilesCurrent`; and a load that was begun has a key made since the batch was
  popped, for the image it is about to give.
* `AdmittedInv`: each input of an admitted request shows an image of the
  request, by its key, grid and patches. `FlattenFacts` and `OffsetFacts` take
  the processor's output apart: the patches at an image's offset are its own
  (`OwnPatches`). A key contains the fingerprint and the grid of its image, so
  inputs with equal keys are equal (`KeysAreEnough`).

They give `BatchesAlwaysWithinPolicy`, `FilesAlwaysCurrent` and
`KeysAlwaysNamePatches`.

### Ranks

`TensorParallelProofs` is about any number of ranks, any shape of the layers (the
guards of `divide` hold, `Constructible`), any checkpoint of the three model
families and any calls, collective or not. Its assumptions are `RanksAssumption`, that the other
ranks are numbered from 1; `ShapeAssumption`, that heads, sizes and vocabulary are
positive; `SourcesAssumption`, that a checkpoint has the names its model has, and
that one tied in the Qwen3 way does not give its two names different values (see
the observations in section 3); and `InputsAssumption`, that calls have sequences of
known tokens, one each when they decode.

`AlwaysDelivered` (`DeliveredUntilOverrun`) holds whichever methods are
collective. The invariant is `DeliveryInv`: as long as nothing has been written
over, `BroadcastInv`; after that only which call it was (`Overran`).
`BroadcastInv` says that the buffer holds the call rank 0 makes or made last
(`Written`), that nothing follows `exit`, and that each rank is where rank 0's
place allows (`InStep`), never two calls behind: it has taken the last call, or
has its event set and has still to read it, which is possible after rank 0 is
through with the call only if that needs no other rank (`Over`). So a rank
that is still to read when rank 0 begins to write has such a call
(`OverrunStep`). One lemma per action; `LoopKeeps` and `OthersStay` carry the
ranks that do not move. That nothing is overrun at all cannot be proved: it is
false, which is what run `lost` shows.

`LoadsAlwaysWhole` (`LoadsWhole`) needs no hypothesis. `Loading` is the invariant
of `load_model`'s loop after `k` weights: which weights were taken (`Taken`), which
parameters and shards were noted for them, that each weight taken lies at its place
(`Keeps`: rank `r` has `Part` slices from `First` on, at `Offset` of a packed
parameter), and that a slice nobody has filled is still uninitialized. A step must
not disturb what earlier ones wrote: `Apart` says that the shards of a packed
parameter do not overlap, `Alike` that embedding and head are shared out alike, so
that the two names of a tied tensor have one place, where the check for aliases
demands one value. `LoadRounds` turns the fold into such a loop. At the end, `Complete` says
that every parameter and shard was noted, `Covered` that the places then fill the
parameter, and `Held` what a rank has of each weight.

`RunsAlwaysAsUnsharded` (`RunsAsUnsharded`) is about every run until a call is
written over, with releases in between. `Shares` (from `OwnerIn`, `OwnerOf`) says that equal shares cut
`1..tp * n` into one piece for each rank, so that a sum over ranks has each term
once (`ReducedOnce`). `EmbeddedOnce`, `ActivatedOnce`, `AttendedOnce` and
`GatheredWhole` are the layers; in the third a head of queries and its head of keys
and values are on the same rank, because the group size is the same there as in the
unsharded model. `AllHave` is the step from the broadcast to the run: when rank 0 is
through with a run, every rank has executed this very call and no other
(`Caught`), so all ranks have embedded the same tokens. `SampledLast` says that the
rows `ParallelLMHead` takes are the last tokens of the sequences.

### Kernels

Two theorems are about operators, not behaviours, and prove what the runs can
only sample: `GatherAgrees` (in `BatchProofs`, where it is used), that PyTorch's
gather by whole blocks and the kernels' slot of each token read the same values
for every block size, table and length; and `CopiedOnce` (`PagedKVProofs`), that
the threads of the CUDA kernels together copy each element of a slot once and no
other, whatever the vector width and the tail. `StridedPartition` is the
arithmetic of the second.

`PagedKVProofs` also proves `KernelsSafe` (`KernelsReadOwnSlots`) and `SourcesSafe`
(`SourcesOutliveCopies`) for any number of runs, lengths and layers. The device
serves two streams in any order, but the transfer stream is always the rest of a
fixed program: record, wait, copy, record for run 1, for run 2, and so on. One
number, `Executed`, says how far it has got, and the invariant `TransferInv`
says by it which events are recorded, what the buffer holds, which kernels can
still be queued, and which pinned memory may have been given back.

## 6. Only model-checked

Liveness, which is out of the prover's reach: `EveryRequestFinishes`,
`RequestsEnd`, `ResponsesEnd`, `TextCallsEnd`, `ShutdownCompletes`,
`CallsReturn`.

Every invariant and every action property of the passing runs is stated by a
theorem.

## 7. Abstractions and what is not modelled

* Hash collisions: the hash of a prefix is the prefix. The code compares the
  block's own key after a hit but not the chain before it, so a collision of
  two chains that end in the same block would go undetected. Feature keys, also
  hashes, identify their image; the check for conflicting registrations, which
  only a collision could trip, is left out.
* Sampling is a free choice among `Sampled`; temperatures are left out.
  `ignore_eos` is the case of an `Eos` outside `Sampled`.
* A text call has one prompt. `generate_multimodal` and
  `generate_multimodal_stream`, which drain an engine of their own, are not
  modelled, nor is a streaming backend without a dynamic session.
* `abort_dynamic` does not raise in the model. In the code the call in
  `_abort_canceled_dynamic` is unguarded, and a worker that dies there is not
  started again.
* When a run raises, its requests stay in `running` (or, in the middle of a
  prompt, at the head of `waiting`) until somebody aborts them, and nothing in
  the engine remembers that their tokens were not computed. The next `step()`
  decodes such a request: its prompt counts as computed though its slots may
  hold anything, a failed decode run is followed by a second `may_append` for
  the same token, and what is stored from there on may enter the prefix index
  and reach other requests. The session aborts the requests it knows
  (`multimodal_engine.py:519`), not the sequences a refused admission has left
  (`llm_engine.py:274`); a text `generate()` aborts none
  (`engine_client.py:234`), and both kinds are stepped on by the next session.
  So the served code can get there. The model follows it, and from there on
  (`resumed`) claims what still holds: types, counts, free list and index,
  places, write sets and the refinement of `BlockPool`, but not the contents of
  the cache.
* The modification time and size of a file tell its contents apart. The code
  takes a file's key before it reads it; an image cached under an older key is
  then a newer one, never an older.
* K and V of all layers are one value; attention is the sequence of keys a row
  sees. FlashAttention and the attention kernel's grouping of heads are
  external, as are the CUDA streams, the Hugging Face image processors, the
  Qwen2.5-VL vision tower and the web server.
* Interpolation weights of the vision tower are exact fractions, without the
  rounding of `float32`.
* Names of weights stand for whole paths. In the code a packed source name may
  match anywhere inside one (`source_name in param_name`, `loader.py:87`).
* A batch whose images do not fit in the vision budget raises
  (`VisionFeatures`); for `BatchInputs` features are always found.
* Of the counters only `submitted`, `completed` and `failed` are kept.
* One thread calls rank 0. In the code the metrics endpoint may call
  `vision_stats` beside it (`engine_client.py:338`).
* Numerics of layers, rotary embeddings and sampling; the size of the KV cache
  and the warm-up, which are measurements of a device; starting and failing to
  start processes; building the extension; parsing of requests and the other
  HTTP endpoints; `MultimodalProcessor.process`, which the served path does not
  use; the Hugging Face backend (`multimodal/qwen25_vl.py`), of which
  `MultimodalCore` sees one blocking call per batch; benchmarks and
  verification scripts.

`PROJECT.json` lists the hazards none of the properties covers, with reasons.

## 8. Plan

1. Done: block manager, scheduler and engine core with the KV cache, the
   inductive invariant and its theorems; the tensors of a batch, attention over
   the paged cache in every backend, graph replay and slot transfer; the
   serving core with HTTP streams; batching, images, features and the vision
   tower; rank broadcast, weight loading and sharded runs; their theorems.
2. Sequences as the other ranks see them (pickling in `sequence.py`), and the
   failure of a rank while it starts.
