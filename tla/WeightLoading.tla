--------------------------- MODULE WeightLoading ---------------------------
(***************************************************************************)
(* Loading a checkpoint on one tensor-parallel rank (utils/loader.py), with *)
(* the layers' weight loaders (layers/linear.py, layers/embed_head.py) and  *)
(* what the model families declare of themselves (models/qwen3.py,         *)
(* qwen25_vl.py, qwen3_vl.py, qwen_vl_adapter.py).                         *)
(*                                                                         *)
(* A weight is a name and a value; a tensor is the sequence of its slices  *)
(* along the dimension that is sharded.  Of a model one decoder layer is   *)
(* kept; biases are sharded as their weights are.  Names match whole.      *)
(***************************************************************************)
EXTENDS Deques

CONSTANTS Heads, KVHeads, HeadDim, Inner, Vocab

ASSUME ShapeAssumption ==
    /\ {Heads, KVHeads, HeadDim, Inner, Vocab} \subseteq Nat \ {0}
    /\ Heads % KVHeads = 0

(* A model: its family, and whether its LM head is tied to the embedding.  *)
Models == [family : {"qwen3", "qwen2_5_vl"}, tied : BOOLEAN]
          \cup [family : {"qwen3_vl"}, tied : {TRUE}]

(* packed_modules_mapping: the parameter, and the shard of it.             *)
Packed == [q_proj    |-> <<"qkv_proj", "q">>,
           k_proj    |-> <<"qkv_proj", "k">>,
           v_proj    |-> <<"qkv_proj", "v">>,
           gate_proj |-> <<"gate_up_proj", "gate">>,
           up_proj   |-> <<"gate_up_proj", "up">>]

ShardsOf(p) == { Packed[n][2] : n \in { n \in DOMAIN Packed : Packed[n][1] = p } }

LanguageNames == DOMAIN Packed \cup {"embed_tokens", "o_proj", "down_proj", "norm"}

(* include_prefixes of the family.                                         *)
Included(m, name) ==
    CASE m.family = "qwen3"      -> TRUE
      [] m.family = "qwen2_5_vl" -> name \in LanguageNames
      [] m.family = "qwen3_vl"   -> name \in LanguageNames \cup {"lm_head"}

(* checkpoint_parameter_aliases.                                           *)
Target(m, name) ==
    IF m.family = "qwen3_vl" /\ name = "lm_head" THEN "embed_tokens" ELSE name

(* named_parameters.  Qwen3 ties the data of two parameters, the vision    *)
(* models share one parameter.                                             *)
Parameters(m) ==
    {"embed_tokens", "qkv_proj", "o_proj", "gate_up_proj", "down_proj", "norm"}
    \cup IF m.tied /\ m.family # "qwen3" THEN {} ELSE {"lm_head"}
Storage(m, p) == IF m.tied /\ p = "lm_head" THEN "embed_tokens" ELSE p

-----------------------------------------------------------------------------
(* The divisions the layers assert, and the restriction of config.py.      *)
Constructible(m, tp) ==
    /\ \A n \in {Heads, KVHeads, Inner, Vocab} : n % tp = 0
    /\ m.family # "qwen3" => tp = 1

LocalSize(tp, p) ==
    CASE p \in {"embed_tokens", "lm_head"} -> Vocab \div tp
      [] p = "qkv_proj"                    -> ((Heads + 2 * KVHeads) * HeadDim) \div tp
      [] p = "o_proj"                      -> (Heads * HeadDim) \div tp
      [] p = "gate_up_proj"                -> (2 * Inner) \div tp
      [] p = "down_proj"                   -> Inner \div tp
      [] p = "norm"                        -> 1

FullSize(name) ==
    CASE name \in {"embed_tokens", "lm_head"}         -> Vocab
      [] name \in {"q_proj", "o_proj"}                -> Heads * HeadDim
      [] name \in {"k_proj", "v_proj"}                -> KVHeads * HeadDim
      [] name \in {"gate_proj", "up_proj", "down_proj"} -> Inner
      [] OTHER                                        -> 1

Tensor(w) == [ i \in 1..FullSize(w.name) |-> <<w.value, i>> ]

Narrow(t, start, size) == SubSeq(t, start + 1, start + size)

(* torch.chunk(n)[k].                                                      *)
Chunk(t, n, k) == LET size == (Len(t) + n - 1) \div n IN Narrow(t, k * size, size)

BugShardOffset(tp, shard) ==
    CASE shard \in {"q", "gate"} -> 0
      [] shard \in {"k", "v"}    -> (Heads \div tp) * HeadDim
      [] shard = "up"            -> Inner \div tp
ShardOffset(tp, shard) ==
    CASE shard \in {"q", "gate"} -> 0
      [] shard = "k"             -> (Heads \div tp) * HeadDim
      [] shard = "v"             -> (Heads \div tp) * HeadDim + (KVHeads \div tp) * HeadDim
      [] shard = "up"            -> Inner \div tp

(* The weight loaders of the packed layers, and of the others.             *)
PutShard(data, tp, r, w, shard) ==
    LET part  == Chunk(Tensor(w), tp, r)
        start == ShardOffset(tp, shard)
    IN  [ i \in DOMAIN data |->
            IF i \in start + 1..start + Len(part) THEN part[i - start] ELSE data[i] ]

PutWhole(tp, r, w, p) ==
    IF p = "norm" THEN Tensor(w)
    ELSE Narrow(Tensor(w), r * LocalSize(tp, p), LocalSize(tp, p))

-----------------------------------------------------------------------------
(* load_model, one weight after the other.                                 *)

Uninitialized == <<"empty", 0>>
NotLoaded     == "none"

Fresh(m, tp) ==
    [ok       |-> TRUE,
     data     |-> [ p \in { Storage(m, p) : p \in Parameters(m) } |->
                        [ i \in 1..LocalSize(tp, p) |-> Uninitialized ] ],
     selected |-> {},                                   (* names             *)
     loaded   |-> {},                                   (* loaded_parameters *)
     shards   |-> [ p \in {"qkv_proj", "gate_up_proj"} |-> {} ],
     alias    |-> NotLoaded]                (* loaded_alias_values: the value *)

Selected(s, w) == [s EXCEPT !.selected = @ \cup {w.name}]

LoadPacked(tp, r, s, w) ==
    LET p     == Packed[w.name][1]
        shard == Packed[w.name][2]
    IN  [Selected(s, w) EXCEPT
            !.ok        = shard \notin s.shards[p],
            !.data[p]   = PutShard(@, tp, r, w, shard),
            !.loaded    = @ \cup {p},
            !.shards[p] = @ \cup {shard}]

Aliased(m, p) == m.family = "qwen3_vl" /\ p = "embed_tokens"

LoadPlain(m, tp, r, s, w) ==
    LET p == Target(m, w.name) IN
    IF Aliased(m, p) /\ s.alias # NotLoaded
    THEN [Selected(s, w) EXCEPT !.ok = s.alias = w.value, !.loaded = @ \cup {w.name}]
    ELSE [Selected(s, w) EXCEPT
            !.ok     = p \notin s.loaded,
            !.data[Storage(m, p)] = PutWhole(tp, r, w, p),
            !.loaded = @ \cup {p, w.name},
            !.alias  = IF Aliased(m, p) THEN w.value ELSE @]

LoadWeight(m, tp, r, s, w) ==
    IF ~ s.ok \/ ~ Included(m, w.name) THEN s
    ELSE IF w.name \in s.selected \/ (w.name \notin DOMAIN Packed
                                      /\ Target(m, w.name) \notin Parameters(m))
         THEN [s EXCEPT !.ok = FALSE]
    ELSE IF w.name \in DOMAIN Packed THEN LoadPacked(tp, r, s, w)
    ELSE LoadPlain(m, tp, r, s, w)

LoadOn(m, tp, r, checkpoint) ==
    SE!FoldLeft(LAMBDA s, w : LoadWeight(m, tp, r, s, w), Fresh(m, tp), checkpoint)

(* audit_qwen3_vl_checkpoint; every name of a checkpoint is known to it.   *)
Audited(m, checkpoint) ==
    m.family = "qwen3_vl" =>
        /\ \A i, j \in DOMAIN checkpoint : checkpoint[i].name = checkpoint[j].name => i = j
        /\ \E i \in DOMAIN checkpoint : checkpoint[i].name \in LanguageNames
        /\ \E i \in DOMAIN checkpoint : checkpoint[i].name = "visual"

(* The checks after the last weight.                                       *)
BugComplete(m, s) == s.ok /\ Parameters(m) \subseteq s.loaded
Complete(m, s) ==
    /\ s.ok
    /\ \A p \in DOMAIN s.shards : s.shards[p] \in {{}, ShardsOf(p)}
    /\ Parameters(m) \subseteq s.loaded
=============================================================================
