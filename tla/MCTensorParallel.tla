-------------------------- MODULE MCTensorParallel --------------------------
(* A checkpoint in the order of its files or another, with a weight left   *)
(* out or given twice, of each family; four ranks for the text model.     *)
EXTENDS TensorParallel

W(name, value) == [name |-> name, value |-> value]
Q(names)  == [ i \in DOMAIN names |-> W(names[i], IF names[i] = "lm_head" THEN "embed_tokens" ELSE names[i]) ]
Full      == <<"embed_tokens", "gate_proj", "up_proj", "down_proj", "q_proj", "k_proj", "v_proj",
               "o_proj", "norm", "lm_head">>
Visual    == << W("visual", "visual") >>
Untied(c) == [ i \in DOMAIN c |-> [c[i] EXCEPT !.value = c[i].name] ]

MCFiles ==
    {Q(Full), Untied(Q(Full)), Q(Reversed(Full)), Q(Full) \o Q(<<"q_proj">>)}
    \cup { Q(SE!RemoveAt(Full, i)) : i \in DOMAIN Full }

(* Qwen3's weights are given as its configuration says they are tied.      *)
MCSources ==
    { s \in [model : Models, tp : {1, 4}, checkpoint : MCFiles \cup { Visual \o c : c \in MCFiles }] :
        s.model = [family |-> "qwen3", tied |-> TRUE] =>
            \A i \in DOMAIN s.checkpoint : s.checkpoint[i] # W("lm_head", "lm_head") }

MCInputs == <<
    [isPrefill |-> TRUE,  sequences |-> << <<0, 5, 2>>, <<3>> >>],
    [isPrefill |-> FALSE, sequences |-> << <<4>>, <<1>> >>],
    [isPrefill |-> TRUE,  sequences |-> << <<2, 4>>, <<1, 5>> >>],
    [isPrefill |-> FALSE, sequences |-> << <<0>>, <<3>> >>] >>

(* A bound: once a call has been written over, no property can change.     *)
UntilOverrun == overrun = 0
=============================================================================
