----------------------------- MODULE BlockPool -----------------------------
(***************************************************************************)
(* What the KV-cache block manager promises to the engine, without lists,  *)
(* counters or hashes: a block has a set of owners and, once it is full, a *)
(* content that stays what it is until the block is handed out afresh.     *)
(* EngineCore.tla implements this specification.                           *)
(***************************************************************************)
EXTENDS FiniteSets

CONSTANTS Block, Request, NoContent

VARIABLES
    owners,    (* the requests whose block table contains the block         *)
    content    (* the prefix a full block holds, or NoContent               *)

poolState == <<owners, content>>

Owned(r) == { b \in Block : r \in owners[b] }

PoolInit ==
    /\ owners  = [ b \in Block |-> {} ]
    /\ content = [ b \in Block |-> NoContent ]

(* A request without blocks takes some that are full, owned or not, and    *)
(* some that have no owner, whose content is forgotten.                    *)
Acquire(r, full, new) ==
    /\ full \cap new = {}
    /\ owners'  = [ b \in Block |->
                      IF b \in full \cup new THEN owners[b] \cup {r} ELSE owners[b] ]
    /\ content' = [ b \in Block |-> IF b \in new THEN NoContent ELSE content[b] ]

(* A request with blocks takes one more that has no owner.                 *)
Extend(r, b) ==
    /\ Owned(r) # {}
    /\ owners[b] = {}
    /\ owners'  = [owners EXCEPT ![b] = {r}]
    /\ content' = [content EXCEPT ![b] = NoContent]

(* A request fills blocks that only it owns, and may then give all of its  *)
(* blocks back; full ones keep their content.                              *)
Fill(r, filled, giveBack) ==
    /\ DOMAIN content' = Block
    /\ \A b \in filled : content[b] = NoContent
    /\ \A b \in Block \ filled : content'[b] = content[b]
    /\ \A b \in filled : content'[b] # NoContent
    /\ owners' = IF giveBack THEN [ b \in Block |-> owners[b] \ {r} ] ELSE owners

PoolNext ==
    \E r \in Request :
        \/ /\ Owned(r) = {}
           /\ \E full \in SUBSET { b \in Block : content[b] # NoContent },
                new  \in SUBSET { b \in Block : owners[b] = {} } :
                Acquire(r, full, new)
        \/ \E b \in Block : Extend(r, b)
        \/ \E filled \in SUBSET { b \in Block : owners[b] = {r} }, giveBack \in BOOLEAN :
                Fill(r, filled, giveBack)

Spec == PoolInit /\ [][PoolNext]_poolState
=============================================================================
