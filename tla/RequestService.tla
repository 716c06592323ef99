--------------------------- MODULE RequestService ---------------------------
(***************************************************************************)
(* What the serving layer promises to the clients of multimodal requests,  *)
(* whatever happens between batching, engine and cancellation: a request   *)
(* is answered at most once, what its stream delivers are its own tokens   *)
(* in order and without a gap, nothing follows the answer, and only a      *)
(* client that has given up is not told how its request ended.             *)
(* MultimodalCore.tla implements this specification.                       *)
(***************************************************************************)
EXTENDS Naturals, Sequences

CONSTANT Client

VARIABLES
    streaming,   (* whether the backend streams, or only returns results    *)
    state,       (* of each request: new, open, answered or failed          *)
    stream,      (* what its client was sent                                *)
    dropped      (* the clients that have given up                          *)

serviceVars == <<streaming, state, stream, dropped>>

(* A token of the stream, by its number, and the report of an error.       *)
Item(n, end) == [token |-> n, finished |-> end]
Error        == [token |-> 0, finished |-> TRUE]

ServiceInit ==
    /\ state   = [ c \in Client |-> "new" ]
    /\ stream  = [ c \in Client |-> << >> ]
    /\ dropped = {}
    /\ streaming \in BOOLEAN

Submit(c) ==
    /\ state[c] = "new"
    /\ state' = [state EXCEPT ![c] = "open"]
    /\ UNCHANGED <<streaming, stream, dropped>>

GiveUp(c) ==
    /\ state[c] = "open"
    /\ dropped' = dropped \cup {c}
    /\ UNCHANGED <<streaming, state, stream>>

(* What may happen to an open request: nothing, a token, its end.          *)
Tells(c, item) == stream'[c] = IF c \in dropped THEN stream[c]
                               ELSE Append(stream[c], item)
Moves(c) ==
    LET next == Len(stream[c]) + 1
    IN  \/ state'[c] = "open" /\ stream'[c] = stream[c]
        \/ state'[c] = "open" /\ streaming /\ Tells(c, Item(next, FALSE))
        \/ state'[c] = "answered" /\ streaming /\ Tells(c, Item(next, TRUE))
        \/ state'[c] = "answered" /\ ~streaming /\ stream'[c] = stream[c]
        \/ state'[c] = "failed" /\ Tells(c, Error)

(* Batching makes several requests move at once.                           *)
Advance ==
    /\ DOMAIN state' = Client /\ DOMAIN stream' = Client
    /\ \A c \in Client : IF state[c] = "open" THEN Moves(c)
                        ELSE state'[c] = state[c] /\ stream'[c] = stream[c]
    /\ UNCHANGED <<streaming, dropped>>

ServiceNext == Advance \/ \E c \in Client : Submit(c) \/ GiveUp(c)

Spec == ServiceInit /\ [][ServiceNext]_serviceVars
=============================================================================
