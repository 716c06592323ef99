--------------------------- MODULE ServingProofs ---------------------------
(***************************************************************************)
(* Proofs about the serving core (MultimodalCore.tla) and the HTTP service *)
(* on top of it.  CoreInv is the inductive invariant: it follows every     *)
(* request through the batcher's queue, a popped batch and the session,    *)
(* and relates what the worker believes (active, decoders) to what the     *)
(* engine holds, for any number of requests, text calls and faults and any *)
(* batching policy.                                                        *)
(***************************************************************************)
EXTENDS HttpService, DequeTheorems

(* The loop of pop_batch over the candidates is well-defined: upTo holds   *)
(* what is selected after each of them.                                    *)
LEMMA SelectedIsLoop ==
    ASSUME NEW q \in Seq(Client), q # << >>
    PROVE  \E upTo : /\ \A n \in 1..Len(q) :
                          upTo[n] = IF n = 1 THEN {1} ELSE Take(q, upTo[n - 1], n)
                     /\ Selected(q) = upTo[Len(q)]
<1> DEFINE L == Len(q)
           X == SUBSET (1..L)
           one  == {1}
           turn == [ n \in 1..L |-> [ I \in X |-> Take(q, I, n) ] ]
           Loop(f) == f = [ n \in 1..L |-> IF n = 1 THEN {1} ELSE Take(q, f[n - 1], n) ]
           upTo == CHOOSE f : Loop(f)
<1>1. L \in Nat \ {0} /\ one \in X
  OBVIOUS
<1>2. turn \in [1..L -> [X -> X]]
  <2>1. \A I \in X, n \in 1..L : Take(q, I, n) \in X
    BY DEF Take
  <2> QED BY <2>1
<1>3. PICK g \in [1..L -> X] : g[1] = one /\ \A n \in 2..L : g[n] = turn[n][g[n - 1]]
  <2> HIDE DEF turn, X, L, one
  <2> DEFINE Loops(k, Y) ==
        \A x \in Y, f \in [1..k -> [Y -> Y]] :
          \E g \in [1..k -> Y] : g[1] = x /\ \A n \in 2..k : g[n] = f[n][g[n - 1]]
  <2>1. \A k \in Nat \ {0} : \A Y : Loops(k, Y)
    BY LoopDefined
  <2>2. Loops(L, X)
    <3> HIDE DEF Loops
    <3> QED BY <1>1, <2>1
  <2> QED BY <1>1, <1>2, <2>2
<1>4. Loop(g)
  <2>1. ASSUME NEW n \in 1..L PROVE g[n] = IF n = 1 THEN {1} ELSE Take(q, g[n - 1], n)
    <3>1. CASE n = 1
      BY <1>3, <3>1
    <3>2. CASE n # 1
      <4>1. n \in 2..L /\ n - 1 \in 1..L
        BY <3>2
      <4>2. g[n - 1] \in X /\ g[n] = turn[n][g[n - 1]]
        BY <1>3, <4>1
      <4> QED BY <3>2, <4>2
    <3> QED BY <3>1, <3>2
  <2>2. g = [ n \in 1..L |-> g[n] ]
    OBVIOUS
  <2> QED BY <2>1, <2>2
<1>5. Loop(upTo)
  <2> HIDE DEF Loop
  <2> QED BY <1>4
<1>6. Selected(q) = upTo[L]
  BY DEF Selected
<1> HIDE DEF upTo
<1> QED BY <1>5, <1>6

(* Popping takes positions of the queue, the first one among them.         *)
LEMMA SelectedPositions ==
    ASSUME NEW q \in Seq(Client), q # << >>
    PROVE  Selected(q) \in SUBSET (1..Len(q)) /\ 1 \in Selected(q)
<1> DEFINE L == Len(q)
<1>1. L \in Nat /\ L >= 1
  OBVIOUS
<1>2. PICK upTo : /\ \A n \in 1..L : upTo[n] = IF n = 1 THEN {1} ELSE Take(q, upTo[n - 1], n)
                  /\ Selected(q) = upTo[L]
  BY SelectedIsLoop
<1> DEFINE S == { n \in 1..L : upTo[n] \subseteq 1..n /\ 1 \in upTo[n] }
<1>3. \A n \in 1..L : upTo[n] = IF n = 1 THEN {1} ELSE Take(q, upTo[n - 1], n)
  BY <1>2
<1>4. 1 \in S
  BY <1>1, <1>3
<1>5. ASSUME NEW n \in 1..L - 1, n \in S PROVE n + 1 \in S
  <2>1. n + 1 \in 1..L /\ n + 1 # 1 /\ (n + 1) - 1 = n
    BY <1>1
  <2>2. upTo[n + 1] = Take(q, upTo[n], n + 1)
    BY <1>3, <2>1
  <2>3. upTo[n + 1] \subseteq upTo[n] \cup {n + 1} /\ upTo[n] \subseteq upTo[n + 1]
    BY <2>2 DEF Take
  <2>4. upTo[n] \subseteq 1..n /\ 1 \in upTo[n] /\ 1..n \subseteq 1..n + 1 /\ n + 1 \in 1..n + 1
    BY <1>5
  <2>5. upTo[n + 1] \subseteq 1..n + 1 /\ 1 \in upTo[n + 1]
    BY <2>3, <2>4
  <2> QED BY <2>1, <2>5
<1>6. 1..L \subseteq S
  <2> HIDE DEF S
  <2> QED BY <1>1, <1>4, <1>5, UpToInduction
<1>7. L \in S
  <2> HIDE DEF S
  <2> QED BY <1>1, <1>6
<1> QED BY <1>1, <1>2, <1>7

(* A pop splits the queue into the batch and what keeps waiting.           *)
LEMMA PopSplits ==
    ASSUME NEW q \in Seq(Client), q # << >>, Injective(q)
    PROVE  /\ Batch(q) \in Seq(Client) /\ Rest(q) \in Seq(Client)
           /\ Injective(Batch(q)) /\ Injective(Rest(q))
           /\ Range(Batch(q)) \cap Range(Rest(q)) = {}
           /\ Range(Batch(q)) \cup Range(Rest(q)) = Range(q)
<1> DEFINE I == Selected(q)
           J == (1..Len(q)) \ I
<1>1. I \in SUBSET (1..Len(q))
  BY SelectedPositions
<1> HIDE DEF I
<1>2. J \in SUBSET (1..Len(q))
  OBVIOUS
<1>3. /\ At(q, I) \in Seq(Client) /\ At(q, J) \in Seq(Client)
      /\ Injective(At(q, I)) /\ Injective(At(q, J))
      /\ Range(At(q, I)) = { q[i] : i \in I } /\ Range(At(q, J)) = { q[i] : i \in J }
  BY <1>1, <1>2, AtProperties
<1>4. { q[i] : i \in I } \cap { q[i] : i \in J } = {}
  BY <1>1 DEF Injective
<1>5. { q[i] : i \in I } \cup { q[i] : i \in J } = Range(q)
  BY <1>1 DEF Range
<1> QED BY <1>3, <1>4, <1>5 DEF Batch, Rest, I

-----------------------------------------------------------------------------
(* The inductive invariant of the core.                                    *)

EventType == [seq : Request, token : Nat, finished : BOOLEAN]
SentType  == [token : Nat, finished : BOOLEAN]
InSession == {"admit", "top", "step", "route", "bottom", "fail", "leave"}

Types ==
    /\ inEngine \subseteq Request /\ made \in [Request -> Nat]
    /\ tokenEvents \subseteq EventType /\ events \subseteq EventType
    /\ lock \in {Free, Worker} \cup Text
    /\ decoders \subseteq Client /\ active \subseteq Client
    /\ pending \subseteq Client /\ canceled \subseteq Client
    /\ text \in [Text -> {"idle", "waiting", "draining", "returned", "raised"}]
    /\ waiting \in Seq(Client) /\ batch \in Seq(Client)
    /\ answer \in [Client -> {"none", "result", "error"}]
    /\ sent \in [Client -> Seq(SentType)]
    /\ pc \in InSession \cup {"unborn", "wait", "execute", "enter", "exited"}

(* Who holds the lock, and what the worker has where it is.                *)
WorkerState ==
    /\ pc \in InSession <=> lock = Worker
    /\ \A t \in Text : text[t] = "draining" <=> lock = t
    /\ pc \in InSession \cup {"enter"} => backend = "native"
    /\ pc = "execute" => backend # "native"
    /\ pc \notin {"execute", "enter", "admit"} => batch = << >>
    /\ pc # "route" => events = {}
    /\ pc \notin InSession \ {"leave"} => active = {} /\ decoders = {}

(* PendingPlaces taken apart: the three places hold no request twice.      *)
PlacesApart ==
    /\ Injective(waiting) /\ Injective(batch)
    /\ Range(waiting) \cap Range(batch) = {}
    /\ Range(waiting) \cap active = {}
    /\ Range(batch) \cap active = {}
    /\ pending = Range(waiting) \cup Range(batch) \cup active

Counted ==
    /\ IsFiniteSet(pending)
    /\ {submitted, completed, failed} \subseteq Nat
    /\ CountsAgree

(* A pending request has no answer; one that has neither an answer nor     *)
(* been admitted has left no trace in the engine.                          *)
Untouched(c) ==
    /\ c \notin inEngine /\ made[c] = 0 /\ sent[c] = << >>
    /\ \A e \in tokenEvents : e.seq # c
Unanswered ==
    /\ \A c \in pending : answer[c] = "none"
    /\ \A c \in Client \ active : answer[c] = "none" => Untouched(c)

(* A session has a decoder for each of its sequences in the engine, and    *)
(* what else is there was refused at admission.                            *)
Admitted ==
    /\ decoders \subseteq active
    /\ active \cap inEngine \subseteq decoders
    /\ \A c \in (inEngine \cap Client) \ active : answer[c] = "error" /\ cause[c] = "admit"
    /\ \A e \in tokenEvents :
         e.seq \notin pending /\ (e.seq \in Client => cause[e.seq] = "admit")

(* Events that wait to be routed are the last tokens of active requests;   *)
(* every earlier token has been sent to who still listens.                 *)
Routable ==
    /\ \A e \in events : /\ e.seq \in active /\ e.token = made[e.seq]
                         /\ e.finished => e.seq \notin inEngine \cup decoders
    /\ \A e, f \in events : e.seq = f.seq => e = f
Unrouted(c) == \E e \in events : e.seq = c
StreamsInStep ==
    \A c \in active \ canceled :
        pc # "fail" => made[c] = Len(sent[c]) + IF Unrouted(c) THEN 1 ELSE 0

(* What a request may have failed because of: a fault in its own batch or  *)
(* session, a text call, or a sequence that a refused batch left behind.   *)
Blamed(x) ==
    \/ x \in {"admit", "run", "decode"}
    \/ x \in Text
    \/ x \in Client /\ cause[x] = "admit"
Causes ==
    /\ \A c \in Client : cause[c] = "admit" => answer[c] = "error"
    /\ \A c \in Client : answer[c] = "error" => Blamed(cause[c])
Explained == Causes /\ (pc = "fail" => Blamed(error))

CoreInv ==
    /\ Types /\ WorkerState /\ PlacesApart /\ Counted /\ Unanswered
    /\ Admitted /\ Routable /\ StreamsInStep /\ Explained

(* Requests that end or fail are counted.                                  *)
LEMMA SettleCounts ==
    ASSUME NEW R \in SUBSET pending, NEW F \in SUBSET pending, R \cap F = {},
           NEW why, NEW items, Counted, Settle(R, F, why, items)
    PROVE  Counted'
<1>1. IsFiniteSet(R) /\ IsFiniteSet(F) /\ IsFiniteSet(pending)
  BY FS_Subset DEF Counted
<1>2. /\ Cardinality(R) \in Nat /\ Cardinality(F) \in Nat /\ Cardinality(pending) \in Nat
      /\ Cardinality(R \cup F) = Cardinality(R) + Cardinality(F)
  <2>1. /\ IsFiniteSet(R \cup F)
        /\ Cardinality(R \cup F) = Cardinality(R) + Cardinality(F) - Cardinality(R \cap F)
    BY <1>1, FS_Union
  <2>2. Cardinality(R \cap F) = 0
    BY FS_EmptySet
  <2> QED BY <1>1, <2>1, <2>2, FS_CardinalityType
<1>3. /\ IsFiniteSet(pending \ (R \cup F))
      /\ Cardinality(pending \ (R \cup F)) = Cardinality(pending) - Cardinality(R \cup F)
  <2>1. pending \cap (R \cup F) = R \cup F
    OBVIOUS
  <2> QED BY <1>1, <2>1, FS_Difference
<1>4. Cardinality(pending') \in Nat
  BY <1>3, FS_CardinalityType DEF Settle
<1>5. /\ IsFiniteSet(pending')
      /\ Cardinality(pending') = Cardinality(pending) - (Cardinality(R) + Cardinality(F))
      /\ completed' = completed + Cardinality(R) /\ failed' = failed + Cardinality(F)
      /\ submitted' = submitted
  BY <1>2, <1>3 DEF Settle
<1> QED BY <1>2, <1>4, <1>5 DEF Counted, CountsAgree

(* What Settle does for the requests that end, those that fail and those   *)
(* that are sent something.                                                *)
LEMMA SettleFacts ==
    ASSUME Types, NEW R, NEW F, NEW why, NEW items, Settle(R, F, why, items),
           R \subseteq Client, F \subseteq Client, DOMAIN items \subseteq Client,
           \A c \in DOMAIN items : items[c] \in SentType
    PROVE  /\ pending' = pending \ (R \cup F) /\ pending' \subseteq Client
           /\ answer' \in [Client -> {"none", "result", "error"}]
           /\ sent' \in [Client -> Seq(SentType)]
           /\ \A c \in Client :
                /\ answer'[c] = IF c \in R THEN "result" ELSE IF c \in F THEN "error" ELSE answer[c]
                /\ sent'[c] = IF c \in DOMAIN items \ canceled
                              THEN Append(sent[c], items[c]) ELSE sent[c]
                /\ cause'[c] = IF c \in F THEN why ELSE cause[c]
           /\ canceled' = canceled /\ shutdown' = shutdown /\ backend' = backend
<1>1. /\ answer' = [ c \in Client |-> IF c \in R THEN "result"
                                      ELSE IF c \in F THEN "error" ELSE answer[c] ]
      /\ sent' = [ c \in Client |-> IF c \in DOMAIN items \ canceled
                                    THEN Append(sent[c], items[c]) ELSE sent[c] ]
  BY DEF Settle
<1>2. \A c \in Client : sent[c] \in Seq(SentType)
  BY DEF Types
<1>3. sent' \in [Client -> Seq(SentType)]
  BY <1>1, <1>2
<1> QED BY <1>1, <1>3 DEF Settle, Types

(* Requests that fail for a reason that explains it are accounted for, and *)
(* nobody else's failure is put down to something new.                     *)
LEMMA SettleCauses ==
    ASSUME Types, Unanswered, Causes, NEW R \in SUBSET pending, NEW F \in SUBSET pending,
           R \cap F = {}, NEW why, NEW items, Settle(R, F, why, items),
           F # {} => Blamed(why)
    PROVE  Causes'
<1>1. \A c \in Client :
        /\ answer'[c] = IF c \in R THEN "result" ELSE IF c \in F THEN "error" ELSE answer[c]
        /\ cause'[c] = IF c \in F THEN why ELSE cause[c]
  BY DEF Settle
<1>2. \A c \in Client : answer[c] = "error" => c \notin pending
  BY DEF Unanswered
<1>3. \A x : Blamed(x) => Blamed(x)'
  BY <1>1, <1>2 DEF Blamed, Causes
<1>4. ASSUME NEW c \in Client, cause'[c] = "admit" PROVE answer'[c] = "error"
  BY <1>1, <1>2, <1>4 DEF Causes
<1>5. ASSUME NEW c \in Client, answer'[c] = "error" PROVE Blamed(cause[c])'
  <2>1. CASE c \in F
    <3>1. cause'[c] = why /\ Blamed(why)
      BY <1>1, <2>1
    <3> QED BY <1>3, <3>1
  <2>2. CASE c \notin F
    <3>1. cause'[c] = cause[c] /\ Blamed(cause[c])
      BY <1>1, <1>5, <2>2 DEF Causes
    <3> QED BY <1>3, <3>1
  <2> QED BY <2>1, <2>2
<1> QED BY <1>4, <1>5 DEF Causes

(* An element that is new to a queue keeps it without duplicates.          *)
LEMMA Appended ==
    ASSUME NEW q \in Seq(Client), NEW c \in Client \ Range(q), Injective(q)
    PROVE  /\ Append(q, c) \in Seq(Client)
           /\ Range(Append(q, c)) = Range(q) \cup {c} /\ Injective(Append(q, c))
<1>1. /\ Append(q, c) \in Seq(Client) /\ Len(Append(q, c)) = Len(q) + 1 /\ Len(q) \in Nat
      /\ \A i \in 1..Len(q) + 1 : Append(q, c)[i] = IF i = Len(q) + 1 THEN c ELSE q[i]
  OBVIOUS
<1>2. \A i \in 1..Len(q) : q[i] # c
  BY DEF Range
<1>3. Injective(Append(q, c))
  BY <1>1, <1>2 DEF Injective
<1>4. DOMAIN Append(q, c) = 1..Len(q) + 1 /\ DOMAIN q = 1..Len(q)
  BY <1>1
<1>5. Range(Append(q, c)) = Range(q) \cup {c}
  <2>1. Range(q) \cup {c} \subseteq Range(Append(q, c))
    <3>1. c = Append(q, c)[Len(q) + 1]
      BY <1>1
    <3>2. \A i \in 1..Len(q) : q[i] = Append(q, c)[i] /\ i \in 1..Len(q) + 1
      BY <1>1
    <3> QED BY <1>1, <1>4, <3>1, <3>2 DEF Range
  <2>2. Range(Append(q, c)) \subseteq Range(q) \cup {c}
    <3>1. \A i \in 1..Len(q) + 1 : i = Len(q) + 1 \/ i \in 1..Len(q)
      BY <1>1
    <3> QED BY <1>1, <1>4, <3>1 DEF Range
  <2> QED BY <2>1, <2>2
<1> QED BY <1>1, <1>3, <1>5

(* At the start nobody has asked for anything.                             *)
LEMMA InitCore == Init => CoreInv
<1> SUFFICES ASSUME Init PROVE CoreInv
  OBVIOUS
<1> USE DEF Init, EngineInit, BackendInit
<1>1. Types
  BY DEF Types, Free, Request
<1>2. WorkerState
  BY HolderAssumption DEF WorkerState, InSession, Free, Worker
<1>3. PlacesApart
  BY DEF PlacesApart, Injective, Range
<1>4. Counted
  BY FS_EmptySet DEF Counted, CountsAgree
<1>5. Unanswered /\ Admitted /\ Routable /\ StreamsInStep /\ Explained
  BY DEF Unanswered, Untouched, Admitted, Routable, StreamsInStep, Explained, Causes, Blamed, Request
<1> QED BY <1>1, <1>2, <1>3, <1>4, <1>5 DEF CoreInv

(***************************************************************************)
(* The clients.                                                            *)
(***************************************************************************)

(* A new request is in no place yet, and has no trace in the engine.       *)
LEMMA EnqueueKeeps ==
    ASSUME CoreInv, NEW c \in Client, Enqueue(c)
    PROVE  CoreInv'
<1> USE DEF CoreInv, Enqueue, engineVars, backendVars
<1>1. Types'
  BY DEF Types, InSession
<1>2. WorkerState'
  BY DEF WorkerState, InSession
<1>3. PlacesApart'
  <2>1. c \notin Range(waiting) \cup Range(batch) \cup active
    BY DEF PlacesApart
  <2>2. Range(Append(waiting, c)) = Range(waiting) \cup {c} /\ Injective(Append(waiting, c))
    BY <2>1, Appended DEF PlacesApart, Types
  <2> QED BY <2>1, <2>2 DEF PlacesApart
<1>4. Counted'
  <2>1. /\ IsFiniteSet(pending \cup {c})
        /\ Cardinality(pending \cup {c}) = Cardinality(pending) + 1
        /\ Cardinality(pending) \in Nat
    BY FS_AddElement, FS_CardinalityType DEF Counted
  <2> QED BY <2>1 DEF Counted, CountsAgree
<1>5. Unanswered'
  BY DEF Unanswered, Untouched, Types
<1>6. Admitted'
  BY DEF Admitted, Unanswered, Untouched, PlacesApart
<1>7. Routable' /\ StreamsInStep' /\ Explained'
  BY DEF Routable, StreamsInStep, Unrouted, Explained, Causes, Blamed, WorkerState, InSession
<1> QED BY <1>1, <1>2, <1>3, <1>4, <1>5, <1>6, <1>7

(* Giving up sets a flag; it only narrows who is owed a token.             *)
LEMMA GiveUpKeeps ==
    ASSUME CoreInv, NEW c \in Client, GiveUp(c)
    PROVE  CoreInv'
<1> USE DEF CoreInv, GiveUp, engineVars, backendVars, workerVars, counters
<1>1. Types' /\ WorkerState' /\ PlacesApart'
  BY DEF Types, WorkerState, PlacesApart
<1>2. Counted' /\ Unanswered' /\ Admitted'
  BY DEF Counted, CountsAgree, Unanswered, Untouched, Admitted
<1>3. Routable' /\ StreamsInStep' /\ Explained'
  BY DEF Routable, StreamsInStep, Unrouted, Explained, Causes, Blamed
<1> QED BY <1>1, <1>2, <1>3

(* Shutdown sets a flag.                                                   *)
LEMMA ShutdownKeeps == CoreInv /\ Shutdown => CoreInv'
<1> SUFFICES ASSUME CoreInv, Shutdown PROVE CoreInv'
  OBVIOUS
<1> USE DEF CoreInv, Shutdown, engineVars, backendVars, workerVars, counters
<1>1. Types' /\ WorkerState' /\ PlacesApart'
  BY DEF Types, WorkerState, PlacesApart
<1>2. Counted' /\ Unanswered' /\ Admitted'
  BY DEF Counted, CountsAgree, Unanswered, Untouched, Admitted
<1>3. Routable' /\ StreamsInStep' /\ Explained'
  BY DEF Routable, StreamsInStep, Unrouted, Explained, Causes, Blamed
<1> QED BY <1>1, <1>2, <1>3

(***************************************************************************)
(* The worker.                                                             *)
(***************************************************************************)

(* The worker ends between sessions, with empty hands.                     *)
LEMMA ExitKeeps == CoreInv /\ Exit => CoreInv'
<1> SUFFICES ASSUME CoreInv, Exit PROVE CoreInv'
  OBVIOUS
<1> USE DEF CoreInv, Exit, engineVars, backendVars, clientVars, counters
<1>1. Types' /\ WorkerState' /\ PlacesApart'
  BY DEF Types, WorkerState, PlacesApart, InSession
<1>2. Counted' /\ Unanswered' /\ Admitted'
  BY DEF Counted, CountsAgree, Unanswered, Untouched, Admitted
<1>3. Routable' /\ StreamsInStep' /\ Explained'
  BY DEF Routable, StreamsInStep, Unrouted, Explained, Causes, Blamed
<1> QED BY <1>1, <1>2, <1>3

(* A pop moves requests from the queue to the batch, and loses none.       *)
LEMMA PopCoalescedKeeps == CoreInv /\ PopCoalescedBatch => CoreInv'
<1> SUFFICES ASSUME CoreInv, PopCoalescedBatch PROVE CoreInv'
  OBVIOUS
<1> USE DEF CoreInv, PopCoalescedBatch, engineVars, backendVars, counters
<1>0. /\ Batch(waiting) \in Seq(Client) /\ Rest(waiting) \in Seq(Client)
      /\ Injective(Batch(waiting)) /\ Injective(Rest(waiting))
      /\ Range(Batch(waiting)) \cap Range(Rest(waiting)) = {}
      /\ Range(Batch(waiting)) \cup Range(Rest(waiting)) = Range(waiting)
  BY PopSplits DEF Types, PlacesApart
<1>1. Types' /\ WorkerState'
  BY <1>0 DEF Types, WorkerState, InSession
<1>2. PlacesApart'
  <2>1. Range(batch) = {} /\ active = {}
    BY DEF WorkerState, Range, InSession
  <2> QED BY <1>0, <2>1 DEF PlacesApart
<1>3. Counted' /\ Unanswered' /\ Admitted'
  BY DEF Counted, CountsAgree, Unanswered, Untouched, Admitted
<1>4. Routable' /\ StreamsInStep' /\ Explained'
  BY DEF Routable, StreamsInStep, Unrouted, Explained, Causes, Blamed
<1> QED BY <1>1, <1>2, <1>3, <1>4

(* The HF backend answers a batch, or it fails.                            *)
LEMMA ExecuteKeeps == CoreInv /\ Execute => CoreInv'
<1> SUFFICES ASSUME CoreInv, Execute PROVE CoreInv'
  OBVIOUS
<1> DEFINE B == Range(batch)
<1> USE DEF CoreInv
<1>1. /\ pc = "execute" /\ active = {} /\ events = {} /\ B \subseteq pending /\ B \subseteq Client
      /\ pc' = "wait" /\ batch' = << >> /\ Range(batch') = {}
      /\ UNCHANGED <<inEngine, made, tokenEvents, lock, decoders, text, waiting, active, events>>
  BY DEF Execute, WorkerState, InSession, PlacesApart, Types, engineVars, backendVars, Range
<1>2. PICK R, F, why, items :
          /\ R \cup F = B /\ R \cap F = {} /\ DOMAIN items \subseteq B
          /\ \A c \in DOMAIN items : items[c] \in SentType
          /\ Settle(R, F, why, items)
          /\ F # {} => why = "run"
  <2>1. CASE Finish(B)
    <3>1. DOMAIN << >> = {}
      OBVIOUS
    <3> QED BY <2>1, <3>1 DEF Finish
  <2>2. CASE Fail(B, "run")
    <3> DEFINE errors == [ c \in B |-> Service!Error ]
    <3>1. DOMAIN errors = B /\ \A c \in B : errors[c] \in SentType
      BY DEF SentType, Service!Error
    <3>2. Settle({}, B, "run", errors)
      BY <2>2 DEF Fail
    <3> HIDE DEF errors
    <3> QED BY <3>1, <3>2
  <2> QED BY <2>1, <2>2 DEF Execute
<1>3. /\ pending' = pending \ B
      /\ \A c \in Client :
           /\ answer'[c] = IF c \in R THEN "result" ELSE IF c \in F THEN "error" ELSE answer[c]
           /\ c \notin B => sent'[c] = sent[c] /\ cause'[c] = cause[c]
      /\ answer' \in [Client -> {"none", "result", "error"}] /\ sent' \in [Client -> Seq(SentType)]
      /\ canceled' = canceled /\ backend' = backend
  <2>1. R \subseteq Client /\ F \subseteq Client /\ DOMAIN items \subseteq Client
    BY <1>1, <1>2
  <2> HIDE DEF B
  <2> QED BY <1>2, <2>1, SettleFacts
<1>4. Types' /\ WorkerState'
  BY <1>1, <1>3 DEF Types, WorkerState, InSession
<1>5. PlacesApart'
  BY <1>1, <1>3 DEF PlacesApart, Injective
<1>6. Counted'
  <2>1. R \in SUBSET pending /\ F \in SUBSET pending
    BY <1>1, <1>2
  <2> QED BY <1>2, <2>1, SettleCounts
<1>7. Unanswered'
  <2>1. \A c \in Client : answer'[c] = "none" => answer[c] = "none" /\ sent'[c] = sent[c]
    BY <1>2, <1>3
  <2>2. \A c \in pending' : answer'[c] = "none"
    BY <1>1, <1>2, <1>3 DEF Unanswered, Types
  <2> QED BY <1>1, <2>1, <2>2 DEF Unanswered, Untouched
<1>8. Admitted'
  BY <1>1, <1>2, <1>3 DEF Admitted, Unanswered, Untouched
<1>9. Routable' /\ StreamsInStep'
  BY <1>1 DEF Routable, StreamsInStep
<1>10. Explained'
  <2>1. R \in SUBSET pending /\ F \in SUBSET pending
    BY <1>1, <1>2
  <2>2. F # {} => Blamed(why)
    BY <1>2 DEF Blamed
  <2>3. Causes'
    BY <1>2, <2>1, <2>2, SettleCauses DEF Explained
  <2> QED BY <1>1, <2>3 DEF Explained
<1> QED BY <1>4, <1>5, <1>6, <1>7, <1>8, <1>9, <1>10

(* A session starts by taking the lock, which no text call holds then.     *)
LEMMA EnterSessionKeeps == CoreInv /\ EnterSession => CoreInv'
<1> SUFFICES ASSUME CoreInv, EnterSession PROVE CoreInv'
  OBVIOUS
<1> USE DEF CoreInv, EnterSession, engineVars, clientVars, counters
<1>1. Types' /\ PlacesApart'
  BY DEF Types, PlacesApart, InSession
<1>2. WorkerState'
  BY HolderAssumption DEF WorkerState, InSession, Free, Worker
<1>3. Counted' /\ Unanswered' /\ Admitted'
  BY DEF Counted, CountsAgree, Unanswered, Untouched, Admitted
<1>4. Routable' /\ StreamsInStep' /\ Explained'
  BY DEF Routable, StreamsInStep, Unrouted, Explained, Causes, Blamed
<1> QED BY <1>1, <1>2, <1>3, <1>4

(* Admitted requests are new to the engine: their streams start empty.     *)
LEMMA AdmitBatchKeeps == CoreInv /\ AdmitBatch => CoreInv'
<1> SUFFICES ASSUME CoreInv, AdmitBatch PROVE CoreInv'
  OBVIOUS
<1> DEFINE B == Range(batch)
<1> USE DEF CoreInv
<1>1. /\ pc = "admit" /\ pc' = "top" /\ batch' = << >> /\ Range(batch') = {}
      /\ inEngine' = inEngine \cup B /\ decoders' = decoders \cup B /\ active' = active \cup B
      /\ events = {} /\ B \subseteq pending /\ B \subseteq Client /\ B \cap active = {}
      /\ UNCHANGED <<made, tokenEvents, lock, text, error, clientVars, events, counters>>
  BY DEF AdmitBatch, AdmitChatBatch, AddSequences, WorkerState, PlacesApart, Types, Range
<1> HIDE DEF B
<1> USE DEF clientVars, counters
<1>2. Types' /\ WorkerState'
  BY <1>1 DEF Types, WorkerState, InSession, Request
<1>3. PlacesApart'
  BY <1>1 DEF PlacesApart, B, Injective
<1>4. Counted' /\ Unanswered'
  BY <1>1 DEF Counted, CountsAgree, Unanswered, Untouched
<1>5. Admitted' /\ Explained'
  BY <1>1 DEF Admitted, Explained, Causes, Blamed
<1>6. StreamsInStep' /\ Routable'
  <2>1. \A c \in B : made[c] = 0 /\ sent[c] = << >>
    BY <1>1 DEF Unanswered, Untouched
  <2>2. ~ \E e \in events' : TRUE
    BY <1>1
  <2> QED BY <1>1, <2>1, <2>2 DEF StreamsInStep, Routable, Unrouted
<1> QED BY <1>2, <1>3, <1>4, <1>5, <1>6

(* Requests refused at admission are answered before they are forgotten.   *)
LEMMA AdmitFailsKeeps == CoreInv /\ AdmitFails => CoreInv'
<1> SUFFICES ASSUME CoreInv, AdmitFails PROVE CoreInv'
  OBVIOUS
<1> DEFINE B == Range(batch)
           errors == [ c \in B |-> Service!Error ]
<1> USE DEF CoreInv
<1>1. /\ pc = "admit" /\ pc' = "top" /\ batch' = << >> /\ Range(batch') = {}
      /\ events = {} /\ B \subseteq pending /\ B \subseteq Client /\ B \cap active = {}
      /\ UNCHANGED <<made, tokenEvents, lock, decoders, text, waiting, active, events>>
  BY DEF AdmitFails, AddSequences, WorkerState, PlacesApart, Types, Range, backendVars
<1>2. PICK P : P \subseteq B /\ inEngine' = inEngine \cup P
  <2>1. PICK k \in 0..(Len(batch) - 1) : AddSequences(Range(SubSeq(batch, 1, k)))
    BY DEF AdmitFails
  <2>2. Len(batch) \in Nat /\ k \in 0..Len(batch) /\ batch \in Seq(Client)
    BY <2>1 DEF Types
  <2>3. Range(SubSeq(batch, 1, k)) \subseteq B
    BY <2>2, SplitFacts
  <2> QED BY <2>1, <2>3 DEF AddSequences
<1>3. Settle({}, B, "admit", errors)
  BY DEF AdmitFails, Fail
<1>4. DOMAIN errors = B /\ \A c \in B : errors[c] \in SentType
  BY DEF SentType, Service!Error
<1> HIDE DEF errors, B
<1>5. /\ pending' = pending \ B
      /\ \A c \in Client : /\ answer'[c] = IF c \in B THEN "error" ELSE answer[c]
                           /\ c \notin B => sent'[c] = sent[c]
                           /\ cause'[c] = IF c \in B THEN "admit" ELSE cause[c]
      /\ answer' \in [Client -> {"none", "result", "error"}] /\ sent' \in [Client -> Seq(SentType)]
      /\ canceled' = canceled /\ backend' = backend
  BY <1>1, <1>3, <1>4, SettleFacts
<1>6. Types' /\ WorkerState'
  BY <1>1, <1>2, <1>5 DEF Types, WorkerState, InSession, Request
<1>7. PlacesApart'
  BY <1>1, <1>5 DEF PlacesApart, Injective, B
<1>8. Counted'
  BY <1>1, <1>3, SettleCounts
<1>9. Unanswered'
  <2>1. \A c \in pending' : answer'[c] = "none"
    BY <1>5 DEF Unanswered, Types
  <2>2. ASSUME NEW c \in Client \ active', answer'[c] = "none" PROVE Untouched(c)'
    <3>1. c \notin B /\ Untouched(c) /\ sent'[c] = sent[c]
      BY <1>1, <1>5, <2>2 DEF Unanswered
    <3> QED BY <1>1, <1>2, <3>1 DEF Untouched
  <2> QED BY <2>1, <2>2 DEF Unanswered
<1>10. Admitted'
  <2>1. ASSUME NEW c \in (inEngine' \cap Client) \ active'
        PROVE  answer'[c] = "error" /\ cause'[c] = "admit"
    BY <1>1, <1>2, <1>5 DEF Admitted
  <2>2. active' \cap inEngine' \subseteq decoders' /\ decoders' \subseteq active'
    BY <1>1, <1>2 DEF Admitted
  <2>3. \A e \in tokenEvents' : e.seq \notin pending' /\ (e.seq \in Client => cause'[e.seq] = "admit")
    BY <1>1, <1>5 DEF Admitted
  <2> QED BY <1>1, <2>1, <2>2, <2>3 DEF Admitted
<1>11. Routable' /\ Explained'
  <2>1. Causes'
    BY <1>1, <1>3, SettleCauses DEF Explained, Blamed
  <2> QED BY <1>1, <2>1 DEF Routable, Explained
<1>12. StreamsInStep'
  <2> SUFFICES ASSUME NEW c \in active' \ canceled'
               PROVE  made'[c] = Len(sent'[c])
    BY <1>1 DEF StreamsInStep, Unrouted
  <2>1. c \in active \ canceled /\ c \in Client /\ c \notin B /\ ~ Unrouted(c) /\ pc # "fail"
    BY <1>1, <1>5 DEF Types, Unrouted
  <2>2. Len(sent[c]) \in Nat
    <3>1. sent[c] \in Seq(SentType)
      BY <2>1 DEF Types
    <3> QED BY <3>1
  <2>3. made[c] = Len(sent[c]) + 0
    BY <2>1 DEF StreamsInStep
  <2>4. made' = made /\ sent'[c] = sent[c]
    BY <1>1, <1>5, <2>1
  <2> QED BY <2>2, <2>3, <2>4
<1> QED BY <1>6, <1>7, <1>8, <1>9, <1>10, <1>11, <1>12

(* Aborting what has been given up takes exactly those requests out of the *)
(* session and the engine, and they are counted as completed.              *)
LEMMA AbortFacts ==
    ASSUME CoreInv, AbortCanceled
    PROVE  /\ active' = active \ canceled /\ decoders' = decoders \ (active \cap canceled)
           /\ inEngine' = inEngine \ (active \cap canceled)
           /\ pending' = pending \ (active \cap canceled)
           /\ \A c \in Client :
                answer'[c] = IF c \in active \cap canceled THEN "result" ELSE answer[c]
           /\ answer' \in [Client -> {"none", "result", "error"}]
           /\ sent' \in [Client -> Seq(SentType)]
           /\ \A c \in Client : sent'[c] = sent[c] /\ cause'[c] = cause[c]
           /\ Counted' /\ Causes'
           /\ UNCHANGED <<made, tokenEvents, canceled, backend, lock, text, events>>
<1> USE DEF CoreInv
<1> DEFINE A == active \cap canceled
<1>1. /\ A \subseteq pending /\ A \subseteq Client
      /\ AbortDynamic(A) /\ active' = active \ A /\ Settle(A, {}, "none", << >>)
      /\ UNCHANGED <<lock, text, events>>
  BY DEF AbortCanceled, ToAbort, Finish, PlacesApart, Types
<1> HIDE DEF A
<1>2. inEngine' = inEngine \ A /\ decoders' = decoders \ A /\ made' = made
  BY <1>1 DEF AbortDynamic, AbortSequences, Aborted
<1>3. tokenEvents' = tokenEvents
  BY <1>1 DEF AbortDynamic, AbortSequences, Aborted, Admitted
<1>4. DOMAIN << >> = {}
  OBVIOUS
<1>5. /\ pending' = pending \ A /\ canceled' = canceled /\ backend' = backend
      /\ answer' \in [Client -> {"none", "result", "error"}] /\ sent' \in [Client -> Seq(SentType)]
      /\ \A c \in Client : /\ answer'[c] = IF c \in A THEN "result" ELSE answer[c]
                           /\ sent'[c] = sent[c] /\ cause'[c] = cause[c]
  BY <1>1, <1>4, SettleFacts
<1>6. Counted'
  BY <1>1, SettleCounts
<1>7. Causes'
  BY <1>1, SettleCauses DEF Explained
<1> QED BY <1>1, <1>2, <1>3, <1>5, <1>6, <1>7 DEF A

NoPop == UNCHANGED <<batch, waiting>> /\ pc' \in {"step", "top", "leave"}

(* A turn of the session's loop ends with a batch to admit, or without.    *)
LEMMA SessionTurn ==
    ASSUME CoreInv, pc \in {"top", "bottom"}, AbortCanceled,
           NoPop \/ (waiting # << >> /\ PopImmediateBatch),
           pc' = "leave" => active \ canceled = {}
    PROVE  CoreInv'
<1> USE DEF CoreInv
<1> DEFINE A == active \cap canceled
<1>1. /\ active' = active \ A /\ decoders' = decoders \ A /\ A \subseteq active
      /\ inEngine' = inEngine \ A /\ pending' = pending \ A
      /\ \A c \in Client : answer'[c] = IF c \in A THEN "result" ELSE answer[c]
      /\ answer' \in [Client -> {"none", "result", "error"}]
      /\ sent' \in [Client -> Seq(SentType)]
      /\ \A c \in Client : sent'[c] = sent[c] /\ cause'[c] = cause[c]
      /\ Counted' /\ Causes'
      /\ UNCHANGED <<made, tokenEvents, canceled, backend, lock, text, events>>
  BY AbortFacts
<1>2. /\ batch' \in Seq(Client) /\ waiting' \in Seq(Client)
      /\ Injective(batch') /\ Injective(waiting')
      /\ Range(batch') \cap Range(waiting') = {}
      /\ Range(batch') \cup Range(waiting') = Range(waiting) \cup Range(batch)
      /\ Range(batch) = {} /\ batch = << >> /\ events = {} /\ lock = Worker
      /\ backend = "native" /\ pc' \in InSession \ {"fail", "route", "bottom"}
      /\ pc' # "admit" => batch' = batch
  <2>1. batch = << >> /\ Range(batch) = {} /\ events = {} /\ lock = Worker /\ backend = "native"
    BY DEF WorkerState, InSession, Range
  <2>2. CASE NoPop
    BY <2>1, <2>2 DEF NoPop, PlacesApart, InSession, Types
  <2>3. CASE waiting # << >> /\ PopImmediateBatch
    <3>1. waiting \in Seq(Client) /\ Injective(waiting)
      BY DEF Types, PlacesApart
    <3> QED BY <2>1, <2>3, <3>1, PopSplits DEF PopImmediateBatch, InSession
  <2> QED BY <2>2, <2>3
<1>3. active' = {} => decoders' = {}
  BY <1>1 DEF Admitted
<1>4. pc' = "leave" => active' = {}
  BY <1>1
<1> HIDE DEF A
<1>5. Types'
  BY <1>1, <1>2 DEF Types
<1>6. WorkerState'
  BY <1>1, <1>2, <1>3, <1>4 DEF WorkerState, InSession
<1>7. PlacesApart'
  BY <1>1, <1>2 DEF PlacesApart
<1>8. Unanswered'
  <2>1. \A c \in pending' : answer'[c] = "none"
    BY <1>1 DEF Unanswered, Types
  <2>2. ASSUME NEW c \in Client \ active', answer'[c] = "none" PROVE Untouched(c)'
    <3>1. Untouched(c) /\ sent'[c] = sent[c]
      BY <1>1, <2>2 DEF Unanswered
    <3> QED BY <1>1, <3>1 DEF Untouched
  <2> QED BY <2>1, <2>2 DEF Unanswered
<1>9. Admitted'
  BY <1>1 DEF Admitted
<1>10. Routable' /\ Explained'
  BY <1>1, <1>2 DEF Routable, Explained, InSession
<1>11. StreamsInStep'
  <2> SUFFICES ASSUME NEW c \in active' \ canceled'
               PROVE  made'[c] = Len(sent'[c]) + IF Unrouted(c) THEN 1 ELSE 0
    BY <1>1, <1>2 DEF StreamsInStep, Unrouted
  <2>1. c \in active \ canceled /\ c \in Client /\ pc # "fail"
    BY <1>1 DEF Types
  <2> QED BY <1>1, <2>1 DEF StreamsInStep
<1> QED BY <1>1, <1>5, <1>6, <1>7, <1>8, <1>9, <1>10, <1>11

(* The top of the loop is such a turn.                                     *)
LEMMA TopKeeps == CoreInv /\ Top => CoreInv'
<1> SUFFICES ASSUME CoreInv, Top PROVE CoreInv'
  OBVIOUS
<1>1. active \ ToAbort = active \ canceled
  BY DEF ToAbort
<1>2. /\ pc \in {"top", "bottom"} /\ AbortCanceled
      /\ NoPop \/ (waiting # << >> /\ PopImmediateBatch)
      /\ pc' = "leave" => active \ canceled = {}
  BY <1>1 DEF Top, NoPop, PopImmediateBatch
<1> QED BY <1>2, SessionTurn

(* So is the bottom of it, where whoever waits is let in.                  *)
LEMMA BottomKeeps == CoreInv /\ Bottom => CoreInv'
<1> SUFFICES ASSUME CoreInv, Bottom PROVE CoreInv'
  OBVIOUS
<1>1. active \ ToAbort = active \ canceled
  BY DEF ToAbort
<1>2. /\ pc \in {"top", "bottom"} /\ AbortCanceled
      /\ NoPop \/ (waiting # << >> /\ PopImmediateBatch)
      /\ pc' = "leave" => active \ canceled = {}
  BY <1>1 DEF Bottom, NoPop, PopImmediateBatch
<1> QED BY <1>2, SessionTurn

(* What a step of the engine produces.                                     *)
LEMMA StepFacts ==
    ASSUME Types, NEW o \in Outcomes, Progress(o)
    PROVE  /\ o.fin \subseteq o.out /\ o.out \subseteq inEngine
           /\ inEngine' = inEngine \ o.fin /\ inEngine' \subseteq Request
           /\ made' \in [Request -> Nat] /\ Produced(o) \subseteq EventType
           /\ \A r \in Request : made'[r] = IF r \in o.out THEN made[r] + 1 ELSE made[r]
           /\ \A e \in Produced(o) :
                e.seq \in o.out /\ e.token = made[e.seq] + 1 /\ (e.finished <=> e.seq \in o.fin)
           /\ \A e, f \in Produced(o) : e.seq = f.seq => e = f
           /\ \A r \in o.out : \E e \in Produced(o) : e.seq = r
<1>1. o.fin \subseteq o.out /\ o.out \subseteq inEngine
  BY DEF Outcomes
<1>2. inEngine' = inEngine \ o.fin /\ made' = [ r \in Request |-> IF r \in o.out THEN made[r] + 1 ELSE made[r] ]
  BY DEF Progress
<1>3. \A r \in Request : made[r] \in Nat /\ made[r] + 1 \in Nat
  BY DEF Types
<1>4. Produced(o) \subseteq EventType
  <2> SUFFICES ASSUME NEW r \in o.out
               PROVE  [seq |-> r, token |-> made[r] + 1, finished |-> r \in o.fin] \in EventType
    BY DEF Produced
  <2>1. r \in Request
    BY <1>1 DEF Types
  <2>2. made[r] + 1 \in Nat /\ (r \in o.fin) \in BOOLEAN
    BY <1>3, <2>1
  <2> QED BY <2>1, <2>2 DEF EventType
<1> DEFINE Ev(r) == [seq |-> r, token |-> made[r] + 1, finished |-> r \in o.fin]
<1>5. \A r : Ev(r).seq = r /\ Ev(r).token = made[r] + 1 /\ (Ev(r).finished <=> r \in o.fin)
  OBVIOUS
<1>6. Produced(o) = { Ev(r) : r \in o.out }
  BY DEF Produced
<1> HIDE DEF Ev
<1>7. /\ \A e \in Produced(o) :
           e.seq \in o.out /\ e.token = made[e.seq] + 1 /\ (e.finished <=> e.seq \in o.fin)
      /\ \A e, f \in Produced(o) : e.seq = f.seq => e = f
      /\ \A r \in o.out : \E e \in Produced(o) : e.seq = r
  <2>1. \A e \in Produced(o) : \E r \in o.out : e = Ev(r)
    BY <1>6
  <2>2. \A r \in o.out : Ev(r) \in Produced(o)
    BY <1>6
  <2> HIDE DEF Produced
  <2> QED BY <1>5, <2>1, <2>2
<1>8. made' \in [Request -> Nat] /\ inEngine' \subseteq Request
  BY <1>2, <1>3 DEF Types
<1> QED BY <1>1, <1>2, <1>3, <1>4, <1>7, <1>8

(* A step that returns: nothing had been left over from before it, so all  *)
(* there is to route comes from this step.                                 *)
LEMMA StepReturns ==
    ASSUME CoreInv, pc = "step", pc' = "route", NEW o \in Outcomes, StepDynamic(o),
           events' = Produced(o) \cup tokenEvents,
           UNCHANGED <<lock, text, clientVars, batch, active, counters, error>>
    PROVE  CoreInv'
<1> USE DEF CoreInv
<1>1. /\ lock = Worker /\ backend = "native" /\ batch = << >> /\ events = {}
      /\ decoders \subseteq active /\ active \subseteq pending
  BY DEF WorkerState, InSession, Admitted, PlacesApart
<1>2. /\ \A e \in tokenEvents \cup Produced(o) : e.seq \in decoders
      /\ Progress(o) /\ tokenEvents' = {}
      /\ decoders' = decoders \ { e.seq : e \in { f \in tokenEvents \cup Produced(o) : f.finished } }
  BY DEF StepDynamic
<1>3. tokenEvents = {}
  <2>1. \A e \in tokenEvents : e.seq \in decoders /\ e.seq \notin pending
    BY <1>2 DEF Admitted
  <2> QED BY <1>1, <2>1
<1>4. events' = Produced(o)
  BY <1>3
<1>5. /\ o.fin \subseteq o.out /\ o.out \subseteq inEngine
      /\ inEngine' = inEngine \ o.fin /\ inEngine' \subseteq Request
      /\ made' \in [Request -> Nat] /\ Produced(o) \subseteq EventType
      /\ \A r \in Request : made'[r] = IF r \in o.out THEN made[r] + 1 ELSE made[r]
      /\ \A e \in Produced(o) :
           e.seq \in o.out /\ e.token = made[e.seq] + 1 /\ (e.finished <=> e.seq \in o.fin)
      /\ \A e, f \in Produced(o) : e.seq = f.seq => e = f
      /\ \A r \in o.out : \E e \in Produced(o) : e.seq = r
  BY <1>2, StepFacts
<1>6. decoders' = decoders \ o.fin
  <2>1. o.fin = { e.seq : e \in { f \in Produced(o) : f.finished } }
    BY <1>5
  <2> QED BY <1>2, <1>3, <2>1
<1>7. Types'
  BY <1>2, <1>4, <1>5, <1>6 DEF Types, InSession, clientVars
<1>8. WorkerState' /\ PlacesApart' /\ Counted'
  BY <1>1, <1>2 DEF WorkerState, InSession, PlacesApart, Counted, CountsAgree, clientVars, counters
<1>9. Unanswered'
  <2>1. \A c \in pending' : answer'[c] = "none"
    BY DEF Unanswered, clientVars
  <2>2. ASSUME NEW c \in Client \ active', answer'[c] = "none" PROVE Untouched(c)'
    <3>1. Untouched(c) /\ sent' = sent /\ c \in Request
      BY <2>2 DEF Unanswered, clientVars, Request
    <3> QED BY <1>2, <1>5, <3>1 DEF Untouched
  <2> QED BY <2>1, <2>2 DEF Unanswered
<1>10. Admitted'
  BY <1>2, <1>5, <1>6 DEF Admitted, clientVars
<1>11. Routable'
  <2> SUFFICES ASSUME NEW e \in Produced(o)
               PROVE  /\ e.seq \in active /\ e.token = made'[e.seq]
                      /\ e.finished => e.seq \notin inEngine' \cup decoders'
    BY <1>4, <1>5 DEF Routable
  <2>1. e.seq \in active /\ e.seq \in Request
    BY <1>1, <1>2, <1>5 DEF Types
  <2> QED BY <1>5, <1>6, <2>1
<1>12. StreamsInStep'
  <2> SUFFICES ASSUME NEW c \in active \ canceled
               PROVE  made'[c] = Len(sent[c]) + IF Unrouted(c)' THEN 1 ELSE 0
    BY DEF StreamsInStep, clientVars
  <2>1. made[c] = Len(sent[c]) + 0 /\ made[c] \in Nat /\ c \in Request
    BY <1>1 DEF StreamsInStep, Unrouted, Types, Request
  <2>2. Unrouted(c)' <=> c \in o.out
    BY <1>4, <1>5 DEF Unrouted
  <2>3. Len(sent[c]) \in Nat
    <3>1. sent[c] \in Seq(SentType)
      BY DEF Types
    <3> QED BY <3>1
  <2>4. CASE c \in o.out
    <3>1. made'[c] = made[c] + 1 /\ made[c] = Len(sent[c])
      BY <1>5, <2>1, <2>3, <2>4
    <3> HIDE DEF CoreInv
    <3> QED BY <2>2, <2>4, <3>1
  <2>5. CASE c \notin o.out
    <3>1. made'[c] = made[c]
      BY <1>5, <2>1, <2>5
    <3> QED BY <2>1, <2>2, <2>3, <2>5, <3>1
  <2> QED BY <2>4, <2>5
<1>13. Explained'
  BY DEF Explained, Causes, Blamed, clientVars
<1> QED BY <1>7, <1>8, <1>9, <1>10, <1>11, <1>12, <1>13

(* A step that raises, before the engine moved or after it.  An event that *)
(* it stumbles over is of a text call or of a refused request.             *)
LEMMA StepFails ==
    ASSUME CoreInv, pc = "step", pc' = "fail", StepRaises, UNCHANGED events,
           UNCHANGED <<lock, text, clientVars, batch, active, counters>>
    PROVE  CoreInv'
<1> USE DEF CoreInv
<1>1. /\ lock = Worker /\ backend = "native" /\ batch = << >> /\ events = {}
      /\ decoders' = decoders
  BY DEF WorkerState, InSession, StepRaises
<1>2. /\ inEngine' \subseteq inEngine /\ made' \in [Request -> Nat]
      /\ \A r \in Request : r \notin inEngine => made'[r] = made[r]
      /\ tokenEvents' \subseteq tokenEvents
      /\ Blamed(error')
  <2>1. CASE UNCHANGED engineVars /\ error' = "run"
    BY <2>1 DEF engineVars, Blamed, Types
  <2>2. ASSUME NEW o \in Outcomes, Progress(o), tokenEvents' = {},
               NEW e \in tokenEvents \cup Produced(o),
               error' = IF e.seq \in decoders THEN "decode" ELSE e.seq
        PROVE  /\ inEngine' \subseteq inEngine /\ made' \in [Request -> Nat]
               /\ \A r \in Request : r \notin inEngine => made'[r] = made[r]
               /\ tokenEvents' \subseteq tokenEvents
               /\ Blamed(error')
    <3>1. /\ o.fin \subseteq o.out /\ o.out \subseteq inEngine
          /\ inEngine' = inEngine \ o.fin /\ made' \in [Request -> Nat]
          /\ \A r \in Request : made'[r] = IF r \in o.out THEN made[r] + 1 ELSE made[r]
          /\ \A f \in Produced(o) : f.seq \in o.out
      BY <2>2, StepFacts
    <3>2. ASSUME e.seq \in decoders PROVE Blamed(error')
      BY <2>2, <3>2 DEF Blamed
    <3>3. ASSUME e.seq \notin decoders PROVE Blamed(error')
      <4>1. e.seq \in Request
        BY <2>2, <3>1 DEF Types, EventType
      <4>2. e.seq \in Client => cause[e.seq] = "admit"
        BY <2>2, <3>1, <3>3 DEF Admitted
      <4> QED BY <2>2, <3>3, <4>1, <4>2 DEF Blamed, Request
    <3> QED BY <2>2, <3>1, <3>2, <3>3
  <2>3. PICK o, e : \/ UNCHANGED engineVars /\ error' = "run"
                    \/ /\ o \in Outcomes /\ Progress(o) /\ tokenEvents' = {}
                       /\ e \in tokenEvents \cup Produced(o)
                       /\ error' = IF e.seq \in decoders THEN "decode" ELSE e.seq
    BY DEF StepRaises
  <2> QED BY <2>1, <2>2, <2>3
<1>3. Types'
  BY <1>1, <1>2 DEF Types, InSession, clientVars
<1>4. WorkerState' /\ PlacesApart' /\ Counted'
  BY <1>1 DEF WorkerState, InSession, PlacesApart, Counted, CountsAgree, clientVars, counters
<1>5. Unanswered'
  <2>1. \A c \in pending' : answer'[c] = "none"
    BY DEF Unanswered, clientVars
  <2>2. ASSUME NEW c \in Client \ active', answer'[c] = "none" PROVE Untouched(c)'
    <3>1. Untouched(c) /\ sent' = sent /\ c \in Request
      BY <2>2 DEF Unanswered, clientVars, Request
    <3> QED BY <1>2, <3>1 DEF Untouched
  <2> QED BY <2>1, <2>2 DEF Unanswered
<1>6. Admitted'
  BY <1>1, <1>2 DEF Admitted, clientVars
<1>7. Routable' /\ StreamsInStep' /\ Explained'
  BY <1>1, <1>2 DEF Routable, StreamsInStep, Explained, Causes, Blamed, clientVars
<1> QED BY <1>3, <1>4, <1>5, <1>6, <1>7

(* A step of the engine returns or raises.                                 *)
LEMMA StepKeeps == CoreInv /\ Step => CoreInv'
<1> SUFFICES ASSUME CoreInv, Step PROVE CoreInv'
  OBVIOUS
<1>1. pc = "step" /\ UNCHANGED <<lock, text, clientVars, batch, active, counters>>
  BY DEF Step
<1>2. ASSUME NEW o \in Outcomes, StepDynamic(o), events' = tokenEvents \cup Produced(o),
             pc' = "route", UNCHANGED error
      PROVE  CoreInv'
  <2>1. events' = Produced(o) \cup tokenEvents
    BY <1>2
  <2> QED BY <1>1, <1>2, <2>1, StepReturns
<1>3. ASSUME StepRaises, pc' = "fail", UNCHANGED events PROVE CoreInv'
  BY <1>1, <1>3, StepFails
<1> QED BY <1>2, <1>3 DEF Step

(* The items that Route puts: one for each request with an event.          *)
LEMMA RoutedFacts ==
    ASSUME Types, Routable
    PROVE  /\ DOMAIN Routed = { c \in Client : Unrouted(c) }
           /\ \A c \in DOMAIN Routed :
                /\ c \in active
                /\ Routed[c] = Service!Item(made[c], c \in Ended)
                /\ Routed[c] \in SentType
           /\ Ended \subseteq DOMAIN Routed
           /\ \A c \in Ended : c \notin inEngine \cup decoders
<1>1. \A e \in events : e.seq \in active /\ e.seq \in Client /\ e.finished \in BOOLEAN
  BY DEF Types, Routable, EventType
<1>2. DOMAIN Routed = { e.seq : e \in events } /\ DOMAIN Routed = { c \in Client : Unrouted(c) }
  BY <1>1 DEF Routed, Unrouted
<1>3. ASSUME NEW c \in { e.seq : e \in events }
      PROVE  /\ c \in active
             /\ Routed[c] = Service!Item(made[c], c \in Ended)
             /\ Routed[c] \in SentType
  <2> DEFINE ev == CHOOSE e \in events : e.seq = c
  <2>1. ev \in events /\ ev.seq = c
    BY <1>3
  <2>2. Routed[c] = Service!Item(ev.token, ev.finished)
    BY DEF Routed
  <2> HIDE DEF ev
  <2>3. c \in active /\ ev.token = made[c] /\ c \in Request /\ ev.finished \in BOOLEAN
    BY <1>1, <2>1 DEF Routable, Request
  <2>4. ev.finished <=> c \in Ended
    BY <2>1 DEF Ended, Routable
  <2>5. made[c] \in Nat /\ (c \in Ended) \in BOOLEAN /\ ev.finished = (c \in Ended)
    BY <2>3, <2>4 DEF Types
  <2> QED BY <2>2, <2>3, <2>5 DEF SentType, Service!Item
<1>4. Ended \subseteq { e.seq : e \in events } /\ \A c \in Ended : c \notin inEngine \cup decoders
  BY DEF Ended, Routable
<1> QED BY <1>2, <1>3, <1>4

(* Routing brings every stream level with the engine again, and the        *)
(* requests it ends have left the engine and their decoders before.        *)
LEMMA RouteKeeps == CoreInv /\ Route => CoreInv'
<1> SUFFICES ASSUME CoreInv, Route PROVE CoreInv'
  OBVIOUS
<1> USE DEF CoreInv
<1>1. /\ pc = "route" /\ pc' = "bottom" /\ active' = active \ Ended /\ events' = {}
      /\ Settle(Ended, {}, "none", Routed) /\ lock = Worker /\ backend = "native" /\ batch = << >>
      /\ UNCHANGED <<engineVars, backendVars, waiting, batch>>
  BY DEF Route, WorkerState, InSession
<1>2. /\ DOMAIN Routed = { c \in Client : Unrouted(c) }
      /\ \A c \in DOMAIN Routed : c \in active /\ Routed[c] \in SentType
      /\ Ended \subseteq DOMAIN Routed
      /\ \A c \in Ended : c \notin inEngine \cup decoders
  BY RoutedFacts
<1>3. Ended \subseteq active /\ Ended \subseteq Client /\ Ended \subseteq pending
  BY <1>2 DEF PlacesApart
<1> HIDE DEF Routed, Ended
<1>4. /\ pending' = pending \ Ended
      /\ answer' \in [Client -> {"none", "result", "error"}]
      /\ sent' \in [Client -> Seq(SentType)]
      /\ \A c \in Client :
           /\ answer'[c] = IF c \in Ended THEN "result" ELSE answer[c]
           /\ sent'[c] = IF c \in DOMAIN Routed \ canceled
                         THEN Append(sent[c], Routed[c]) ELSE sent[c]
           /\ cause'[c] = cause[c]
      /\ canceled' = canceled /\ shutdown' = shutdown /\ backend' = backend
  BY <1>1, <1>2, <1>3, SettleFacts
<1>5. Types'
  BY <1>1, <1>4 DEF Types, InSession, engineVars, backendVars
<1>6. WorkerState'
  BY <1>1, <1>4 DEF WorkerState, InSession, backendVars
<1>7. PlacesApart'
  BY <1>1, <1>3, <1>4 DEF PlacesApart
<1>8. Counted'
  BY <1>1, <1>3, SettleCounts
<1>9. Unanswered'
  <2>1. \A c \in pending' : answer'[c] = "none"
    BY <1>4 DEF Unanswered, Types
  <2>2. ASSUME NEW c \in Client \ active', answer'[c] = "none" PROVE Untouched(c)'
    <3>1. c \notin Ended /\ c \notin active
      BY <1>1, <1>4, <2>2
    <3>2. Untouched(c) /\ sent'[c] = sent[c]
      BY <1>2, <1>4, <2>2, <3>1 DEF Unanswered
    <3> QED BY <1>1, <3>2 DEF Untouched, engineVars
  <2> QED BY <2>1, <2>2 DEF Unanswered
<1>10. Admitted'
  <2>1. decoders \subseteq active \ Ended
    BY <1>2 DEF Admitted
  <2>2. \A c \in (inEngine \cap Client) \ active' : answer'[c] = "error" /\ cause'[c] = "admit"
    BY <1>1, <1>2, <1>4 DEF Admitted
  <2> QED BY <1>1, <1>4, <2>1, <2>2 DEF Admitted, engineVars, backendVars
<1>11. Routable'
  BY <1>1 DEF Routable
<1>12. StreamsInStep'
  <2> SUFFICES ASSUME NEW c \in active' \ canceled'
               PROVE  made[c] = Len(sent'[c]) + 0
    BY <1>1 DEF StreamsInStep, Unrouted, engineVars
  <2>1. c \in active \ canceled /\ c \in Client
    BY <1>1, <1>4 DEF Types
  <2>2. sent[c] \in Seq(SentType)
    BY <2>1 DEF Types
  <2>3. CASE Unrouted(c)
    <3>1. made[c] = Len(sent[c]) + 1
      BY <1>1, <2>1, <2>3 DEF StreamsInStep
    <3>2. sent'[c] = Append(sent[c], Routed[c])
      BY <1>2, <1>4, <2>1, <2>3
    <3>3. Len(sent'[c]) = Len(sent[c]) + 1 /\ Len(sent[c]) \in Nat
      BY <2>2, <3>2
    <3> HIDE DEF CoreInv
    <3> QED BY <3>1, <3>3
  <2>4. CASE ~ Unrouted(c)
    <3>1. made[c] = Len(sent[c]) + 0
      BY <1>1, <2>1, <2>4 DEF StreamsInStep
    <3>2. sent'[c] = sent[c]
      BY <1>2, <1>4, <2>1, <2>4
    <3> QED BY <3>1, <3>2
  <2> QED BY <2>3, <2>4
<1>13. Explained'
  <2>1. Causes'
    BY <1>1, <1>3, SettleCauses DEF Explained
  <2> QED BY <1>1, <2>1 DEF Explained
<1> QED BY <1>5, <1>6, <1>7, <1>8, <1>9, <1>10, <1>11, <1>12, <1>13

(* Failing the session takes all it has out of the engine.                 *)
LEMMA FailActiveKeeps == CoreInv /\ FailActive => CoreInv'
<1> SUFFICES ASSUME CoreInv, FailActive PROVE CoreInv'
  OBVIOUS
<1> DEFINE errors == [ c \in active |-> Service!Error ]
<1> USE DEF CoreInv
<1>1. /\ pc = "fail" /\ pc' = "leave" /\ active' = {} /\ Settle({}, active, error, errors)
      /\ lock = Worker /\ backend = "native" /\ batch = << >> /\ events = {}
      /\ active \subseteq pending /\ active \subseteq Client /\ decoders \subseteq active
      /\ AbortDynamic(active)
      /\ UNCHANGED <<lock, text, waiting, batch, events>>
  BY DEF FailActive, Fail, WorkerState, InSession, Admitted, PlacesApart, Types
<1>2. inEngine' = inEngine \ active /\ decoders' = {} /\ made' = made /\ tokenEvents' = tokenEvents
  BY <1>1 DEF AbortDynamic, AbortSequences, Aborted, Admitted
<1>3. DOMAIN errors = active /\ \A c \in active : errors[c] \in SentType
  BY DEF SentType, Service!Error
<1> HIDE DEF errors
<1>4. /\ pending' = pending \ active
      /\ \A c \in Client :
           /\ answer'[c] = IF c \in active THEN "error" ELSE answer[c]
           /\ c \notin active => sent'[c] = sent[c] /\ cause'[c] = cause[c]
      /\ answer' \in [Client -> {"none", "result", "error"}]
      /\ sent' \in [Client -> Seq(SentType)]
      /\ canceled' = canceled /\ backend' = backend
  BY <1>1, <1>3, SettleFacts
<1>5. Types'
  BY <1>1, <1>2, <1>4 DEF Types, InSession
<1>6. WorkerState' /\ PlacesApart'
  BY <1>1, <1>2, <1>4 DEF WorkerState, InSession, PlacesApart
<1>7. Counted'
  BY <1>1, SettleCounts
<1>8. Unanswered'
  <2>1. \A c \in pending' : answer'[c] = "none"
    BY <1>4 DEF Unanswered, Types
  <2>2. ASSUME NEW c \in Client, answer'[c] = "none" PROVE Untouched(c)'
    <3>1. c \notin active
      BY <1>4, <2>2
    <3>2. Untouched(c) /\ sent'[c] = sent[c]
      BY <1>4, <2>2, <3>1 DEF Unanswered
    <3> QED BY <1>2, <3>2 DEF Untouched
  <2> QED BY <2>1, <2>2 DEF Unanswered
<1>9. Admitted'
  BY <1>1, <1>2, <1>4 DEF Admitted
<1>10. Routable' /\ StreamsInStep' /\ Explained'
  <2>1. Causes'
    BY <1>1, SettleCauses DEF Explained
  <2> QED BY <1>1, <1>2, <2>1 DEF Routable, StreamsInStep, Explained
<1> QED BY <1>5, <1>6, <1>7, <1>8, <1>9, <1>10

(* The lock is given back when nothing is active.                          *)
LEMMA LeaveKeeps == CoreInv /\ Leave => CoreInv'
<1> SUFFICES ASSUME CoreInv, Leave PROVE CoreInv'
  OBVIOUS
<1> USE DEF CoreInv, Leave, engineVars, clientVars, counters
<1>1. Types' /\ PlacesApart'
  BY DEF Types, PlacesApart, InSession
<1>2. WorkerState'
  <2>1. active = {} /\ decoders = {} /\ lock = Worker
    BY DEF WorkerState, InSession, Admitted
  <2>2. Worker # Free /\ \A t \in Text : t # Free /\ t # Worker
    BY HolderAssumption DEF Free, Worker
  <2> QED BY <2>1, <2>2 DEF WorkerState, InSession
<1>3. Counted' /\ Unanswered' /\ Admitted'
  BY DEF Counted, CountsAgree, Unanswered, Untouched, Admitted
<1>4. Routable' /\ StreamsInStep' /\ Explained'
  BY DEF Routable, StreamsInStep, Unrouted, Explained, Causes, Blamed
<1> QED BY <1>1, <1>2, <1>3, <1>4

(***************************************************************************)
(* The text calls.                                                         *)
(***************************************************************************)

(* A text call steps the engine only outside sessions, when no multimodal  *)
(* request waits for a token.                                              *)
LEMMA TextKeeps ==
    ASSUME CoreInv, NEW t \in Text, TextCaller(t)
    PROVE  CoreInv'
<1> USE DEF CoreInv
<1>1. UNCHANGED <<waiting, pending, canceled, answer, sent, shutdown, backend, cause,
                  pc, batch, active, events, submitted, completed, failed>>
  BY DEF TextCaller, clientVars, workerVars, counters
<1>2. /\ t \notin Client /\ t \in Request /\ Free # Worker
      /\ \A u \in Text : u # Free /\ u # Worker
  BY EngineAssumption, HolderAssumption DEF Request, Free, Worker
<1>3. decoders' = decoders /\ error' = error
  BY DEF TextCaller, TextNext, TextCall, TextAcquire, TextStep, TextRaises
<1>4. /\ text' \in [Text -> {"idle", "waiting", "draining", "returned", "raised"}]
      /\ lock' \in {Free, Worker} \cup Text
      /\ lock' = Worker <=> lock = Worker
      /\ \A u \in Text : text'[u] = "draining" <=> lock' = u
  <2>1. CASE TextCall(t)
    BY <1>2, <2>1 DEF TextCall, Types, WorkerState
  <2>2. CASE TextAcquire(t)
    BY <1>2, <2>2 DEF TextAcquire, Types, WorkerState
  <2>3. CASE TextStep(t)
    <3>1. /\ text[t] = "draining"
          /\ \/ text' = [text EXCEPT ![t] = "returned"] /\ lock' = Free
             \/ UNCHANGED <<text, lock>>
      BY <2>3 DEF TextStep
    <3> QED BY <1>2, <3>1 DEF Types, WorkerState
  <2>4. CASE TextRaises(t)
    BY <1>2, <2>4 DEF TextRaises, Types, WorkerState
  <2> QED BY <2>1, <2>2, <2>3, <2>4 DEF TextCaller, TextNext
<1>5. \/ UNCHANGED engineVars
      \/ inEngine' = inEngine \cup {t} /\ UNCHANGED <<made, tokenEvents>>
      \/ \E o \in Outcomes : /\ text[t] = "draining" /\ Progress(o)
                             /\ tokenEvents' = tokenEvents \cup Produced(o)
  BY DEF TextCaller, TextNext, TextCall, TextAcquire, TextStep, TextRaises, AddSequences
<1>6. /\ inEngine' \subseteq Request /\ inEngine' \cap Client \subseteq inEngine
      /\ made' \in [Request -> Nat] /\ tokenEvents' \subseteq EventType
      /\ active # {} => UNCHANGED <<made, tokenEvents>>
      /\ \A c \in Client : Untouched(c) => Untouched(c)'
      /\ \A e \in tokenEvents' :
           e.seq \notin pending /\ (e.seq \in Client => cause[e.seq] = "admit")
  <2>1. CASE UNCHANGED engineVars
    BY <1>1, <2>1 DEF engineVars, Types, Untouched, Admitted
  <2>2. CASE inEngine' = inEngine \cup {t} /\ UNCHANGED <<made, tokenEvents>>
    BY <1>1, <1>2, <2>2 DEF Types, Untouched, Admitted
  <2>3. ASSUME NEW o \in Outcomes, text[t] = "draining", Progress(o),
               tokenEvents' = tokenEvents \cup Produced(o)
        PROVE  /\ inEngine' \subseteq Request /\ inEngine' \cap Client \subseteq inEngine
               /\ made' \in [Request -> Nat] /\ tokenEvents' \subseteq EventType
               /\ active # {} => UNCHANGED <<made, tokenEvents>>
               /\ \A c \in Client : Untouched(c) => Untouched(c)'
               /\ \A e \in tokenEvents' :
                    e.seq \notin pending /\ (e.seq \in Client => cause[e.seq] = "admit")
    <3>1. active = {}
      BY <1>2, <2>3 DEF WorkerState
    <3>2. /\ o.fin \subseteq o.out /\ o.out \subseteq inEngine
          /\ inEngine' = inEngine \ o.fin /\ inEngine' \subseteq Request
          /\ made' \in [Request -> Nat] /\ Produced(o) \subseteq EventType
          /\ \A r \in Request : made'[r] = IF r \in o.out THEN made[r] + 1 ELSE made[r]
          /\ \A e \in Produced(o) : e.seq \in o.out
      BY <2>3, StepFacts
    <3>3. ASSUME NEW e \in Produced(o)
          PROVE  e.seq \notin pending /\ (e.seq \in Client => cause[e.seq] = "admit")
      <4>1. e.seq \in inEngine
        BY <3>2
      <4>2. e.seq \in Client => answer[e.seq] = "error" /\ cause[e.seq] = "admit"
        BY <3>1, <4>1 DEF Admitted
      <4> QED BY <4>2 DEF Unanswered, Types
    <3>4. ASSUME NEW c \in Client, Untouched(c) PROVE Untouched(c)'
      <4>1. c \notin o.out /\ c \in Request /\ sent' = sent
        BY <1>1, <3>2, <3>4 DEF Untouched, Request
      <4> QED BY <2>3, <3>2, <3>4, <4>1 DEF Untouched
    <3>5. \A e \in tokenEvents :
            e.seq \notin pending /\ (e.seq \in Client => cause[e.seq] = "admit")
      BY DEF Admitted
    <3>6. tokenEvents' \subseteq EventType /\ inEngine' \cap Client \subseteq inEngine
      BY <2>3, <3>2 DEF Types
    <3> QED BY <2>3, <3>1, <3>2, <3>3, <3>4, <3>5, <3>6
  <2> QED BY <1>5, <2>1, <2>2, <2>3
<1>7. Types'
  BY <1>1, <1>3, <1>4, <1>6 DEF Types
<1>8. WorkerState'
  BY <1>1, <1>3, <1>4 DEF WorkerState
<1>9. PlacesApart' /\ Counted' /\ Unanswered'
  BY <1>1, <1>6 DEF PlacesApart, Counted, CountsAgree, Unanswered
<1>10. Admitted'
  <2>1. active' \cap inEngine' \subseteq decoders'
    BY <1>1, <1>3, <1>6 DEF Admitted, Types
  <2> QED BY <1>1, <1>3, <1>4, <1>6, <2>1 DEF Admitted
<1>11. Routable'
  <2>1. \A e \in events : made'[e.seq] = made[e.seq] /\ (e.seq \notin inEngine => e.seq \notin inEngine')
    BY <1>6 DEF Routable, Types
  <2> QED BY <1>1, <1>3, <2>1 DEF Routable
<1>12. StreamsInStep'
  BY <1>1, <1>6 DEF StreamsInStep, Unrouted
<1>13. Explained'
  BY <1>1, <1>3 DEF Explained, Causes, Blamed
<1> QED BY <1>7, <1>8, <1>9, <1>10, <1>11, <1>12, <1>13

(* Every step keeps the invariant.                                         *)
LEMMA NextCore == CoreInv /\ [Next]_vars => CoreInv'
<1> SUFFICES ASSUME CoreInv, [Next]_vars PROVE CoreInv'
  OBVIOUS
<1>1. CASE UNCHANGED vars
  <2> USE <1>1 DEF vars, engineVars, backendVars, clientVars, workerVars, counters, CoreInv
  <2>1. Types' /\ WorkerState' /\ PlacesApart'
    BY DEF Types, WorkerState, PlacesApart
  <2>2. Counted' /\ Unanswered' /\ Admitted'
    BY DEF Counted, CountsAgree, Unanswered, Untouched, Admitted
  <2>3. Routable' /\ StreamsInStep' /\ Explained'
    BY DEF Routable, StreamsInStep, Unrouted, Explained, Causes, Blamed
  <2> QED BY <2>1, <2>2, <2>3
<1>2. CASE \E c \in Client : Enqueue(c) \/ GiveUp(c)
  BY <1>2, EnqueueKeeps, GiveUpKeeps
<1>3. CASE Shutdown
  BY <1>3, ShutdownKeeps
<1>4. CASE RunLoop
  BY <1>4, ExitKeeps, PopCoalescedKeeps, ExecuteKeeps, EnterSessionKeeps, AdmitBatchKeeps,
     AdmitFailsKeeps, TopKeeps, StepKeeps, RouteKeeps, BottomKeeps, FailActiveKeeps, LeaveKeeps
     DEF RunLoop
<1>5. CASE \E t \in Text : TextCaller(t)
  BY <1>5, TextKeeps
<1> QED BY <1>1, <1>2, <1>3, <1>4, <1>5 DEF Next

(* The inductive invariant holds in every reachable state: the places, the *)
(* counters and the streams of requests, the engine and the decoders stay  *)
(* in step with each other through batching, sessions and text calls.      *)
THEOREM CoreInvariant == Spec => []CoreInv
<1>1. Init => CoreInv
  BY InitCore
<1>2. CoreInv /\ [Next]_vars => CoreInv'
  BY NextCore
<1> QED BY <1>1, <1>2, PTL DEF Spec

(***************************************************************************)
(* What follows from it.                                                   *)
(***************************************************************************)

(* No request is lost or held twice on its way through the batcher's       *)
(* queue, a popped batch and the session: together they hold what _pending *)
(* does, for any number of requests and any batching policy.               *)
THEOREM RequestsInOnePlace == Spec => []PendingPlaces
<1>1. CoreInv => PendingPlaces
  <2> SUFFICES ASSUME CoreInv PROVE PendingPlaces
    OBVIOUS
  <2> DEFINE W == Range(waiting)
             B == Range(batch)
  <2>1. /\ IsFiniteSet(W) /\ Cardinality(W) = Len(waiting) /\ Len(waiting) \in Nat
        /\ IsFiniteSet(B) /\ Cardinality(B) = Len(batch) /\ Len(batch) \in Nat
    <3>1. waiting \in Seq(Client) /\ batch \in Seq(Client) /\ Injective(waiting) /\ Injective(batch)
      BY DEF CoreInv, Types, PlacesApart
    <3> QED BY <3>1, RangeSize
  <2>2. /\ W \cap B = {} /\ (W \cup B) \cap active = {} /\ pending = (W \cup B) \cup active
        /\ IsFiniteSet(pending)
    BY DEF CoreInv, PlacesApart, Counted
  <2> HIDE DEF W, B
  <2>3. IsFiniteSet(active) /\ Cardinality(active) \in Nat
    <3>1. active \in SUBSET pending
      BY <2>2
    <3> QED BY <2>2, <3>1, FS_Subset, FS_CardinalityType
  <2>4. IsFiniteSet(W \cup B) /\ Cardinality(W \cup B) = Len(waiting) + Len(batch)
    <3>1. Cardinality(W \cap B) = 0
      BY <2>2, FS_EmptySet
    <3>2. /\ IsFiniteSet(W \cup B)
          /\ Cardinality(W \cup B) = Cardinality(W) + Cardinality(B) - Cardinality(W \cap B)
      BY <2>1, FS_Union
    <3> QED BY <2>1, <3>1, <3>2
  <2>5. Cardinality(pending) = Len(waiting) + Len(batch) + Cardinality(active)
    <3>1. Cardinality((W \cup B) \cap active) = 0
      BY <2>2, FS_EmptySet
    <3>2. Cardinality(pending)
            = Cardinality(W \cup B) + Cardinality(active) - Cardinality((W \cup B) \cap active)
      BY <2>2, <2>3, <2>4, FS_Union
    <3> QED BY <2>1, <2>3, <2>4, <3>1, <3>2
  <2> QED BY <2>2, <2>5 DEF PendingPlaces, W, B
<1> QED BY <1>1, CoreInvariant, PTL

(* A session that is over has left nothing of its own in the engine.       *)
THEOREM SessionsCleanUp == Spec => []SessionLeavesNothing
<1>1. CoreInv => SessionLeavesNothing
  <2> SUFFICES ASSUME CoreInv, lock # Worker
               PROVE  /\ decoders = {}
                      /\ \A c \in inEngine \cap Client : cause[c] = "admit"
                      /\ \A e \in tokenEvents : e.seq \in Client => cause[e.seq] = "admit"
    BY DEF SessionLeavesNothing
  <2>1. active = {} /\ decoders = {}
    BY DEF CoreInv, WorkerState
  <2> QED BY <2>1 DEF CoreInv, Admitted
<1> QED BY <1>1, CoreInvariant, PTL

(* With the engine to itself the serving core fails a request only with    *)
(* its own batch, for a fault in its own session, or on an event of a      *)
(* sequence that a batch refused at admission has left behind.  (Text      *)
(* calls break this: their events are left for the next session.)          *)
THEOREM FailuresHaveACause == ASSUME Text = {} PROVE Spec => []FailsOnlyOnFaults
<1>1. CoreInv => FailsOnlyOnFaults
  BY DEF CoreInv, Explained, Causes, Blamed, FailsOnlyOnFaults
<1> QED BY <1>1, CoreInvariant, PTL

-----------------------------------------------------------------------------
(***************************************************************************)
(* The core implements the service.                                        *)
(***************************************************************************)

StateOf(c) ==
    IF c \in pending THEN "open"
    ELSE CASE answer[c] = "none"   -> "new"
           [] answer[c] = "result" -> "answered"
           [] answer[c] = "error"  -> "failed"

(* A result comes with the last token, or alone from a backend that does   *)
(* not stream, an error with its report, and a request that goes on may    *)
(* have a token in between.                                                *)
Allowed(R, F, items) ==
    /\ R \subseteq pending /\ F \subseteq pending /\ R \cap F = {}
    /\ DOMAIN items \subseteq pending
    /\ \A c \in DOMAIN items : items[c] \in SentType
    /\ \A c \in R :
         \/ backend = "native" /\ c \in canceled
         \/ /\ backend = "native" /\ c \in DOMAIN items
            /\ items[c] = Service!Item(Len(sent[c]) + 1, TRUE)
         \/ backend # "native" /\ c \notin DOMAIN items
    /\ \A c \in F : c \in DOMAIN items /\ items[c] = Service!Error
    /\ \A c \in DOMAIN items \ (R \cup F) :
         /\ backend = "native"
         /\ c \notin canceled => items[c] = Service!Item(Len(sent[c]) + 1, FALSE)

(* Whatever the worker tells its clients moves open requests only, each as *)
(* the service allows.                                                     *)
LEMMA SettleAdvances ==
    ASSUME Types, Unanswered, NEW R, NEW F, NEW why, NEW items,
           Settle(R, F, why, items), Allowed(R, F, items)
    PROVE  Service!Advance
<1> USE DEF Allowed
<1>1. /\ pending' = pending \ (R \cup F)
      /\ sent' \in [Client -> Seq(SentType)]
      /\ \A c \in Client :
           /\ answer'[c] = IF c \in R THEN "result" ELSE IF c \in F THEN "error" ELSE answer[c]
           /\ sent'[c] = IF c \in DOMAIN items \ canceled
                         THEN Append(sent[c], items[c]) ELSE sent[c]
      /\ canceled' = canceled /\ backend' = backend
  <2>1. R \subseteq Client /\ F \subseteq Client /\ DOMAIN items \subseteq Client
    BY DEF Types
  <2> QED BY <2>1, SettleFacts
<1> DEFINE Told(c, item) == sent'[c] = IF c \in canceled THEN sent[c] ELSE Append(sent[c], item)
           next(c) == Len(sent[c]) + 1
<1>2. ASSUME NEW c \in Client, c \in pending
      PROVE  \/ StateOf(c)' = "open" /\ sent'[c] = sent[c]
             \/ StateOf(c)' = "open" /\ backend = "native" /\ Told(c, Service!Item(next(c), FALSE))
             \/ StateOf(c)' = "answered" /\ backend = "native" /\ Told(c, Service!Item(next(c), TRUE))
             \/ StateOf(c)' = "answered" /\ backend # "native" /\ sent'[c] = sent[c]
             \/ StateOf(c)' = "failed" /\ Told(c, Service!Error)
  <2>1. CASE c \in R
    <3>1. StateOf(c)' = "answered"
      BY <1>1, <2>1 DEF StateOf
    <3>2. CASE backend = "native"
      BY <1>1, <2>1, <3>1, <3>2
    <3>3. CASE backend # "native"
      BY <1>1, <2>1, <3>1, <3>3
    <3> QED BY <3>2, <3>3
  <2>2. CASE c \in F
    <3>1. StateOf(c)' = "failed"
      BY <1>1, <2>2 DEF StateOf
    <3> QED BY <1>1, <2>2, <3>1
  <2>3. CASE c \notin R \cup F
    <3>1. StateOf(c)' = "open"
      BY <1>1, <1>2, <2>3 DEF StateOf
    <3> QED BY <1>1, <2>3, <3>1
  <2> QED BY <2>1, <2>2, <2>3
<1>3. ASSUME NEW c \in Client, c \notin pending
      PROVE  StateOf(c)' = StateOf(c) /\ sent'[c] = sent[c]
  <2>1. c \notin R /\ c \notin F /\ c \notin DOMAIN items /\ c \notin pending'
    BY <1>1, <1>3
  <2>2. answer'[c] = answer[c] /\ sent'[c] = sent[c]
    BY <1>1, <2>1
  <2>3. answer[c] \in {"none", "result", "error"}
    BY DEF Types
  <2> QED BY <1>3, <2>1, <2>2, <2>3 DEF StateOf
<1>4. \A c \in Client : StateOf(c) = "open" <=> c \in pending
  BY DEF StateOf, Types
<1>5. DOMAIN sent' = Client
  BY <1>1
<1>6. ASSUME NEW c \in Client, c \in pending PROVE Service!Moves(c)
  BY <1>2, <1>6 DEF StateOf, Service!Moves, Service!Tells
<1> DEFINE S == [ c \in Client |-> StateOf(c) ]
<1>7. \A c \in Client : S[c] = StateOf(c) /\ S'[c] = StateOf(c)'
  OBVIOUS
<1>8. DOMAIN S' = Client
  OBVIOUS
<1> HIDE DEF S
<1>9. \A c \in Client : IF S[c] = "open" THEN Service!Moves(c)
                        ELSE S'[c] = S[c] /\ sent'[c] = sent[c]
  BY <1>3, <1>4, <1>6, <1>7
<1>10. UNCHANGED <<backend = "native", canceled>>
  BY <1>1
<1> QED BY <1>5, <1>8, <1>9, <1>10, Zenon DEF S, StateOf, Service!Advance


(* A request put into the batcher is a submission to the service.          *)
LEMMA EnqueueSubmits ==
    ASSUME CoreInv, NEW c \in Client, Enqueue(c)
    PROVE  Service!Submit(c)
<1> DEFINE S == [ d \in Client |-> StateOf(d) ]
<1>1. /\ c \notin pending /\ answer[c] = "none" /\ pending' = pending \cup {c}
      /\ UNCHANGED <<answer, sent, canceled, backend>>
  BY DEF Enqueue
<1>2. StateOf(c) = "new" /\ StateOf(c)' = "open"
  BY <1>1 DEF StateOf
<1>3. \A d \in Client \ {c} : StateOf(d)' = StateOf(d)
  <2> SUFFICES ASSUME NEW d \in Client \ {c} PROVE StateOf(d)' = StateOf(d)
    OBVIOUS
  <2>1. (d \in pending' <=> d \in pending) /\ answer'[d] = answer[d]
    BY <1>1
  <2>2. answer[d] \in {"none", "result", "error"}
    BY DEF CoreInv, Types
  <2> QED BY <2>1, <2>2 DEF StateOf
<1> HIDE DEF StateOf
<1>4. S[c] = "new" /\ S' = [S EXCEPT ![c] = "open"]
  BY <1>2, <1>3
<1>5. UNCHANGED <<backend = "native", sent, canceled>>
  BY <1>1
<1> HIDE DEF S
<1> QED BY <1>4, <1>5, Zenon DEF Service!Submit, S, StateOf

(* Giving up is the same for the core and for the service.                 *)
LEMMA GiveUpGivesUp ==
    ASSUME CoreInv, NEW c \in Client, GiveUp(c)
    PROVE  Service!GiveUp(c)
<1> DEFINE S == [ d \in Client |-> StateOf(d) ]
<1>1. /\ c \in pending /\ canceled' = canceled \cup {c}
      /\ UNCHANGED <<pending, answer, sent, backend>>
  BY DEF GiveUp
<1>2. S[c] = "open" /\ S' = S
  BY <1>1 DEF StateOf
<1>3. UNCHANGED <<backend = "native", sent>>
  BY <1>1
<1> HIDE DEF S
<1> QED BY <1>1, <1>2, <1>3, Zenon DEF Service!GiveUp, S, StateOf

(* The rest of the worker, the text calls and a shutdown are invisible.    *)
LEMMA Unseen ==
    ASSUME UNCHANGED <<pending, answer, sent, canceled, backend>>
    PROVE  UNCHANGED Service!serviceVars
  BY DEF Service!serviceVars

(* What the worker does is an advance of the service, or not seen by it.   *)
LEMMA WorkerAdvances ==
    ASSUME CoreInv, RunLoop
    PROVE  Service!Advance \/ UNCHANGED <<pending, answer, sent, canceled, backend>>
<1> USE DEF CoreInv
<1>t. Types /\ Unanswered
  OBVIOUS
<1>p. Range(batch) \subseteq pending /\ active \subseteq pending
  BY DEF PlacesApart
<1>e. ASSUME NEW F, NEW why, F \subseteq pending, Fail(F, why) PROVE Service!Advance
  <2> DEFINE errors == [ c \in F |-> Service!Error ]
  <2>1. Settle({}, F, why, errors)
    BY <1>e DEF Fail
  <2>2. DOMAIN errors = F /\ \A c \in F : errors[c] = Service!Error /\ errors[c] \in SentType
    BY DEF SentType, Service!Error
  <2>3. Allowed({}, F, errors)
    <3> HIDE DEF errors
    <3> QED BY <1>e, <2>2 DEF Allowed
  <2> HIDE DEF errors, CoreInv
  <2> QED BY <1>t, <2>1, <2>3, SettleAdvances
<1>r. ASSUME NEW R, R \subseteq pending, Finish(R),
             \/ backend = "native" /\ R \subseteq canceled
             \/ backend # "native"
      PROVE  Service!Advance
  <2> DEFINE none == << >>
  <2>1. Settle(R, {}, "none", none)
    BY <1>r DEF Finish
  <2>2. DOMAIN none = {}
    OBVIOUS
  <2>3. Allowed(R, {}, none)
    <3> HIDE DEF none
    <3> QED BY <1>r, <2>2 DEF Allowed
  <2> HIDE DEF none, CoreInv
  <2> QED BY <1>t, <2>1, <2>3, SettleAdvances
<1>1. CASE Exit \/ PopCoalescedBatch \/ EnterSession \/ AdmitBatch \/ Step \/ Leave
  BY <1>1 DEF Exit, PopCoalescedBatch, EnterSession, AdmitBatch, Step, Leave, clientVars
<1>2. CASE Execute
  <2>1. backend # "native"
    BY <1>2 DEF Execute, WorkerState
  <2>2. Finish(Range(batch)) \/ Fail(Range(batch), "run")
    BY <1>2 DEF Execute
  <2> QED BY <1>p, <1>e, <1>r, <2>1, <2>2
<1>3. CASE AdmitFails
  <2>1. Fail(Range(batch), "admit")
    BY <1>3 DEF AdmitFails
  <2> QED BY <1>p, <1>e, <2>1
<1>4. CASE Top \/ Bottom
  <2>1. Finish(ToAbort) /\ pc \in InSession
    BY <1>4 DEF Top, Bottom, AbortCanceled, InSession
  <2>2. ToAbort \subseteq pending /\ ToAbort \subseteq canceled /\ backend = "native"
    BY <1>p, <2>1 DEF ToAbort, WorkerState
  <2> QED BY <1>r, <2>1, <2>2
<1>5. CASE FailActive
  <2>1. Fail(active, error)
    BY <1>5 DEF FailActive
  <2> QED BY <1>p, <1>e, <2>1
<1>6. CASE Route
  <2>1. Settle(Ended, {}, "none", Routed) /\ pc = "route" /\ backend = "native"
    BY <1>6 DEF Route, WorkerState, InSession
  <2>2. /\ DOMAIN Routed = { c \in Client : Unrouted(c) }
        /\ \A c \in DOMAIN Routed :
             /\ c \in active
             /\ Routed[c] = Service!Item(made[c], c \in Ended)
             /\ Routed[c] \in SentType
        /\ Ended \subseteq DOMAIN Routed
    BY RoutedFacts
  <2> HIDE DEF Routed, Ended
  <2>3. ASSUME NEW c \in DOMAIN Routed, c \notin canceled
        PROVE  Routed[c] = Service!Item(Len(sent[c]) + 1, c \in Ended)
    <3>1. made[c] = Len(sent[c]) + 1
      BY <2>1, <2>2, <2>3 DEF StreamsInStep
    <3> QED BY <2>2, <3>1
  <2>4. \A c \in Ended : c \in canceled \/ Routed[c] = Service!Item(Len(sent[c]) + 1, TRUE)
    <3> SUFFICES ASSUME NEW c \in Ended, c \notin canceled
                 PROVE  Routed[c] = Service!Item(Len(sent[c]) + 1, TRUE)
      OBVIOUS
    <3>1. Routed[c] = Service!Item(Len(sent[c]) + 1, c \in Ended)
      BY <2>2, <2>3
    <3>2. (c \in Ended) = TRUE
      OBVIOUS
    <3> QED BY <3>1, <3>2
  <2>5. \A c \in DOMAIN Routed \ (Ended \cup {}) :
           c \notin canceled => Routed[c] = Service!Item(Len(sent[c]) + 1, FALSE)
    <3> SUFFICES ASSUME NEW c \in DOMAIN Routed, c \notin Ended, c \notin canceled
                 PROVE  Routed[c] = Service!Item(Len(sent[c]) + 1, FALSE)
      OBVIOUS
    <3>1. Routed[c] = Service!Item(Len(sent[c]) + 1, c \in Ended)
      BY <2>2, <2>3
    <3>2. (c \in Ended) = FALSE
      OBVIOUS
    <3> QED BY <3>1, <3>2
  <2>6. Ended \subseteq pending /\ DOMAIN Routed \subseteq pending
    BY <1>p, <2>2
  <2>7. Allowed(Ended, {}, Routed)
    BY <2>1, <2>2, <2>4, <2>5, <2>6 DEF Allowed
  <2>8. Service!Advance
    <3> HIDE DEF CoreInv
    <3> QED BY <1>t, <2>1, <2>7, SettleAdvances
  <2> QED BY <2>8
<1> QED BY <1>1, <1>2, <1>3, <1>4, <1>5, <1>6 DEF RunLoop

(* Every step of the core is a step of the service or a stutter.           *)
LEMMA StepImplements ==
    ASSUME CoreInv, [Next]_vars
    PROVE  [Service!ServiceNext]_(Service!serviceVars)
<1>1. CASE UNCHANGED vars
  BY <1>1, Unseen DEF vars, clientVars
<1>2. CASE \E c \in Client : Enqueue(c) \/ GiveUp(c)
  BY <1>2, EnqueueSubmits, GiveUpGivesUp DEF Service!ServiceNext
<1>3. CASE Shutdown
  BY <1>3, Unseen DEF Shutdown
<1>4. CASE RunLoop
  BY <1>4, WorkerAdvances, Unseen DEF Service!ServiceNext
<1>5. CASE \E t \in Text : TextCaller(t)
  BY <1>5, Unseen DEF TextCaller, clientVars
<1> QED BY <1>1, <1>2, <1>3, <1>4, <1>5 DEF Next

(* Through batching, cancellation, failure and sharing of the engine the   *)
(* core behaves as RequestService.tla promises its clients: each request   *)
(* is answered at most once, its stream is its tokens in order without a   *)
(* gap, and nothing follows the answer.                                    *)
THEOREM CoreImplementsService == Spec => ImplementsService
<1>1. Init => Service!ServiceInit
  <2> SUFFICES ASSUME Init PROVE Service!ServiceInit
    OBVIOUS
  <2> DEFINE S == [ c \in Client |-> StateOf(c) ]
  <2>1. pending = {} /\ canceled = {} /\ answer = [ c \in Client |-> "none" ]
    BY DEF Init
  <2>2. sent = [ c \in Client |-> << >> ]
    BY DEF Init
  <2>3. S = [ c \in Client |-> "new" ]
    BY <2>1 DEF StateOf
  <2>4. (backend = "native") \in BOOLEAN
    OBVIOUS
  <2> HIDE DEF S
  <2> QED BY <2>1, <2>2, <2>3, <2>4, Zenon DEF Service!ServiceInit, S, StateOf
<1>2. CoreInv /\ [Next]_vars => [Service!ServiceNext]_(Service!serviceVars)
  BY StepImplements
<1> QED BY <1>1, <1>2, CoreInvariant, PTL DEF Spec, ImplementsService, Service!Spec

-----------------------------------------------------------------------------
(***************************************************************************)
(* The HTTP service adds readers of the streams, and calls the core as any *)
(* client does.                                                            *)
(***************************************************************************)

(* The web server submits requests and gives them up, and nothing else.    *)
LEMMA HttpStep == [HttpNext]_webVars => [Next]_vars
<1> SUFFICES ASSUME [HttpNext]_webVars PROVE [Next]_vars
  OBVIOUS
<1>1. CASE UNCHANGED webVars
  BY <1>1 DEF webVars, coreVars
<1>2. ASSUME NEW c \in Client,
             Post(c) \/ Return(c) \/ EventLoop(c) \/ Receive(c) \/ Leaves(c)
      PROVE  Enqueue(c) \/ GiveUp(c) \/ UNCHANGED vars
  BY <1>2 DEF Post, Return, EventLoop, Begin, Ask, End, Receive, Leaves, Close, coreVars
<1>3. CASE Shutdown \/ RunLoop \/ \E t \in Text : TextCaller(t)
  BY <1>3 DEF Next
<1> QED BY <1>1, <1>2, <1>3 DEF HttpNext, Next

(* Under the HTTP service the core takes its own steps only.               *)
LEMMA HttpIsCore == HttpSpec => Spec
<1>1. HttpInit => Init
  BY DEF HttpInit
<1> QED BY <1>1, HttpStep, PTL DEF HttpSpec, Spec

(* The counters of /metrics account for every request once, whoever uses   *)
(* the service and whatever fails.                                         *)
THEOREM EveryRequestCounted == HttpSpec => []CountsAgree
<1>1. CoreInv => CountsAgree
  BY DEF CoreInv, Counted
<1> QED BY <1>1, HttpIsCore, CoreInvariant, PTL

(* What a session leaves in the engine is what it was refused admission    *)
(* with: sequences of requests that have been told so.                     *)
THEOREM OnlyRefusedStayBehind == HttpSpec => []LeftBehind
<1>1. CoreInv => LeftBehind
  <2> SUFFICES ASSUME CoreInv, lock # Worker, NEW c \in inEngine \cap Client
               PROVE  answer[c] = "error" /\ cause[c] = "admit" /\ c \notin decoders
    BY DEF LeftBehind
  <2>1. active = {} /\ decoders = {}
    BY DEF CoreInv, WorkerState
  <2> QED BY <2>1 DEF CoreInv, Admitted
<1> QED BY <1>1, HttpIsCore, CoreInvariant, PTL

-----------------------------------------------------------------------------
(***************************************************************************)
(* The chunks of a stream.                                                 *)
(***************************************************************************)

(* A request makes at most MaxTokens tokens, and ends with that one.       *)
Bounded(c) == made[c] <= MaxTokens /\ (c \in inEngine => made[c] < MaxTokens)

(* What a client was put is its tokens by number, and an end only with the *)
(* last token there will be.                                               *)
Streamed(c) ==
    \A i \in 1..Len(sent[c]) :
        /\ sent[c][i] # Service!Error => sent[c][i].token = i /\ i <= made[c]
        /\ sent[c][i].finished => answer[c] # "none"
        /\ sent[c][i].finished /\ sent[c][i] # Service!Error =>
             answer[c] = "result" /\ c \notin inEngine /\ made[c] = i

HttpTypes ==
    /\ DOMAIN http = Client /\ ended \subseteq Client
    /\ reader \in [Client -> {"idle", "blocked"}] /\ taken \in [Client -> Nat]
    /\ wire \in [Client -> Seq(Nat)]

(* The text of the first n tokens, and the whole answer.                   *)
Said(n) == <<Role>> \o Spoken(n)
Whole(c) == Said(made[c]) \o <<Stop>>

(* WireTellsCompletion for one client.                                     *)
WireOK(c) ==
    wire[c] # << >> =>
        \/ \E n \in 0..made[c] : wire[c] = Said(n)
        \/ /\ wire[c] = Whole(c) \/ wire[c] = Whole(c) \o <<Done>>
           /\ answer[c] = "result" /\ c \notin inEngine

(* The generator has sent the chunks of what its thread has taken, and the *)
(* thread takes no more once it has seen the end.                          *)
ReaderOK(c) ==
    /\ taken[c] <= Len(sent[c])
    /\ http[c] \in {"new", "wait", "head", "refused", "returned"} =>
         taken[c] = 0 /\ reader[c] = "idle" /\ c \notin ended /\ wire[c] = << >>
    /\ http[c] = "open" /\ c \notin ended => wire[c] = Said(taken[c])
    /\ http[c] = "open" /\ c \in ended =>
         /\ reader[c] = "idle" /\ wire[c] = Whole(c)
         /\ answer[c] = "result" /\ c \notin inEngine

HttpInv ==
    /\ HttpTypes
    /\ \A c \in Client : Bounded(c) /\ Streamed(c) /\ WireOK(c) /\ ReaderOK(c)

(* What a step does to the engine: new sequences of the worker are those   *)
(* of requests that have made nothing yet, or it is a step of the engine.  *)
LEMMA EngineMoves ==
    ASSUME CoreInv, [Next]_vars
    PROVE  \/ /\ made' = made
              /\ \A c \in inEngine' \cap Client :
                   c \in inEngine \/ (c \in pending /\ made[c] = 0)
           \/ \E o \in Outcomes : Progress(o)
<1> USE DEF CoreInv
<1>1. ASSUME UNCHANGED engineVars PROVE made' = made /\ inEngine' = inEngine
  BY <1>1 DEF engineVars
<1>2. CASE UNCHANGED vars \/ Shutdown \/ \E c \in Client : Enqueue(c) \/ GiveUp(c)
  BY <1>1, <1>2 DEF vars, Shutdown, Enqueue, GiveUp
<1>3. CASE Exit \/ PopCoalescedBatch \/ Execute \/ EnterSession \/ Leave \/ Route
  BY <1>1, <1>3 DEF Exit, PopCoalescedBatch, Execute, EnterSession, Leave, Route
<1>4. ASSUME NEW R, R \subseteq Range(batch), AddSequences(R)
      PROVE  /\ made' = made
             /\ \A c \in inEngine' \cap Client :
                  c \in inEngine \/ (c \in pending /\ made[c] = 0)
  <2>1. \A c \in Range(batch) : c \in pending /\ c \in Client \ active /\ made[c] = 0
    <3>1. \A c \in Range(batch) : c \in pending /\ c \in Client \ active
      BY DEF PlacesApart, Types
    <3> QED BY <3>1 DEF Unanswered, Untouched
  <2> QED BY <1>4, <2>1 DEF AddSequences
<1>5. CASE AdmitBatch
  BY <1>4, <1>5 DEF AdmitBatch, AdmitChatBatch
<1>6. CASE AdmitFails
  <2>1. PICK k \in 0..(Len(batch) - 1) : AddSequences(Range(SubSeq(batch, 1, k)))
    BY <1>6 DEF AdmitFails
  <2>2. Len(batch) \in Nat /\ k \in 0..Len(batch) /\ batch \in Seq(Client)
    BY DEF Types
  <2>3. Range(SubSeq(batch, 1, k)) \subseteq Range(batch)
    BY <2>2, SplitFacts
  <2> QED BY <1>4, <2>1, <2>3
<1>7. CASE Top \/ Bottom \/ FailActive
  BY <1>7 DEF Top, Bottom, FailActive, AbortCanceled, AbortDynamic, AbortSequences
<1>8. CASE Step
  BY <1>1, <1>8 DEF Step, StepDynamic, StepRaises
<1>9. ASSUME NEW t \in Text, TextCaller(t)
      PROVE  \/ made' = made /\ inEngine' \cap Client = inEngine \cap Client
             \/ \E o \in Outcomes : Progress(o)
  <2>1. t \notin Client
    BY EngineAssumption
  <2>2. CASE TextAcquire(t)
    BY <2>1, <2>2 DEF TextAcquire, AddSequences
  <2>3. CASE TextCall(t) \/ TextRaises(t)
    BY <1>1, <2>3 DEF TextCall, TextRaises
  <2>4. CASE TextStep(t)
    BY <2>4 DEF TextStep
  <2> QED BY <1>9, <2>2, <2>3, <2>4 DEF TextCaller, TextNext
<1> QED BY <1>2, <1>3, <1>5, <1>6, <1>7, <1>8, <1>9 DEF Next, RunLoop

(* For one client: its tokens only grow, within the bound, and only while  *)
(* its sequence is in the engine; only a pending request gets one.         *)
LEMMA EngineOfClient ==
    ASSUME CoreInv, [Next]_vars, NEW c \in Client
    PROVE  /\ made[c] \in Nat /\ made'[c] \in Nat /\ made[c] <= made'[c]
           /\ c \notin pending /\ c \notin inEngine => c \notin inEngine' /\ made'[c] = made[c]
           /\ Bounded(c) => Bounded(c)'
<1>1. Types /\ c \in Request /\ made[c] \in Nat
  BY DEF CoreInv, Types, Request
<1>2. CASE /\ made' = made
           /\ c \in inEngine' => c \in inEngine \/ (c \in pending /\ made[c] = 0)
  BY <1>1, <1>2, EngineAssumption DEF Bounded
<1>3. ASSUME NEW o \in Outcomes, Progress(o)
      PROVE  /\ made'[c] \in Nat /\ made[c] <= made'[c]
             /\ c \notin pending /\ c \notin inEngine => c \notin inEngine' /\ made'[c] = made[c]
             /\ Bounded(c) => Bounded(c)'
  <2>1. /\ o.fin \subseteq o.out /\ o.out \subseteq inEngine /\ inEngine' = inEngine \ o.fin
        /\ made'[c] = IF c \in o.out THEN made[c] + 1 ELSE made[c]
    BY <1>1, <1>3, StepFacts
  <2>2. c \in o.out /\ made[c] + 1 = MaxTokens => c \in o.fin
    BY DEF Outcomes
  <2> QED BY <1>1, <2>1, <2>2, EngineAssumption DEF Bounded
<1> QED BY <1>1, <1>2, <1>3, EngineMoves

(* What a step does to a client: nothing it would see, an error, or the    *)
(* token that its sequence has just made.                                  *)
Hears(c) ==
    \/ sent'[c] = sent[c] /\ (answer'[c] = answer[c] \/ answer[c] = "none")
    \/ answer[c] = "none" /\ answer'[c] = "error" /\ sent'[c] = Append(sent[c], Service!Error)
    \/ \E fin \in BOOLEAN :
         /\ answer[c] = "none" /\ sent'[c] = Append(sent[c], Service!Item(Len(sent[c]) + 1, fin))
         /\ made[c] = Len(sent[c]) + 1 /\ made' = made /\ inEngine' = inEngine
         /\ fin => answer'[c] = "result" /\ c \notin inEngine
         /\ ~fin => answer'[c] = answer[c]
LEMMA ClientsHear ==
    ASSUME CoreInv, [Next]_vars, NEW c \in Client
    PROVE  Hears(c)
<1> USE DEF CoreInv
<1>1. ASSUME UNCHANGED <<answer, sent>> PROVE Hears(c)
  BY <1>1 DEF Hears
<1>2. CASE \/ UNCHANGED vars \/ Shutdown \/ \E d \in Client : Enqueue(d) \/ GiveUp(d)
           \/ \E t \in Text : TextCaller(t)
  BY <1>1, <1>2 DEF vars, clientVars, Shutdown, Enqueue, GiveUp, TextCaller
<1>3. CASE Exit \/ PopCoalescedBatch \/ EnterSession \/ AdmitBatch \/ Step \/ Leave
  BY <1>1, <1>3 DEF Exit, PopCoalescedBatch, EnterSession, AdmitBatch, Step, Leave, clientVars
<1>4. ASSUME NEW R, R \subseteq pending, Finish(R) PROVE Hears(c)
  <2> DEFINE none == << >>
  <2>1. Settle(R, {}, "none", none) /\ DOMAIN none = {}
    BY <1>4 DEF Finish
  <2> HIDE DEF none
  <2>2. R \subseteq Client /\ Types
    BY <1>4 DEF Types
  <2>3. sent'[c] = sent[c] /\ answer'[c] = IF c \in R THEN "result" ELSE answer[c]
    BY <2>1, <2>2, SettleFacts
  <2> QED BY <1>4, <2>3 DEF Hears, Unanswered
<1>5. ASSUME NEW F, NEW why, F \subseteq pending, Fail(F, why) PROVE Hears(c)
  <2> DEFINE errors == [ d \in F |-> Service!Error ]
  <2>1. /\ Settle({}, F, why, errors) /\ DOMAIN errors = F
        /\ \A d \in F : errors[d] = Service!Error /\ errors[d] \in SentType
    BY <1>5 DEF Fail, SentType, Service!Error
  <2> HIDE DEF errors
  <2>2. F \subseteq Client /\ Types
    BY <1>5 DEF Types
  <2>3. /\ sent'[c] = IF c \in F \ canceled THEN Append(sent[c], errors[c]) ELSE sent[c]
        /\ answer'[c] = IF c \in F THEN "error" ELSE answer[c]
    BY <2>1, <2>2, SettleFacts
  <2> QED BY <1>5, <2>1, <2>3 DEF Hears, Unanswered
<1>6. CASE Execute \/ AdmitFails \/ Top \/ Bottom \/ FailActive
  <2>1. Range(batch) \subseteq pending /\ active \subseteq pending
    BY DEF PlacesApart
  <2> QED BY <1>4, <1>5, <1>6, <2>1 DEF Execute, AdmitFails, Top, Bottom, AbortCanceled, ToAbort, FailActive
<1>7. CASE Route
  <2>1. Settle(Ended, {}, "none", Routed) /\ pc = "route" /\ UNCHANGED <<made, inEngine>>
    BY <1>7 DEF Route, engineVars
  <2>2. /\ DOMAIN Routed = { d \in Client : Unrouted(d) }
        /\ \A d \in DOMAIN Routed :
             /\ d \in active
             /\ Routed[d] = Service!Item(made[d], d \in Ended)
             /\ Routed[d] \in SentType
        /\ Ended \subseteq DOMAIN Routed
        /\ \A d \in Ended : d \notin inEngine \cup decoders
    BY RoutedFacts
  <2> HIDE DEF Routed, Ended
  <2>3. active \subseteq pending /\ DOMAIN Routed \subseteq Client /\ Ended \subseteq Client /\ Types
    BY <2>2 DEF PlacesApart
  <2>4. /\ sent'[c] = IF c \in DOMAIN Routed \ canceled THEN Append(sent[c], Routed[c]) ELSE sent[c]
        /\ answer'[c] = IF c \in Ended THEN "result" ELSE answer[c]
    BY <2>1, <2>2, <2>3, SettleFacts
  <2>5. c \in DOMAIN Routed => answer[c] = "none"
    BY <2>2, <2>3 DEF Unanswered
  <2>6. CASE c \in DOMAIN Routed \ canceled
    <3>1. made[c] = Len(sent[c]) + 1
      BY <2>1, <2>2, <2>6 DEF StreamsInStep
    <3>2. sent'[c] = Append(sent[c], Service!Item(Len(sent[c]) + 1, c \in Ended))
      BY <2>2, <2>4, <2>6, <3>1
    <3>3. (c \in Ended) \in BOOLEAN
      OBVIOUS
    <3>4. c \in Ended => answer'[c] = "result" /\ c \notin inEngine
      BY <2>2, <2>4
    <3>5. c \notin Ended => answer'[c] = answer[c]
      BY <2>4
    <3> QED BY <2>1, <2>5, <2>6, <3>1, <3>2, <3>3, <3>4, <3>5 DEF Hears
  <2>7. CASE c \notin DOMAIN Routed \ canceled
    BY <2>2, <2>4, <2>5, <2>7 DEF Hears
  <2> QED BY <2>6, <2>7
<1> QED BY <1>2, <1>3, <1>6, <1>7 DEF Next, RunLoop

(* A stream stays in order: what is added to it is the next token or the   *)
(* report of an error, and nothing follows an end.                         *)
LEMMA StreamedKept ==
    ASSUME CoreInv, [Next]_vars, NEW c \in Client, Streamed(c)
    PROVE  Streamed(c)'
<1>1. /\ sent[c] \in Seq(SentType) /\ Len(sent[c]) \in Nat
      /\ answer[c] # "none" => c \notin pending
  BY DEF CoreInv, Types, Unanswered
<1>2. /\ made[c] \in Nat /\ made'[c] \in Nat /\ made[c] <= made'[c]
      /\ c \notin pending /\ c \notin inEngine => c \notin inEngine' /\ made'[c] = made[c]
  BY EngineOfClient
<1>3. CASE sent'[c] = sent[c] /\ (answer'[c] = answer[c] \/ answer[c] = "none")
  BY <1>1, <1>2, <1>3 DEF Streamed
<1>4. ASSUME answer[c] = "none" PROVE \A i \in 1..Len(sent[c]) : ~ sent[c][i].finished
  BY <1>4 DEF Streamed
<1>5. ASSUME NEW item, sent'[c] = Append(sent[c], item)
      PROVE  /\ Len(sent'[c]) = Len(sent[c]) + 1 /\ sent'[c][Len(sent[c]) + 1] = item
             /\ \A i \in 1..Len(sent[c]) : sent'[c][i] = sent[c][i]
             /\ \A i \in 1..Len(sent[c]) + 1 : i \in 1..Len(sent[c]) \/ i = Len(sent[c]) + 1
  BY <1>1, <1>5
<1>6. CASE /\ answer[c] = "none" /\ answer'[c] = "error"
           /\ sent'[c] = Append(sent[c], Service!Error)
  <2> SUFFICES ASSUME NEW i \in 1..Len(sent[c]) + 1
               PROVE  /\ sent'[c][i] # Service!Error => sent'[c][i].token = i /\ i <= made'[c]
                      /\ sent'[c][i].finished => answer'[c] # "none"
                      /\ sent'[c][i].finished => sent'[c][i] = Service!Error
    BY <1>5, <1>6 DEF Streamed
  <2>1. CASE i \in 1..Len(sent[c])
    BY <1>1, <1>2, <1>4, <1>5, <1>6, <2>1 DEF Streamed
  <2>2. CASE i = Len(sent[c]) + 1
    BY <1>5, <1>6, <2>2
  <2> QED BY <1>5, <1>6, <2>1, <2>2
<1>7. ASSUME NEW fin \in BOOLEAN, answer[c] = "none",
             sent'[c] = Append(sent[c], Service!Item(Len(sent[c]) + 1, fin)),
             made[c] = Len(sent[c]) + 1, made' = made, inEngine' = inEngine,
             fin => answer'[c] = "result" /\ c \notin inEngine
      PROVE  Streamed(c)'
  <2> SUFFICES ASSUME NEW i \in 1..Len(sent[c]) + 1
               PROVE  /\ sent'[c][i] # Service!Error => sent'[c][i].token = i /\ i <= made'[c]
                      /\ sent'[c][i].finished =>
                           answer'[c] = "result" /\ c \notin inEngine' /\ made'[c] = i
    BY <1>5, <1>7 DEF Streamed
  <2>1. CASE i \in 1..Len(sent[c])
    BY <1>1, <1>2, <1>4, <1>5, <1>7, <2>1 DEF Streamed
  <2>2. CASE i = Len(sent[c]) + 1
    <3>1. sent'[c][i] = Service!Item(i, fin)
      BY <1>5, <1>7, <2>2
    <3>2. sent'[c][i].token = i /\ sent'[c][i].finished = fin
      BY <3>1 DEF Service!Item
    <3> QED BY <1>1, <1>7, <2>2, <3>2
  <2> QED BY <1>5, <1>7, <2>1, <2>2
<1> QED BY <1>3, <1>6, <1>7, ClientsHear DEF Hears

(* One more token adds its number, unless it adds no text.                 *)
LEMMA SpokenNext ==
    ASSUME NEW n \in Nat
    PROVE  /\ Spoken(n) \in Seq(Nat) /\ Range(Spoken(n)) \subseteq 1..n
           /\ Spoken(n + 1) = IF n + 1 \in Silent THEN Spoken(n) ELSE Append(Spoken(n), n + 1)
<1> DEFINE q == [ i \in 1..n |-> i ]
           p == [ i \in 1..n + 1 |-> i ]
<1>1. q \in Seq(Nat) /\ Range(q) = 1..n
  BY DEF Range
<1>2. p = Append(q, n + 1)
  OBVIOUS
<1>3. Spoken(n) = Keep(q, Nat \ Silent) /\ Spoken(n + 1) = Keep(p, Nat \ Silent)
  BY DEF Spoken
<1> HIDE DEF p, q
<1>4. Keep(q, Nat \ Silent) \in Seq(Nat) /\ Range(Keep(q, Nat \ Silent)) \subseteq Range(q)
  BY <1>1, KeepProperties
<1>5. n + 1 \in Nat
  OBVIOUS
<1>6. Keep(Append(q, n + 1), Nat \ Silent) =
        IF n + 1 \in Nat \ Silent THEN Append(Keep(q, Nat \ Silent), n + 1)
        ELSE Keep(q, Nat \ Silent)
  <2> DEFINE e == n + 1
             S == Nat \ Silent
  <2>1. e \in Nat
    OBVIOUS
  <2> HIDE DEF e, S
  <2>2. Keep(Append(q, e), S) = IF e \in S THEN Append(Keep(q, S), e) ELSE Keep(q, S)
    BY <1>1, <2>1, KeepAppend
  <2> QED BY <2>2 DEF e, S
<1> QED BY <1>1, <1>2, <1>3, <1>4, <1>5, <1>6

(* What is said of no token is the role, and an event adds its chunks.     *)
LEMMA ChunksSay ==
    ASSUME NEW n \in Nat
    PROVE  /\ Said(n) \in Seq(Nat) /\ Said(n) # << >>
           /\ \A item \in SentType : item.token = n + 1 =>
                Said(n) \o Chunks(item) = IF item.finished THEN Said(n + 1) \o <<Stop>>
                                          ELSE Said(n + 1)
<1> DEFINE s == Spoken(n)
           t == Spoken(n + 1)
<1>1. s \in Seq(Nat) /\ t = (IF n + 1 \in Silent THEN s ELSE Append(s, n + 1))
  BY SpokenNext
<1>2. Said(n) = <<Role>> \o s /\ Said(n + 1) = <<Role>> \o t /\ Role \in Nat
  BY DEF Said, Role
<1> HIDE DEF s, t
<1>3. Said(n) \in Seq(Nat) /\ Said(n) # << >>
  BY <1>1, <1>2
<1>4. ASSUME NEW item \in SentType, item.token = n + 1
      PROVE  Said(n) \o Chunks(item) = IF item.finished THEN Said(n + 1) \o <<Stop>>
                                       ELSE Said(n + 1)
  <2> DEFINE word == IF item.token \in Silent THEN << >> ELSE <<item.token>>
             end  == IF item.finished THEN <<Stop>> ELSE << >>
  <2>1. Chunks(item) = word \o end
    BY DEF Chunks
  <2>2. Stop \in Nat
    BY EngineAssumption DEF Stop
  <2>3. word \in Seq(Nat) /\ end \in Seq(Nat)
    BY <1>4, <2>2
  <2>4. t = s \o word
    BY <1>1, <1>4
  <2>5. item.finished \in BOOLEAN
    BY DEF SentType
  <2>6. end = IF item.finished THEN <<Stop>> ELSE << >>
    OBVIOUS
  <2> HIDE DEF word, end
  <2>7. Said(n) \o (word \o end) = (<<Role>> \o (s \o word)) \o end
    BY <1>1, <1>2, <2>3
  <2>8. Said(n) \o Chunks(item) = Said(n + 1) \o end
    BY <1>2, <2>1, <2>4, <2>7
  <2>9. Said(n + 1) \in Seq(Nat)
    <3>1. t \in Seq(Nat)
      BY <1>1, <2>3, <2>4
    <3>2. \A u \in Seq(Nat) : <<Role>> \o u \in Seq(Nat)
      BY <1>2
    <3> QED BY <1>2, <3>1, <3>2
  <2>10. Said(n + 1) \o << >> = Said(n + 1)
    BY <2>9
  <2> QED BY <2>5, <2>6, <2>8, <2>10
<1> QED BY <1>3, <1>4

(* Of what a client has read only the engine's next step could make more,  *)
(* and none comes behind an end.                                           *)
LEMMA WireStays ==
    ASSUME CoreInv, [Next]_vars, NEW c \in Client, wire'[c] = wire[c]
    PROVE  /\ WireOK(c) => WireOK(c)'
           /\ answer[c] = "result" /\ c \notin inEngine =>
                answer'[c] = "result" /\ c \notin inEngine' /\ made'[c] = made[c]
<1>1. /\ made[c] \in Nat /\ made'[c] \in Nat /\ made[c] <= made'[c]
      /\ c \notin pending /\ c \notin inEngine => c \notin inEngine' /\ made'[c] = made[c]
  BY EngineOfClient
<1>2. answer[c] = "result" => c \notin pending /\ answer'[c] = "result"
  BY ClientsHear DEF Hears, CoreInv, Unanswered
<1>3. \A n \in 0..made[c] : n \in 0..made'[c]
  BY <1>1
<1>4. made'[c] = made[c] => Whole(c)' = Whole(c)
  BY DEF Whole, Said, Spoken
<1>5. \A n : Said(n)' = Said(n)
  BY DEF Said, Spoken
<1> QED BY <1>1, <1>2, <1>3, <1>4, <1>5 DEF WireOK

(* Nothing is taken that was not put, and what was taken stays.            *)
LEMMA StreamGrows ==
    ASSUME CoreInv, [Next]_vars, NEW c \in Client
    PROVE  Len(sent[c]) \in Nat /\ Len(sent'[c]) \in Nat /\ Len(sent[c]) <= Len(sent'[c])
<1>1. sent[c] \in Seq(SentType)
  BY DEF CoreInv, Types
<1>2. ASSUME NEW item, sent'[c] = Append(sent[c], item)
      PROVE  Len(sent'[c]) = Len(sent[c]) + 1
  BY <1>1, <1>2
<1> QED BY <1>1, <1>2, ClientsHear DEF Hears

(* Whoever is not concerned by a step of the service keeps its place.      *)
Aside(c) ==
    /\ http'[c] = http[c] /\ reader'[c] = reader[c] /\ taken'[c] = taken[c]
    /\ wire'[c] = wire[c] /\ (c \in ended' <=> c \in ended)
LEMMA AsideKeeps ==
    ASSUME CoreInv, [Next]_vars, HttpTypes, NEW c \in Client, Aside(c), WireOK(c), ReaderOK(c)
    PROVE  WireOK(c)' /\ ReaderOK(c)'
<1>1. /\ WireOK(c) => WireOK(c)'
      /\ answer[c] = "result" /\ c \notin inEngine =>
           answer'[c] = "result" /\ c \notin inEngine' /\ made'[c] = made[c]
  BY WireStays DEF Aside
<1>2. Len(sent[c]) \in Nat /\ Len(sent'[c]) \in Nat /\ Len(sent[c]) <= Len(sent'[c])
  BY StreamGrows
<1>3. taken[c] \in Nat /\ taken'[c] = taken[c]
  BY DEF Aside, HttpTypes
<1>4. made'[c] = made[c] => Whole(c)' = Whole(c)
  BY DEF Whole, Said, Spoken
<1>5. Said(taken[c])' = Said(taken[c])
  BY <1>3 DEF Said, Spoken
<1>6. ReaderOK(c)'
  BY <1>1, <1>2, <1>3, <1>4, <1>5 DEF ReaderOK, Aside
<1> QED BY <1>1, <1>6

(* Posting and returning without a stream.                                 *)
LEMMA PostKeeps ==
    ASSUME CoreInv, [Next]_vars, HttpTypes, NEW c \in Client, WireOK(c), ReaderOK(c),
           Post(c) \/ Return(c)
    PROVE  WireOK(c)' /\ ReaderOK(c)'
<1>1. /\ http[c] \in {"new", "wait"} /\ http'[c] \in {"head", "wait", "refused", "returned"}
      /\ UNCHANGED <<reader, taken, ended, wire>>
  BY DEF Post, Return, Goes, HttpTypes
<1>2. Len(sent[c]) \in Nat /\ Len(sent'[c]) \in Nat /\ Len(sent[c]) <= Len(sent'[c])
  BY StreamGrows
<1>3. WireOK(c)'
  BY <1>1, WireStays
<1> QED BY <1>1, <1>2, <1>3 DEF ReaderOK, HttpTypes

(* The generator starts with the role and goes on while there is more.     *)
LEMMA BeginKeeps ==
    ASSUME CoreInv, [Next]_vars, HttpTypes, NEW c \in Client, WireOK(c), ReaderOK(c), Begin(c)
    PROVE  WireOK(c)' /\ ReaderOK(c)'
<1>1. /\ http[c] = "head" /\ http'[c] = "open" /\ wire'[c] = wire[c] \o <<Role>>
      /\ UNCHANGED <<coreVars, reader, taken, ended>>
  BY DEF Begin, Goes, Sends, HttpTypes
<1>2. wire[c] = << >> /\ taken[c] = 0 /\ c \notin ended
  BY <1>1 DEF ReaderOK
<1>3. Said(0) = <<Role>>
  <2>1. Spoken(0) \in Seq(Nat) /\ Range(Spoken(0)) \subseteq 1..0
    BY SpokenNext
  <2>2. \A s \in Seq(Nat) : Range(s) \subseteq 1..0 => s = << >>
    <3> SUFFICES ASSUME NEW s \in Seq(Nat), Range(s) \subseteq 1..0, s # << >> PROVE FALSE
      OBVIOUS
    <3>1. 1 \in DOMAIN s
      OBVIOUS
    <3>2. s[1] \in Range(s)
      BY <3>1 DEF Range
    <3> QED BY <3>2
  <2>3. Spoken(0) = << >>
    <3> HIDE DEF Spoken
    <3> QED BY <2>1, <2>2
  <2>4. <<Role>> \o << >> = <<Role>>
    OBVIOUS
  <2> QED BY <2>3, <2>4 DEF Said
<1>4. wire'[c] = Said(0)
  BY <1>1, <1>2, <1>3
<1>5. UNCHANGED <<made, sent, answer, inEngine>> /\ made[c] \in Nat
  BY <1>1 DEF coreVars, vars, engineVars, clientVars, CoreInv, Types, Request
<1>6. WireOK(c)'
  <2>1. \A n : Said(n)' = Said(n)
    BY DEF Said, Spoken
  <2>2. 0 \in 0..made'[c]
    BY <1>5
  <2> QED BY <1>4, <2>1, <2>2 DEF WireOK
<1>7. Said(taken[c])' = Said(0)
  BY <1>1, <1>2 DEF Said, Spoken
<1> QED BY <1>1, <1>2, <1>4, <1>5, <1>6, <1>7 DEF ReaderOK

(* A thread that starts to wait has taken nothing yet.                     *)
LEMMA AskKeeps ==
    ASSUME CoreInv, [Next]_vars, HttpTypes, NEW c \in Client, WireOK(c), ReaderOK(c), Ask(c)
    PROVE  WireOK(c)' /\ ReaderOK(c)'
<1>1. /\ http[c] = "open" /\ c \notin ended /\ UNCHANGED <<http, taken, ended, wire>>
      /\ UNCHANGED <<made, sent, answer, inEngine>>
  BY DEF Ask, coreVars, vars, engineVars, clientVars
<1>2. WireOK(c)'
  BY <1>1, WireStays
<1>3. Said(taken[c])' = Said(taken[c])
  BY <1>1 DEF Said, Spoken
<1> QED BY <1>1, <1>2, <1>3 DEF ReaderOK

(* Closing the handle gives the request up at most.                        *)
LEMMA CloseLeaves ==
    ASSUME NEW c \in Client, Close(c) \/ UNCHANGED coreVars
    PROVE  UNCHANGED <<made, sent, answer, inEngine>>
  BY DEF Close, GiveUp, coreVars, vars, engineVars, clientVars

(* What the thread takes reaches the client in order, an end with the      *)
(* last of it; an error only ends the stream.                              *)
LEMMA ReceiveKeeps ==
    ASSUME CoreInv, [Next]_vars, HttpTypes, NEW c \in Client, Streamed(c), WireOK(c),
           ReaderOK(c), Receive(c)
    PROVE  WireOK(c)' /\ ReaderOK(c)'
<1> DEFINE i == taken[c] + 1
           item == sent[c][i]
<1>1. /\ reader[c] = "blocked" /\ taken[c] < Len(sent[c]) /\ taken[c] \in Nat
      /\ taken'[c] = i /\ reader'[c] = "idle" /\ ended' = IF item.finished THEN ended \cup {c} ELSE ended
      /\ sent[c] \in Seq(SentType) /\ Len(sent[c]) \in Nat
  BY DEF Receive, Reads, Ends, Item, HttpTypes, CoreInv, Types
<1>2. i \in 1..Len(sent[c]) /\ item \in SentType
  BY <1>1
<1>3. UNCHANGED <<made, sent, answer, inEngine>>
  <2>1. Close(c) \/ UNCHANGED coreVars
    BY DEF Receive
  <2> QED BY <2>1, CloseLeaves
<1>4. CASE \/ http[c] = "gone" /\ UNCHANGED <<http, wire>>
           \/ http'[c] = "broken" /\ UNCHANGED wire
  <2>1. WireOK(c)'
    BY <1>4, WireStays
  <2>2. taken'[c] <= Len(sent'[c])
    BY <1>1, <1>2, <1>3
  <2> QED BY <1>1, <1>4, <2>1, <2>2 DEF ReaderOK
<1>5. CASE /\ http[c] = "open" /\ http' = http /\ item # Service!Error
           /\ wire'[c] = wire[c] \o Chunks(item)
  <2>1. c \notin ended /\ wire[c] = Said(taken[c])
    BY <1>1, <1>5 DEF ReaderOK
  <2>2. item.token = i /\ i <= made[c]
    BY <1>2, <1>5 DEF Streamed
  <2>3. item.finished => answer[c] = "result" /\ c \notin inEngine /\ made[c] = i
    BY <1>2, <1>5 DEF Streamed
  <2>4. Said(taken[c]) \o Chunks(item) = IF item.finished THEN Said(i) \o <<Stop>> ELSE Said(i)
    <3> HIDE DEF item
    <3> QED BY <1>1, <1>2, <2>2, ChunksSay
  <2>5. wire'[c] = IF item.finished THEN Said(i) \o <<Stop>> ELSE Said(i)
    BY <1>5, <2>1, <2>4
  <2>6. \A n : Said(n)' = Said(n)
    BY DEF Said, Spoken
  <2>7. taken'[c] <= Len(sent'[c]) /\ made[c] \in Nat
    BY <1>1, <1>2, <1>3 DEF CoreInv, Types, Request
  <2> HIDE DEF item
  <2>8. CASE item.finished
    <3>1. c \in ended' /\ wire'[c] = Said(made'[c]) \o <<Stop>>
      BY <1>1, <1>3, <2>3, <2>5, <2>8
    <3>2. Whole(c)' = Said(made'[c]) \o <<Stop>>
      BY <2>6 DEF Whole, Stop
    <3>3. WireOK(c)'
      BY <1>3, <2>3, <2>8, <3>1, <3>2 DEF WireOK
    <3> QED BY <1>1, <1>3, <1>5, <2>3, <2>7, <2>8, <3>1, <3>2, <3>3 DEF ReaderOK
  <2>9. CASE ~ item.finished
    <3>1. c \notin ended' /\ wire'[c] = Said(taken'[c])
      BY <1>1, <2>1, <2>5, <2>9
    <3>2. taken'[c] \in 0..made'[c]
      BY <1>1, <1>3, <2>2, <2>7
    <3>3. WireOK(c)'
      BY <2>6, <3>1, <3>2 DEF WireOK
    <3> QED BY <1>5, <2>6, <2>7, <3>1, <3>3 DEF ReaderOK
  <2> QED BY <2>8, <2>9
<1> QED BY <1>1, <1>4, <1>5 DEF Receive, Item, Goes, Sends, HttpTypes

(* The end of the stream is announced behind an answer that is whole.      *)
LEMMA EndKeeps ==
    ASSUME CoreInv, [Next]_vars, HttpTypes, NEW c \in Client, WireOK(c), ReaderOK(c), End(c)
    PROVE  WireOK(c)' /\ ReaderOK(c)'
<1>1. /\ wire[c] = Whole(c) /\ answer[c] = "result" /\ c \notin inEngine
      /\ taken[c] <= Len(sent[c])
  BY DEF End, ReaderOK
<1>2. UNCHANGED <<made, sent, answer, inEngine, taken>> /\ made[c] \in Nat
  BY CloseLeaves DEF End, CoreInv, Types, Request
<1>3. Stop \in Range(wire[c])
  <2> DEFINE s == Said(made[c])
  <2>1. s \in Seq(Nat)
    BY <1>2, ChunksSay
  <2> HIDE DEF s
  <2>2. s \o <<Stop>> \in Seq(Nat \cup {Stop}) /\ Len(s \o <<Stop>>) = Len(s) + 1
        /\ (s \o <<Stop>>)[Len(s) + 1] = Stop /\ Len(s) \in Nat
    BY <2>1
  <2>3. Len(s) + 1 \in DOMAIN (s \o <<Stop>>)
    BY <2>2
  <2>4. Stop \in Range(s \o <<Stop>>)
    BY <2>2, <2>3 DEF Range
  <2> QED BY <1>1, <2>4 DEF Whole, s
<1>4. wire'[c] = wire[c] \o <<Done>> /\ http'[c] = "done"
  BY <1>3 DEF End, Sends, Goes, HttpTypes
<1>5. Whole(c)' = Whole(c)
  BY <1>2 DEF Whole, Said, Spoken
<1>6. WireOK(c)'
  BY <1>1, <1>2, <1>4, <1>5 DEF WireOK, Done
<1> QED BY <1>1, <1>2, <1>4, <1>6 DEF ReaderOK

(* A client that leaves is sent nothing more.                              *)
LEMMA LeavesKeeps ==
    ASSUME CoreInv, [Next]_vars, HttpTypes, NEW c \in Client, WireOK(c), ReaderOK(c), Leaves(c)
    PROVE  WireOK(c)' /\ ReaderOK(c)'
<1>1. http'[c] = "gone" /\ UNCHANGED <<taken, wire>>
  BY DEF Leaves, Goes, HttpTypes
<1>2. UNCHANGED sent
  BY CloseLeaves DEF Leaves
<1>3. WireOK(c)'
  BY <1>1, WireStays
<1> QED BY <1>1, <1>2, <1>3 DEF ReaderOK

(* The variables of the service keep their types.                          *)
LEMMA HttpTypesKept ==
    ASSUME CoreInv, HttpTypes, [HttpNext]_webVars
    PROVE  HttpTypes'
<1>1. CASE UNCHANGED httpVars
  BY <1>1 DEF httpVars, HttpTypes
<1>2. ASSUME NEW c \in Client, UNCHANGED wire \/ \E s \in Seq(Nat) : Sends(c, s)
      PROVE  wire' \in [Client -> Seq(Nat)]
  <2>1. wire \in [Client -> Seq(Nat)] /\ wire[c] \in Seq(Nat)
    BY DEF HttpTypes
  <2>2. ASSUME NEW s \in Seq(Nat), Sends(c, s) PROVE wire' \in [Client -> Seq(Nat)]
    <3>1. wire[c] \o s \in Seq(Nat)
      BY <2>1
    <3> QED BY <2>1, <2>2, <3>1 DEF Sends
  <2> QED BY <1>2, <2>1, <2>2
<1>3. ASSUME NEW c \in Client, NEW stage, Goes(c, stage) PROVE DOMAIN http' = Client
  BY <1>3 DEF Goes, HttpTypes
<1>4. Role \in Nat /\ Done \in Nat /\ Stop \in Nat
  BY EngineAssumption DEF Role, Done, Stop
<1>5. ASSUME NEW c \in Client, Post(c) \/ Return(c) \/ Begin(c) \/ Ask(c) \/ End(c) \/ Leaves(c)
      PROVE  HttpTypes'
  <2>1. wire' \in [Client -> Seq(Nat)]
    <3>1. <<Role>> \in Seq(Nat) /\ <<Done>> \in Seq(Nat)
      BY <1>4
    <3> QED BY <1>2, <1>5, <3>1 DEF Post, Return, Begin, Ask, End, Leaves
  <2>2. DOMAIN http' = Client
    BY <1>3, <1>5 DEF Post, Return, Begin, Ask, End, Leaves, HttpTypes
  <2>3. /\ taken' = taken /\ ended' \subseteq Client
        /\ reader' = reader \/ reader' = [reader EXCEPT ![c] = "blocked"]
    BY <1>5 DEF Post, Return, Begin, Ask, End, Leaves, Reads, HttpTypes
  <2> QED BY <2>1, <2>2, <2>3 DEF HttpTypes
<1>6. ASSUME NEW c \in Client, Receive(c) PROVE HttpTypes'
  <2>1. sent[c] \in Seq(SentType) /\ taken[c] \in Nat /\ taken[c] < Len(sent[c])
    BY <1>6 DEF Receive, CoreInv, Types, HttpTypes
  <2>2. Item(c) \in SentType
    BY <2>1 DEF Item
  <2>3. Chunks(Item(c)) \in Seq(Nat)
    <3>1. \A item \in SentType : Chunks(item) \in Seq(Nat)
      BY <1>4 DEF Chunks, SentType
    <3> QED BY <2>2, <3>1
  <2>4. wire' \in [Client -> Seq(Nat)]
    BY <1>2, <1>6, <2>3 DEF Receive
  <2>5. DOMAIN http' = Client
    BY <1>3, <1>6 DEF Receive, HttpTypes
  <2>6. /\ taken' = [taken EXCEPT ![c] = taken[c] + 1] /\ ended' \subseteq Client
        /\ reader' = [reader EXCEPT ![c] = "idle"]
    BY <1>6 DEF Receive, Reads, HttpTypes
  <2> QED BY <2>1, <2>4, <2>5, <2>6 DEF HttpTypes
<1> QED BY <1>1, <1>5, <1>6 DEF HttpNext, EventLoop, webVars, httpVars

(* A client's own steps keep what it has read, and those of others too.    *)
LEMMA HttpInvKept ==
    ASSUME CoreInv, HttpInv, [HttpNext]_webVars
    PROVE  HttpInv'
<1>1. [Next]_vars /\ HttpTypes /\ HttpTypes'
  BY HttpStep, HttpTypesKept DEF HttpInv
<1>2. ASSUME NEW c \in Client
      PROVE  Bounded(c)' /\ Streamed(c)' /\ WireOK(c)' /\ ReaderOK(c)'
  <2>1. Bounded(c) /\ Streamed(c) /\ WireOK(c) /\ ReaderOK(c)
    BY DEF HttpInv
  <2>2. Bounded(c)' /\ Streamed(c)'
    BY <1>1, <2>1, EngineOfClient, StreamedKept
  <2>3. CASE Aside(c)
    BY <1>1, <2>1, <2>2, <2>3, AsideKeeps
  <2>4. CASE Post(c) \/ Return(c)
    BY <1>1, <2>1, <2>2, <2>4, PostKeeps
  <2>5. CASE EventLoop(c)
    BY <1>1, <2>1, <2>2, <2>5, BeginKeeps, AskKeeps, EndKeeps DEF EventLoop
  <2>6. CASE Receive(c)
    BY <1>1, <2>1, <2>2, <2>6, ReceiveKeeps
  <2>7. CASE Leaves(c)
    BY <1>1, <2>1, <2>2, <2>7, LeavesKeeps
  <2>8. CASE UNCHANGED httpVars
    BY <2>3, <2>8 DEF httpVars, Aside
  <2>9. ASSUME NEW d \in Client, d # c,
               Post(d) \/ Return(d) \/ EventLoop(d) \/ Receive(d) \/ Leaves(d)
        PROVE  Aside(c)
    BY <1>1, <2>9 DEF Post, Return, EventLoop, Begin, Ask, End, Receive, Leaves,
                      Goes, Reads, Sends, Aside, HttpTypes
  <2> QED BY <2>3, <2>4, <2>5, <2>6, <2>7, <2>8, <2>9 DEF HttpNext, webVars
<1> QED BY <1>1, <1>2 DEF HttpInv

(* At the start nothing was sent.                                          *)
LEMMA HttpStart == HttpInit => CoreInv /\ HttpInv
<1> SUFFICES ASSUME HttpInit PROVE CoreInv /\ HttpInv
  OBVIOUS
<1>1. CoreInv
  BY InitCore DEF HttpInit
<1>2. /\ inEngine = {} /\ \A c \in Client : made[c] = 0 /\ sent[c] = << >>
  BY DEF HttpInit, Init, EngineInit, Request
<1>3. HttpTypes /\ \A c \in Client : wire[c] = << >> /\ http[c] = "new" /\ taken[c] = 0
                                    /\ reader[c] = "idle" /\ c \notin ended
  BY DEF HttpInit, HttpTypes
<1>4. \A c \in Client : Bounded(c) /\ Streamed(c)
  BY <1>2, EngineAssumption DEF Bounded, Streamed
<1>5. \A c \in Client : WireOK(c) /\ ReaderOK(c)
  BY <1>2, <1>3 DEF WireOK, ReaderOK
<1> QED BY <1>1, <1>3, <1>4, <1>5 DEF HttpInv

(* The invariant of the service: streams number the tokens of their        *)
(* request, and the chunks a client was sent are those of the items its    *)
(* thread has taken.                                                       *)
THEOREM HttpInvariant == HttpSpec => [](CoreInv /\ HttpInv)
<1>1. HttpInit => CoreInv /\ HttpInv
  BY HttpStart
<1>2. CoreInv /\ HttpInv /\ [HttpNext]_webVars => CoreInv' /\ HttpInv'
  <2>1. ASSUME CoreInv, [HttpNext]_webVars PROVE CoreInv'
    BY <2>1, HttpStep, NextCore
  <2> QED BY <2>1, HttpInvKept
<1> QED BY <1>1, <1>2, PTL DEF HttpSpec

(* Whatever becomes of other requests, however far the queue is ahead of   *)
(* the reader and wherever the stream is cut: what a client has read is a  *)
(* prefix of its answer, and an end in it means that the answer is whole.  *)
THEOREM WireAlwaysTells == HttpSpec => []WireTellsCompletion
<1>1. CoreInv /\ HttpInv => WireTellsCompletion
  <2> SUFFICES ASSUME CoreInv, HttpInv, NEW c \in Client, wire[c] # << >>
               PROVE  \/ \E n \in 0..made[c] : wire[c] = <<Role>> \o Spoken(n)
                      \/ /\ \/ wire[c] = <<Role>> \o Spoken(made[c]) \o <<Stop>>
                            \/ wire[c] = <<Role>> \o Spoken(made[c]) \o <<Stop, Done>>
                         /\ answer[c] = "result" /\ c \notin inEngine
    BY DEF WireTellsCompletion
  <2>1. made[c] \in Nat
    BY DEF CoreInv, Types, Request
  <2>2. Said(made[c]) \in Seq(Nat) /\ Stop \in Nat /\ Done \in Nat
    <3>1. Stop \in Nat /\ Done \in Nat
      BY EngineAssumption DEF Stop, Done
    <3> QED BY <2>1, <3>1, ChunksSay
  <2>3. \A s \in Seq(Nat), a, b \in Nat : (s \o <<a>>) \o <<b>> = s \o <<a, b>>
    <3> SUFFICES ASSUME NEW s \in Seq(Nat), NEW a \in Nat, NEW b \in Nat
                 PROVE  (s \o <<a>>) \o <<b>> = s \o <<a, b>>
      OBVIOUS
    <3>1. <<a>> \in Seq(Nat) /\ <<b>> \in Seq(Nat) /\ <<a>> \o <<b>> = <<a, b>>
      <4>1. <<a>> \in Seq(Nat) /\ <<b>> \in Seq(Nat) /\ <<a, b>> \in Seq(Nat)
        OBVIOUS
      <4>2. <<a>> \o <<b>> \in Seq(Nat) /\ Len(<<a>> \o <<b>>) = 2 /\ Len(<<a, b>>) = 2
        BY <4>1
      <4>3. \A i \in 1..2 : i = 1 \/ i = 2
        OBVIOUS
      <4>4. (<<a>> \o <<b>>)[1] = a /\ (<<a>> \o <<b>>)[2] = b
        BY <4>1
      <4>5. \A i \in 1..2 : (<<a>> \o <<b>>)[i] = <<a, b>>[i]
        BY <4>3, <4>4
      <4> QED BY <4>1, <4>2, <4>5, SeqEqual
    <3>2. (s \o <<a>>) \o <<b>> = s \o (<<a>> \o <<b>>)
      BY <3>1, ConcatAssociative
    <3> QED BY <3>1, <3>2
  <2>4. Whole(c) \o <<Done>> = Said(made[c]) \o <<Stop, Done>>
    <3> HIDE DEF Said, Stop, Done
    <3> QED BY <2>2, <2>3 DEF Whole
  <2> QED BY <2>4 DEF HttpInv, WireOK, Said, Whole
<1> QED BY <1>1, HttpInvariant, PTL
=============================================================================
