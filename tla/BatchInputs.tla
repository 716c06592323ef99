----------------------------- MODULE BatchInputs -----------------------------
(***************************************************************************)
(* The tensors a model run is given (prepare_prefill and prepare_decode in *)
(* nanovllm/engine/model_runner.py): the scheduled tokens of all requests, *)
(* packed into rows, each with its embedding, its position and the slot    *)
(* its K/V goes to.  The module adds nothing to the engine's state: it     *)
(* computes them from the batch whenever EngineCore is about to run it.    *)
(*                                                                         *)
(* A row stands for a token of a request: row RowStart(i) + o is the o-th  *)
(* scheduled token of batch[i].  An embedding is <<"token", id>> or the    *)
(* row <<key, row>> of an image's features.                                *)
(***************************************************************************)
EXTENDS EngineCore, PromptMetadata

CONSTANT ImagesOf   (* the images of each prompt, in order                  *)

(* Prompts carry the visual identities their own metadata gives.  A        *)
(* feature key is a digest of the image and of its grid: images with one   *)
(* key are the same.                                                       *)
Ids(p) == [ i \in 1..Len(p) |-> p[i].id ]
Images == UNION { SE!ToSet(ImagesOf[p]) : p \in Prompts }
ASSUME PromptsAssumption ==
    /\ \A p \in Prompts :
        /\ ImagesOf[p] \in Seq(Images)
        /\ Accepted(Ids(p), ImagesOf[p])
        /\ p = Materialized(Ids(p), ImagesOf[p], NoVisual)
    /\ \A g \in Images : \A n \in 0..TokenCount(g) - 1 : <<g.key, n>> \in Visual
    /\ \A g, h \in Images : g.key = h.key => g = h

(* Sequence.multimodal_metadata; a text prompt has no images.              *)
MetadataOf == [ p \in Prompts |-> Metadata(Ids(p), ImagesOf[p]) ]
Prompt(s)  == SubSeq(tokens[s], 1, nprompt[s])
Spans(s)   == MetadataOf[Prompt(s)].spans

(* Sequence.mrope_position_delta.                                          *)
BugRopeDelta(s) == 0
RopeDelta(s)    == MetadataOf[Prompt(s)].delta

-----------------------------------------------------------------------------
(* The rows of a prefill.                                                  *)

Min2(a, b) == IF a < b THEN a ELSE b
Max2(a, b) == IF a > b THEN a ELSE b

Start(s) == ncached[s]
End(s)   == ncached[s] + nsched[s]

(* cu_seqlens_q: where the rows of batch[i] start.                         *)
RowStart(i) == Total(nsched, batch, 1..i - 1)
RowCount    == RowStart(Len(batch) + 1)

InputIds == SE!FlattenSeq([ i \in 1..Len(batch) |->
    SubSeq(Ids(tokens[batch[i]]), Start(batch[i]) + 1, End(batch[i])) ])

(* build_prefill_position_rows: the prompt's own positions, then the ones  *)
(* generated tokens had when they were decoded.                            *)
PositionsOf(s) ==
    LET inPrompt == Min2(End(s), nprompt[s])
        after    == Max2(Start(s), nprompt[s])
    IN  SubSeq(MetadataOf[Prompt(s)].positions, Start(s) + 1, inPrompt)
          \o IF after < End(s)
             THEN Diagonal(after + RopeDelta(s), End(s) + RopeDelta(s)) ELSE << >>
PrefillPositions ==
    SE!FlattenSeq([ i \in 1..Len(batch) |-> PositionsOf(batch[i]) ])

(* slot_mapping: block after block, from inside the first to inside the    *)
(* last one.                                                               *)
SlotStart(s, b) ==
    table[s][b + 1] * BlockSize
      + (IF b = Start(s) \div BlockSize THEN Start(s) % BlockSize ELSE 0)
SlotEnd(s, b) ==
    table[s][b + 1] * BlockSize
      + (IF b = CeilDiv(End(s)) - 1 THEN End(s) - b * BlockSize ELSE BlockSize)
SlotsOf(s) ==
    LET first == Start(s) \div BlockSize
    IN  SE!FlattenSeq([ j \in 1..CeilDiv(End(s)) - first |->
            [ x \in 1..SlotEnd(s, first + j - 1) - SlotStart(s, first + j - 1) |->
                SlotStart(s, first + j - 1) + x - 1 ] ])
PrefillSlots == SE!FlattenSeq([ i \in 1..Len(batch) |-> SlotsOf(batch[i]) ])

-----------------------------------------------------------------------------
(* plan_visual_replacements: the part of each visual span that is          *)
(* scheduled, span by span.                                                *)

BugFeatureRow(s, span, p) == p - Max2(span.start, Start(s))
FeatureRow(s, span, p)    == p - span.start

Replaced(i, span) ==
    LET s    == batch[i]
        from == Max2(span.start, Start(s))
        to   == Min2(span.start + span.length, End(s))
    IN  IF from >= to THEN << >> ELSE
          [ x \in 1..to - from |->
            [row     |-> RowStart(i) + from + x - 1 - Start(s),
             key     |-> span.key,
             feature |-> FeatureRow(s, span, from + x - 1)] ]

Plan == SE!FlattenSeq([ i \in 1..Len(batch) |->
            SE!FlattenSeq([ k \in 1..Len(Spans(batch[i])) |->
                Replaced(i, Spans(batch[i])[k]) ]) ])

(* The plan is refused unless its rows increase and are rows of the batch. *)
PlanRefused ==
    \/ \E j \in 1..Len(Plan) - 1 : Plan[j].row >= Plan[j + 1].row
    \/ Plan # << >> /\ (Plan[1].row < 0 \/ Last(Plan).row >= RowCount)

(* It is also refused if an image has no such row of features.             *)
FeatureCount(key) ==
    TokenCount(CHOOSE g \in UNION { Range(ImagesOf[Prompt(s)]) : s \in Range(batch) } :
                  g.key = key)
FeaturesRefused == \E r \in Range(Plan) : r.feature \notin 0..FeatureCount(r.key) - 1

(* build_planned_visual_embeddings: image by image, the planned rows are   *)
(* overwritten with their features; the k-th replacement also gets the     *)
(* k-th row of every DeepStack payload.                                    *)
Group(key)     == { k \in DOMAIN Plan : Plan[k].key = key }
Features(keys) == UNION { { <<Plan[k].row, <<key, Plan[k].feature>>>> : k \in Group(key) } :
                          key \in keys }
Merged ==
    LET features == Features({ r.key : r \in Range(Plan) })
    IN  [ row \in 0..RowCount - 1 |->
            IF \E f \in features : f[1] = row
            THEN (CHOOSE f \in features : f[1] = row)[2]
            ELSE <<"token", InputIds[row + 1]>> ]
VisualRows == [ k \in 1..Len(Plan) |-> Plan[k].row ]
DeepStack  == [ k \in 1..Len(Plan) |-> <<Plan[k].key, Plan[k].feature>> ]

(* The language model's own checks: positions for every row, and rows for  *)
(* the DeepStack features that name rows of the batch, each once.  Of the  *)
(* last point a GPU model takes the plan's word.                           *)
InputsRefused == Len(PrefillPositions) # RowCount
DeepStackRefused ==
    \/ Len(VisualRows) # Len(DeepStack)
    \/ Range(VisualRows) \ (0..RowCount - 1) # {}
    \/ Cardinality(Range(VisualRows)) # Len(VisualRows)

(* _add_deepstack_rows: what a layer adds to a row.                        *)
AddedTo(row) == { DeepStack[k] : k \in { j \in DOMAIN VisualRows : VisualRows[j] = row } }

(* Language SDPA pads a request's rows to the length of its prompt         *)
(* (SDPAAttention.forward and hf_aligned_linear).                          *)
PadBefore(s) == Start(s)
PadAfter(s)  == nprompt[s] - PadBefore(s) - nsched[s]

-----------------------------------------------------------------------------
(* A decode batch has one row per request: its last token.                 *)

DecodePosition(s) == LET p == NumTokens(s) - 1 + RopeDelta(s) IN <<p, p, p>>
DecodeSlot(s)     == Last(table[s]) * BlockSize + DecodeOffset(s)

-----------------------------------------------------------------------------
(* Token p of s, and where block_table puts its K/V.                       *)
TokenOf(s, p) == tokens[s][p + 1]
SlotOf(s, p)  == BlockAt(s, p) * BlockSize + (p % BlockSize)

(* The position M-RoPE defines for token p, given those before it: text    *)
(* comes after everything before it; an image starts there and spreads     *)
(* over frames, rows and columns.                                          *)
Axes(t)        == {t[1], t[2], t[3]}
After(pos, n)  == 1 + SE!Max({-1} \cup UNION { Axes(pos[q]) : q \in 0..n - 1 })
ImageAt(s, mm) == CHOOSE g \in Range(ImagesOf[Prompt(s)]) : g.key = mm[1]
Placed(s, p, pos) ==
    LET mm == TokenOf(s, p).mm IN
    IF mm = NoVisual
    THEN LET v == After(pos, p) IN <<v, v, v>>
    ELSE LET v == After(pos, p - mm[2])
             g == ImageAt(s, mm)
             n == mm[2] % (Height(g) * Width(g))
         IN  <<v + FrameTime(mm[2] \div (Height(g) * Width(g))),
               v + n \div Width(g),
               v + (n % Width(g))>>
Reference(s) == LET Pos[p \in 0..NumTokens(s) - 1] == Placed(s, p, Pos) IN Pos

(* However a prompt is cut into chunks, packed with others and continued   *)
(* from cached blocks, every visual token gets the feature row its cache   *)
(* key names, in the embedding and in each DeepStack layer, and every text *)
(* token its own embedding; nothing on the way refuses the batch.       *)
RowsEmbedded ==
    phase = "runPrefill" =>
        /\ ~ (PlanRefused \/ FeaturesRefused \/ InputsRefused \/ DeepStackRefused)
        /\ \A i \in 1..Len(batch) : \A o \in 0..nsched[batch[i]] - 1 :
              LET t   == TokenOf(batch[i], Start(batch[i]) + o)
                  row == RowStart(i) + o
              IN  /\ Merged[row] = IF t.mm = NoVisual THEN <<"token", t.id>> ELSE t.mm
                  /\ AddedTo(row) = IF t.mm = NoVisual THEN {} ELSE {t.mm}

(* A token is always computed at the position M-RoPE defines for it in its *)
(* whole sequence: decoded after images, or recomputed after a preemption  *)
(* from its prompt's metadata and the delta.  A request whose run raised   *)
(* may be decoded from its prompt, which can end in an image.              *)
RowsPositioned ==
    /\ phase = "runPrefill" =>
         \A i \in 1..Len(batch) : \A o \in 0..nsched[batch[i]] - 1 :
            PrefillPositions[RowStart(i) + o + 1]
              = Reference(batch[i])[Start(batch[i]) + o]
    /\ ~ resumed /\ phase = "runDecode" =>
         \A s \in Range(batch) : DecodePosition(s) = Reference(s)[NumTokens(s) - 1]

(* A request can be prefilled again after it was preempted, with the       *)
(* tokens it has generated: language SDPA finds room for all its rows in   *)
(* the context it pads them to.                                            *)
FullContextCovers ==
    phase = "runPrefill" => \A s \in Range(batch) : PadAfter(s) >= 0
=============================================================================
