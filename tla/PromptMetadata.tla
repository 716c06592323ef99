--------------------------- MODULE PromptMetadata ---------------------------
(***************************************************************************)
(* What the processors record about a multimodal prompt besides its        *)
(* tokens: which of them stand for which image, and their positions on the *)
(* three axes of M-RoPE (nanovllm/multimodal/qwen25_vl_runtime.py,         *)
(* qwen3_vl_runtime.py, runtime.py).                                       *)
(*                                                                         *)
(* An image is [key, t, h, w]: its feature key and the grid of patches the *)
(* vision tower sees.  Token indexes and positions start at 0, as in the   *)
(* code; position_ids is transposed into one triple per token.             *)
(***************************************************************************)
EXTENDS Deques

CONSTANTS
    ImageTokenId,   (* the placeholder's token id                           *)
    MergeSize,      (* spatial_merge_size                                   *)
    Family          (* "qwen2_5_vl" or "qwen3_vl"                           *)

ASSUME MetadataAssumption ==
    /\ MergeSize \in Nat \ {0}
    /\ Family \in {"qwen2_5_vl", "qwen3_vl"}

(* The grid of tokens: patches are merged in squares.                      *)
Height(g)     == g.h \div MergeSize
Width(g)      == g.w \div MergeSize
TokenCount(g) == g.t * Height(g) * Width(g)

(* Text advances on all axes together: positions a..b-1.                   *)
Diagonal(a, b) == [ i \in 1..b - a |-> <<a + i - 1, a + i - 1, a + i - 1>> ]

(* Frames of a static image do not advance in time in Qwen2.5-VL.          *)
FrameTime(n) == IF Family = "qwen3_vl" THEN n ELSE 0

(* An image whose first token is at v: row by row, frame by frame.         *)
GridPositions(v, g) ==
    [ i \in 1..TokenCount(g) |->
        LET n == (i - 1) % (Height(g) * Width(g))
        IN  <<v + FrameTime((i - 1) \div (Height(g) * Width(g))),
              v + n \div Width(g),
              v + (n % Width(g))>> ]

(* How far the positions of an image reach.                                *)
Extent(g) ==
    SE!Max({Height(g), Width(g)} \cup (IF Family = "qwen3_vl" THEN {g.t} ELSE {}))

(* The first placeholder at or after index from, and the text before it.   *)
NextImage(ids, from) ==
    CHOOSE i \in from..Len(ids) - 1 :
        /\ ids[i + 1] = ImageTokenId
        /\ \A j \in from..i - 1 : ids[j + 1] # ImageTokenId

(* One round of the loop over the images: the text up to the next          *)
(* placeholder, then the image; next is the position after both.           *)
PlaceImage(ids, placed, g) ==
    LET start == NextImage(ids, placed.cursor)
        v     == placed.next + start - placed.cursor
    IN  [cursor    |-> start + TokenCount(g),
         next      |-> v + Extent(g),
         positions |-> placed.positions \o Diagonal(placed.next, v) \o GridPositions(v, g),
         spans     |-> Append(placed.spans, [start  |-> start,
                                             length |-> TokenCount(g),
                                             key    |-> g.key])]

(* build_qwen25_vl_prompt_metadata and build_qwen3_vl_prompt_metadata.     *)
Metadata(ids, images) ==
    LET nothing == [cursor |-> 0, next |-> 0, positions |-> << >>, spans |-> << >>]
        placed  == SE!FoldLeft(LAMBDA p, g : PlaceImage(ids, p, g), nothing, images)
        end     == placed.next + Len(ids) - placed.cursor
    IN  [positions |-> placed.positions \o Diagonal(placed.next, end),
         delta     |-> end - Len(ids),
         spans     |-> placed.spans]

(* The prompts the builders accept: from the end of the image before it,   *)
(* each image finds a placeholder and after it as many consecutive ones as *)
(* it has tokens, and after the last image none is left; only Qwen2.5-VL   *)
(* lets placeholders pass in a prompt without images.  Others are refused. *)
SearchedFrom(spans, k) ==
    IF k = 1 THEN 0 ELSE spans[k - 1].start + spans[k - 1].length
Accepted(ids, images) ==
    LET spans == Metadata(ids, images).spans
    IN  /\ ids # << >>
        /\ \A g \in SE!ToSet(images) :
              /\ g.t \in Nat \ {0} /\ g.h \in Nat \ {0} /\ g.w \in Nat \ {0}
              /\ g.h % MergeSize = 0 /\ g.w % MergeSize = 0
        /\ \A k \in 1..Len(images) :
              /\ spans[k].start \in SearchedFrom(spans, k)..Len(ids) - spans[k].length
              /\ \A i \in 1..spans[k].length : ids[spans[k].start + i] = ImageTokenId
        /\ \/ images = << >> /\ Family = "qwen2_5_vl"
           \/ \A i \in SearchedFrom(spans, Len(images) + 1) + 1..Len(ids) :
                 ids[i] # ImageTokenId

(* visual_identity_at: the feature row behind token i, or none.            *)
VisualIdentityAt(metadata, i, none) ==
    LET covers(span) == span.start <= i /\ i < span.start + span.length
    IN  IF \E k \in DOMAIN metadata.spans : covers(metadata.spans[k])
        THEN LET span == metadata.spans[CHOOSE k \in DOMAIN metadata.spans :
                                           covers(metadata.spans[k])]
             IN  <<span.key, i - span.start>>
        ELSE none

(* The prompt as a request carries it: token ids with their identities.    *)
Materialized(ids, images, none) ==
    [ i \in 1..Len(ids) |->
        [id |-> ids[i], mm |-> VisualIdentityAt(Metadata(ids, images), i - 1, none)] ]
=============================================================================
