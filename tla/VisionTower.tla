---------------------------- MODULE VisionTower ----------------------------
(***************************************************************************)
(* The vision tower of Qwen3-VL (nanovllm/models/qwen3_vl_vision.py) on a  *)
(* pack of images, and how VisionFeatureProvider._encode takes its output  *)
(* apart.  Of the numbers only their origin is kept: from which patch a    *)
(* row comes, which entries of the position table are interpolated for it  *)
(* with which weights, by which coordinates it is rotated, which rows it   *)
(* attends to, and how many blocks it has gone through.                    *)
(*                                                                         *)
(* Patches of an image are numbered from 0 in the order of its pixel rows, *)
(* coordinates <<y, x>> count patches.                                     *)
(***************************************************************************)
EXTENDS PromptMetadata

CONSTANTS
    Grid,         (* the grid [t, h, w] of each image                       *)
    Side,         (* num_grid_per_side of the position table                *)
    Depth,        (* the number of blocks                                   *)
    DeepStackAt   (* deepstack_visual_indexes, blocks counted from 0        *)

ASSUME TowerAssumption ==
    /\ Side \in Nat \ {0} /\ Depth \in Nat \ {0}
    /\ DeepStackAt \in Seq(0..Depth - 1)
    /\ \A i, j \in DOMAIN DeepStackAt : DeepStackAt[i] = DeepStackAt[j] => i = j

FrameSize(g)  == g.h * g.w
PatchCount(g) == g.t * FrameSize(g)

(* What the images of a pack have of something, one after the other, given *)
(* for each image; and lengths added.                                      *)
Packed(ims, rows)  == SE!FlattenSeq([ i \in DOMAIN ims |-> rows[ims[i]] ])
SumOf(ns)          == SE!FoldLeft(+, 0, ns)

(* The pixel rows, as the image processor (external) orders them: square   *)
(* by square within a frame.                                               *)
PixelRows(im) ==
    LET g == Grid[im]
        m == MergeSize
    IN  [ k \in 1..PatchCount(g) |->
            LET square == ((k - 1) % FrameSize(g)) \div (m * m)
                inside == (k - 1) % (m * m)
            IN  [image |-> im, frame |-> (k - 1) \div FrameSize(g),
                 at |-> <<(square \div Width(g)) * m + (inside \div m),
                          (square % Width(g)) * m + (inside % m)>>] ]

(* _validate_inputs.                                                       *)
TowerAccepts(ims, rows) ==
    /\ ims # << >>
    /\ \A im \in SE!ToSet(ims) : LET g == Grid[im] IN
          /\ g.t > 0 /\ g.h > 0 /\ g.w > 0
          /\ g.h % MergeSize = 0 /\ g.w % MergeSize = 0
    /\ rows = SumOf([ i \in DOMAIN ims |-> PatchCount(Grid[ims[i]]) ])

-----------------------------------------------------------------------------
(* fast_pos_embed_interpolate.  The i-th of n points spread over the table *)
(* is at i * (Side - 1) / Steps(n), taken apart into what is below it and  *)
(* the rest, in units of 1 / Steps(n).                                     *)
Steps(n)       == IF n = 1 THEN 1 ELSE n - 1
Below(i, n)    == (i * (Side - 1)) \div Steps(n)
Above(i, n)    == IF Below(i, n) + 1 < Side THEN Below(i, n) + 1 ELSE Side - 1
Fraction(i, n) == (i * (Side - 1)) % Steps(n)

(* The four table entries around a patch, as <<index, weight>>.            *)
Corners(g, y, x) ==
    LET fy == Fraction(y, g.h)
        fx == Fraction(x, g.w)
        ry == Steps(g.h) - fy
        rx == Steps(g.w) - fx
    IN  << <<Below(y, g.h) * Side + Below(x, g.w), ry * rx>>,
           <<Below(y, g.h) * Side + Above(x, g.w), ry * fx>>,
           <<Above(y, g.h) * Side + Below(x, g.w), fy * rx>>,
           <<Above(y, g.h) * Side + Above(x, g.w), fy * fx>> >>

(* Computed line by line for one frame, repeated for each, and permuted:   *)
(* the k-th of the result was the Permuted(g, k)-th.                       *)
Permuted(g, k) ==
    LET m      == MergeSize
        column == k % m
        line   == (k \div m) % m
        block  == (k \div (m * m)) % Width(g)
        row    == (k \div (m * m * Width(g))) % Height(g)
        frame  == k \div FrameSize(g)
    IN  frame * FrameSize(g) + (row * m + line) * g.w + block * m + column
PosRows(im) ==
    LET g == Grid[im]
    IN  [ k \in 1..PatchCount(g) |->
            LET n == Permuted(g, k - 1) % FrameSize(g)
            IN  Corners(g, n \div g.w, n % g.w) ]

(* rot_pos_emb.                                                            *)
RotaryRows(im) ==
    LET g == Grid[im]
        m == MergeSize
    IN  [ k \in 1..PatchCount(g) |->
            LET n == (k - 1) % FrameSize(g)
                block == n \div (m * m)
            IN  <<(block \div Width(g)) * m + ((n \div m) % m),
                  (block % Width(g)) * m + (n % m)>> ]

(* _build_attention_metadata: the frames, as <<start, end>>.               *)
BugSegments(ims) == { <<0, SumOf([ i \in DOMAIN ims |-> PatchCount(Grid[ims[i]]) ])>> }
Segments(ims) ==
    LET frames   == [ im \in SE!ToSet(ims) |-> [ f \in 1..Grid[im].t |-> FrameSize(Grid[im]) ] ]
        lengths  == Packed(ims, frames)
        Bound(n) == SumOf(SubSeq(lengths, 1, n))
    IN  { <<Bound(n - 1), Bound(n)>> : n \in DOMAIN lengths }

-----------------------------------------------------------------------------
(* forward.  In every block a row attends to the rows of its segment, both *)
(* ways: what it knows of the image are their patches.                     *)
Attends(segments, i) ==
    LET s == CHOOSE s \in segments : s[1] < i /\ i <= s[2]
    IN  s[1] + 1..s[2]

Hidden(ims, blocks) ==
    LET pixels   == Packed(ims, [ im \in SE!ToSet(ims) |-> PixelRows(im) ])
        pos      == Packed(ims, [ im \in SE!ToSet(ims) |-> PosRows(im) ])
        rotary   == Packed(ims, [ im \in SE!ToSet(ims) |-> RotaryRows(im) ])
        segments == Segments(ims)
    IN  [ i \in DOMAIN pixels |->
            [patch |-> pixels[i], pos |-> pos[i], rotary |-> rotary[i],
             knows |-> { pixels[j] : j \in Attends(segments, i) }, blocks |-> blocks] ]

(* Qwen3VLVisionPatchMerger.                                               *)
MergedRows(rows) ==
    LET unit == MergeSize * MergeSize
    IN  [ n \in 1..Len(rows) \div unit |-> SubSeq(rows, (n - 1) * unit + 1, n * unit) ]

(* VisionFeatureBundle: the final embedding, then the DeepStack ones.      *)
Tower(ims) ==
    << MergedRows(Hidden(ims, Depth)) >>
      \o [ j \in DOMAIN DeepStackAt |-> MergedRows(Hidden(ims, DeepStackAt[j] + 1)) ]

-----------------------------------------------------------------------------
(* _encode: what is refused of the output, and its split, image by image.  *)
EncodeAccepts(ims) ==
    /\ TowerAccepts(ims, SumOf([ i \in DOMAIN ims |-> Len(PixelRows(ims[i])) ]))
    /\ \A n \in DOMAIN Tower(ims) :
          Len(Tower(ims)[n]) = SumOf([ i \in DOMAIN ims |-> TokenCount(Grid[ims[i]]) ])

Encoded(ims) ==
    LET output   == Tower(ims)
        Before(i) == SumOf([ j \in 1..i - 1 |-> TokenCount(Grid[ims[j]]) ])
        Bundle(i) == [ n \in DOMAIN output |->
                         SubSeq(output[n], Before(i) + 1, Before(i) + TokenCount(Grid[ims[i]])) ]
    IN  [ im \in SE!ToSet(ims) |-> Bundle(CHOOSE i \in DOMAIN ims : ims[i] = im) ]

-----------------------------------------------------------------------------
(* What the features of an image are by themselves.                        *)

(* The weights are those of linear interpolation: their mean is the place  *)
(* of the patch in the table, on both axes.                                *)
Mean(corners, n) ==
    corners[1][2] * n[1] + corners[2][2] * n[2] + corners[3][2] * n[3] + corners[4][2] * n[4]
Interpolates(corners, g, at) ==
    /\ DOMAIN corners = 1..4
    /\ \A i \in 1..4 : corners[i][1] \in 0..Side * Side - 1 /\ corners[i][2] >= 0
    /\ Mean(corners, [ i \in 1..4 |-> 1 ])                     = Steps(g.h) * Steps(g.w)
    /\ Mean(corners, [ i \in 1..4 |-> corners[i][1] \div Side ]) = at[1] * (Side - 1) * Steps(g.w)
    /\ Mean(corners, [ i \in 1..4 |-> corners[i][1] % Side ])    = at[2] * (Side - 1) * Steps(g.h)

(* A row, made of the patch of im at a place, after some blocks in which   *)
(* it saw its frame and nothing else.                                      *)
OwnRow(row, im, frame, at, blocks) ==
    /\ row.patch = [image |-> im, frame |-> frame, at |-> at]
    /\ row.rotary = at
    /\ Interpolates(row.pos, Grid[im], at)
    /\ row.knows = { [image |-> im, frame |-> frame, at |-> p] :
                       p \in (0..Grid[im].h - 1) \X (0..Grid[im].w - 1) }
    /\ row.blocks = blocks

(* Feature n merges the patches under the position that M-RoPE gives the   *)
(* n-th token of the image.                                                *)
OwnFeatures(rows, im, blocks) ==
    /\ Len(rows) = TokenCount(Grid[im])
    /\ \A n \in DOMAIN rows : LET place == GridPositions(0, Grid[im])[n] IN
          \A i \in 1..MergeSize * MergeSize :
             OwnRow(rows[n][i], im, place[1],
                    <<place[2] * MergeSize + ((i - 1) \div MergeSize),
                      place[3] * MergeSize + ((i - 1) % MergeSize)>>, blocks)

OwnBundle(bundle, im) ==
    /\ Len(bundle) = 1 + Len(DeepStackAt)
    /\ OwnFeatures(bundle[1], im, Depth)
    /\ \A j \in DOMAIN DeepStackAt : OwnFeatures(bundle[j + 1], im, DeepStackAt[j] + 1)
=============================================================================
