--------------------------- MODULE MCBatchInputs ---------------------------
(* Prompts with a square image, two frames shown twice, and text alone.    *)
EXTENDS DecodeGraph

Square == [key |-> "a", t |-> 1, h |-> 4, w |-> 4]
Frames == [key |-> "b", t |-> 2, h |-> 2, w |-> 2]

Text      == [id |-> 1, mm |-> NoVisual]
A(n)      == [id |-> 9, mm |-> <<"a", n>>]
B(n)      == [id |-> 9, mm |-> <<"b", n>>]
OfSquare  == <<Text, A(0), A(1), A(2), A(3), Text>>
OfFrames  == <<B(0), B(1), Text, B(0), B(1)>>
OfText    == <<Text, Text>>

MCVisual   == {"a", "b"} \X (0..3)
MCPrompts  == {OfSquare, OfFrames, OfText}
MCImagesOf ==
    [ p \in MCPrompts |->
        IF p = OfSquare THEN <<Square>> ELSE IF p = OfFrames THEN <<Frames, Frames>> ELSE << >> ]
=============================================================================
