-------------------------- MODULE MCVisionFeatures --------------------------
(* Four images, one of them of two large frames; two requests share one,   *)
(* and not every pair of requests fits in the budget together.             *)
EXTENDS VisionFeatures

MCGrid   == [ k \in Key |->
                CASE k = "a" -> [t |-> 2, h |-> 4, w |-> 4]
                  [] k = "b" -> [t |-> 1, h |-> 2, w |-> 4]
                  [] k = "c" -> [t |-> 1, h |-> 4, w |-> 2]
                  [] k = "d" -> [t |-> 1, h |-> 2, w |-> 4] ]
MCBytes  == [ k \in Key |-> TokenCount(MCGrid[k]) ]
MCDeepStackAt == <<1, 0>>
MCImages == [ r \in Request |->
                CASE r = 1 -> <<"a", "b">>
                  [] r = 2 -> <<"b", "c", "b">>
                  [] r = 3 -> <<"d", "c">> ]
=============================================================================
