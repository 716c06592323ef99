---------------------------- MODULE MCAdmission ----------------------------
(* Five requests in two classes: a batch is full by number, or each of the *)
(* other limits keeps somebody out.  Their images come from a file, a URL  *)
(* and a message; what the file shows changes size.                        *)
EXTENDS Admission

MCKey         == <<"a", "b", "a", "a", "a">>
MCTextTokens  == <<1, 2, 2, 1, 2>>
MCImageTokens == <<1, 3, 2, 3, 0>>
MCImages      == <<2, 1, 1, 2, 0>>

Text          == [source |-> "text"]
Image(s, d)   == [source |-> s, detail |-> d]
MCParts ==
    << <<Image("file", "auto"), Text, Image("data", "auto")>>,
       <<Image("site", "auto")>>,
       <<Text, Image("file", "low")>>,
       <<Image("site", "auto"), Image("file", "auto"), Text>>,
       <<Text>> >>

MCSourceType == [ s \in {"file", "site", "data"} |->
    IF s = "file" THEN "path" ELSE IF s = "site" THEN "url" ELSE "base64" ]
MCGrid == [ i \in {"file", "site", "data"} \X (1..2) |->
    IF i = <<"file", 2>> THEN [t |-> 1, h |-> 2, w |-> 2] ELSE [t |-> 1, h |-> 1, w |-> 2] ]
=============================================================================
