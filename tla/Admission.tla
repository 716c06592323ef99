----------------------------- MODULE Admission -----------------------------
(***************************************************************************)
(* From a chat request to what the engine is given for it: the images of   *)
(* its messages (nanovllm/multimodal/openai_adapter.py), the batch it is   *)
(* popped with, their loading through the asset cache (manager.py), and    *)
(* the processor's patches cut up again, image by image, under the keys by *)
(* which features are shared (qwen25_vl_processor.py,                      *)
(* qwen3_vl_processor.py).                                                 *)
(***************************************************************************)
EXTENDS BatchQueue, ImageAssets

CONSTANTS
    Parts,              (* the content parts of each request's messages     *)
    AllowLocalFiles,    (* NANOINFER_MM_ALLOW_LOCAL_FILES                   *)
    Grid,               (* the grid of patches of an image with a content   *)
    Family              (* "qwen2_5_vl" or "qwen3_vl"                       *)

VARIABLES
    batch,      (* the requests being prepared                              *)
    since,      (* history: the contents when their batch was popped        *)
    images,     (* the images loaded for each of them so far                *)
    missing,    (* the key a load has been begun for, or << >>              *)
    admitted    (* history: the vision inputs of each request               *)

prepareVars == <<batch, since, images, missing>>
admitVars   == <<vars, assetVars, prepareVars, admitted>>

-----------------------------------------------------------------------------
(* adapt_chat_messages: the images of all messages in one list; the chat   *)
(* template leaves one placeholder for each.                               *)
IsImage(part)  == part.source \in Source
ImageParts(r)  == Keep(Parts[r], { p \in Range(Parts[r]) : IsImage(p) })

(* image_url_to_input.                                                     *)
UrlAccepted(part) == SourceType[part.source] = "path" => AllowLocalFiles

ASSUME AdmissionAssumption ==
    /\ Family \in {"qwen2_5_vl", "qwen3_vl"}
    /\ \A r \in DOMAIN Key : /\ Parts[r] \in Seq(Range(Parts[r]))
                             /\ Images[r] = Len(ImageParts(r))
    /\ Grid \in [Source \X (1..MaxContent) -> [t : Nat \ {0}, h : Nat \ {0}, w : Nat \ {0}]]

-----------------------------------------------------------------------------
(* materialize.                                                            *)

Patches(image) == LET g == Grid[image] IN [ n \in 1..g.t * g.h * g.w |-> <<image, n>> ]

(* What the processor (external) returns: all patches, one after another.  *)
PixelValues(seq) == SE!FlattenSeq([ i \in DOMAIN seq |-> Patches(seq[i]) ])

PatchCount     == [ image \in DOMAIN Grid |-> Grid[image].t * Grid[image].h * Grid[image].w ]
Offset(seq, i) == Total(PatchCount, seq, 1..i - 1)

(* Fingerprints are hashes; they are taken not to collide.                 *)
Fingerprint(r, seq, i) == <<seq[i], ImageParts(r)[i].detail>>
Group(r, seq)          == [ i \in DOMAIN seq |-> Fingerprint(r, seq, i) ]
BugFeatureKey(r, seq, i) == <<ImageParts(r)[i].source, Grid[seq[i]]>>
FeatureKey(r, seq, i) ==
    IF Family = "qwen3_vl"
    THEN <<Group(r, seq), Fingerprint(r, seq, i), Grid[seq[i]], i>>
    ELSE <<Fingerprint(r, seq, i), Grid[seq[i]]>>

VisionInputs(r, seq) ==
    [ i \in DOMAIN seq |->
        [key     |-> FeatureKey(r, seq, i),
         grid    |-> Grid[seq[i]],
         patches |-> SubSeq(PixelValues(seq), Offset(seq, i) + 1,
                            Offset(seq, i) + PatchCount[seq[i]])] ]

-----------------------------------------------------------------------------
AdmitInit ==
    /\ Init /\ InitAssets
    /\ batch = << >> /\ since = content /\ images = << >> /\ missing = << >>
    /\ admitted = [ r \in DOMAIN Key |-> << >> ]

(* create_chat_completion: a request whose images are refused is answered  *)
(* with an error and never queued.                                         *)
Submit(r) ==
    /\ \A i \in DOMAIN ImageParts(r) : UrlAccepted(ImageParts(r)[i])
    /\ Add(r)
    /\ UNCHANGED <<assetVars, prepareVars, admitted>>

(* The worker takes a batch and prepares it.                               *)
Begin ==
    /\ batch = << >>
    /\ PopBatch
    /\ batch' = Batch(queue) /\ since' = content /\ images' = << << >> >>
    /\ UNCHANGED <<assetVars, missing, admitted>>

(* prepare_batch: the request and the image it is at.                      *)
Current   == batch[Len(images)]
NextImage == ImageParts(Current)[Len(Last(images)) + 1].source
More      == batch # << >> /\ Len(Last(images)) < Images[Current]

Give(image) == images' = Front(images) \o << Append(Last(images), image) >>

(* _load_cached: the key is made, then the cache is asked ...              *)
LookUp ==
    LET key == CacheKey(NextImage) IN
    /\ More /\ missing = << >>
    /\ IF Cached(key)
       THEN assets' = Used(key) /\ Give(ImageAt(key)) /\ UNCHANGED missing
       ELSE missing' = key /\ UNCHANGED <<assets, images>>
    /\ UNCHANGED <<vars, content, batch, since, admitted>>

(* ... and the image read later, whatever it is by then.                   *)
Load ==
    /\ missing # << >>
    /\ assets' = PutAt(missing, Loaded(NextImage))
    /\ Give(Loaded(NextImage))
    /\ missing' = << >>
    /\ UNCHANGED <<vars, content, batch, since, admitted>>

(* The file is gone, the server does not answer, or it is not an image:    *)
(* nothing of the batch is admitted.                                       *)
LoadFails ==
    /\ More
    /\ batch' = << >> /\ images' = << >> /\ missing' = << >>
    /\ UNCHANGED <<vars, assetVars, since, admitted>>

NextRequest ==
    /\ batch # << >> /\ ~ More /\ Len(images) < Len(batch)
    /\ images' = Append(images, << >>)
    /\ UNCHANGED <<vars, assetVars, batch, since, missing, admitted>>

(* The adapter materializes the prompts and submits them.                  *)
Admit ==
    /\ batch # << >> /\ ~ More /\ Len(images) = Len(batch)
    /\ admitted' = [ r \in DOMAIN Key |->
         IF \E i \in DOMAIN batch : batch[i] = r
         THEN VisionInputs(r, images[CHOOSE i \in DOMAIN batch : batch[i] = r])
         ELSE admitted[r] ]
    /\ batch' = << >> /\ images' = << >>
    /\ UNCHANGED <<vars, assetVars, since, missing>>

Environment == \E s \in Source : Replace(s) /\ UNCHANGED <<vars, prepareVars, admitted>>

AdmitNext ==
    \/ \E r \in DOMAIN Key : Submit(r)
    \/ Begin
    \/ LookUp
    \/ Load
    \/ LoadFails
    \/ NextRequest
    \/ Admit
    \/ Environment

AdmitSpec == AdmitInit /\ [][AdmitNext]_admitVars

-----------------------------------------------------------------------------
(* An image is given as it was at some time while its batch was prepared:  *)
(* never older if it comes from a file, however the cache is filled and    *)
(* emptied and whenever the file is replaced.  (A URL's may be older.)     *)
FilesCurrent ==
    \A n \in DOMAIN images : \A i \in DOMAIN images[n] :
        LET s == ImageParts(batch[n])[i].source
        IN  /\ images[n][i][1] = s
            /\ SourceType[s] = "path" => images[n][i][2] \in since[s]..content[s]

(* Each placeholder of a prompt gets the patches of its own image, all of  *)
(* them; and since features are shared by key between requests for as long *)
(* as they are cached, inputs with equal keys have equal patches.          *)
Inputs == UNION { Range(admitted[r]) : r \in DOMAIN Key }
KeysNamePatches ==
    /\ \A r \in DOMAIN Key : \A i \in DOMAIN admitted[r] :
         LET patches == admitted[r][i].patches
             image   == patches[1][1]
         IN  image[1] = ImageParts(r)[i].source /\ patches = Patches(image)
    /\ \A a, b \in Inputs : a.key = b.key => a = b
=============================================================================
