---------------------------- MODULE ImageAssets ----------------------------
(***************************************************************************)
(* Images by reference, and the cache of decoded ones                      *)
(* (nanovllm/multimodal/manager.py, cache.py, image_loader.py).  What a    *)
(* path or a URL names may be replaced at any time by someone else; base64 *)
(* names its own content.  The cache is used by one thread, the worker of  *)
(* the multimodal engine.                                                  *)
(*                                                                         *)
(* A path's modification time and size are taken to tell its contents      *)
(* apart: they are represented by the number of the content.               *)
(***************************************************************************)
EXTENDS Deques

CONSTANTS
    Source,           (* the references that requests contain               *)
    SourceType,       (* of each: "path", "url" or "base64"                 *)
    MaxContent,       (* bound on the contents one of them goes through     *)
    AssetCapacity     (* asset_cache_capacity                               *)

ASSUME AssetAssumption ==
    /\ SourceType \in [Source -> {"path", "url", "base64"}]
    /\ MaxContent \in Nat \ {0} /\ AssetCapacity \in Nat \ {0}

VARIABLES
    content,          (* the number of the content behind each reference    *)
    assets            (* ImageFeatureCache._items: [key, image], oldest first *)

assetVars == <<content, assets>>

InitAssets == content = [ s \in Source |-> 1 ] /\ assets = << >>

(* The world outside replaces an image.                                    *)
Replace(s) ==
    /\ SourceType[s] # "base64" /\ content[s] < MaxContent
    /\ content' = [content EXCEPT ![s] = @ + 1]
    /\ UNCHANGED assets

(* image_source_cache_key: the content itself, the path and its stamp, or  *)
(* the URL alone.                                                          *)
BugCacheKey(s) == <<SourceType[s], s>>
CacheKey(s)    ==
    IF SourceType[s] = "path" THEN <<"path", s, content[s]>> ELSE <<SourceType[s], s>>

(* load_image, once it succeeds.                                           *)
Loaded(s) == <<s, content[s]>>

(* ImageFeatureCache.get and put.                                          *)
Cached(key)   == \E i \in DOMAIN assets : assets[i].key = key
ImageAt(key)  == (CHOOSE a \in Range(assets) : a.key = key).image
Others(key)   == Keep(assets, { a \in Range(assets) : a.key # key })
Used(key)     == Append(Others(key), [key |-> key, image |-> ImageAt(key)])
PutAt(key, image) ==
    LET items == Append(Others(key), [key |-> key, image |-> image])
    IN  IF Len(items) > AssetCapacity THEN Tail(items) ELSE items
=============================================================================
