---------------------------- MODULE MCSignedUrls ----------------------------
(***************************************************************************)
(* Two calls, a whitelist of one wildcard, limits of a few seconds.        *)
(***************************************************************************)
EXTENDS SignedUrls, TLC

CONSTANTS k

Png  == <<<<"image", "png">>>>
Html == <<<<"text", "html">>>>
Both == Png \o Html
MCWhitelist == {<<"image", "*">>}
MCSentTypes == {Png, Html, Both}

Asks(op, ttl, type, parts) ==
    [op |-> op, key |-> k, bucket |-> TRUE, ttlSeconds |-> ttl, contentType |-> type,
     parts |-> parts]
Get == Asks("get", 1, <<>>, 0)

MCAsk == { Get, [Get EXCEPT !.ttlSeconds = 0], [Get EXCEPT !.key = BadKey],
           [Get EXCEPT !.bucket = FALSE],
           Asks("put", 9, Png, 0),
           Asks("put", Unset, Png, 0),
           Asks("put", 1, Html, 0), Asks("put", 1, Both, 0),
           Asks("multipart", 1, Png, 2), Asks("multipart", 1, Both, 1),
           Asks("multipart", 1, Png, 0), Asks("multipart", 1, Png, 3) }

MCClientErrors == { [name |-> "TimeoutError", Code |-> "", status |-> 0],
                    [name |-> "NoSuchBucket", Code |-> "", status |-> 404] }
=============================================================================
