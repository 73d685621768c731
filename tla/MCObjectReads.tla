---------------------------- MODULE MCObjectReads ----------------------------
(***************************************************************************)
(* Texts that are hard to keep apart: of another owner, of a neighbouring  *)
(* prefix, with an empty segment, and groups of one and of two objects.    *)
(***************************************************************************)
EXTENDS ObjectReads, TLC

CONSTANTS e1, e2

MCRawPrefix == <<"", "p", "">>
MCOrder == << <<"p", "a", "", "b">>, <<"p", "a", "b">>, <<"p", "a", "c">>, <<"p", "ab">>,
              <<"px">> >>
MCVersions == [ text \in Stored |-> IF text = <<"p", "a", "b">> THEN Etag ELSE {e1} ]
MCStarts == {<<"a", "ab">>, <<"p", "px">>}

Asks(op) ==
    [ op |-> op, bucket |-> "there", key |-> <<"a", "b">>, half |-> 0, ifMatch |-> Absent,
      ifNoneMatch |-> Absent, prefix |-> EmptyText, maxKeys |-> Unset, delimiter |-> "" ]

Lists == [Asks("list") EXCEPT !.maxKeys = 2]

MCAsk ==
    { Asks(op) : op \in Operation }
    \cup { [Asks(op) EXCEPT !.bucket = "missing"] : op \in Operation }
    \cup { [Asks(op) EXCEPT !.key = <<"", "a">>] : op \in {"head", "exists"} }
    \cup { [Asks("download") EXCEPT !.bucket = ""], [Asks("download") EXCEPT !.half = 1],
           [Asks("downloadBuffer") EXCEPT !.half = 1], [Asks("download") EXCEPT !.ifMatch = e1],
           [Asks("download") EXCEPT !.ifNoneMatch = e1] }
    \cup { [Lists EXCEPT !.maxKeys = 1], [Lists EXCEPT !.delimiter = "/"],
           [Lists EXCEPT !.delimiter = "/", !.maxKeys = 1],
           [Lists EXCEPT !.prefix = <<"a">>], [Lists EXCEPT !.prefix = <<"a", "">>, !.maxKeys = 1],
           [Lists EXCEPT !.prefix = <<"a">>, !.delimiter = "/"],
           [Lists EXCEPT !.prefix = <<"", "a">>], [Lists EXCEPT !.maxKeys = 0] }

Fault(name, status) == [name |-> name, Code |-> "", status |-> status]
MCClientErrors == { Fault("TimeoutError", 0), Fault("PermanentRedirect", 301),
                    Fault("AccessDenied", 403) }
=============================================================================
