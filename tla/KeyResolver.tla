---------------------------- MODULE KeyResolver ----------------------------
(***************************************************************************)
(* src/server/services/key-resolver.service.ts: the prefix put before      *)
(* every object key, and taken off again.                                  *)
(*                                                                         *)
(* A string is the sequence of its "/"-separated segments: "a//b/" is      *)
(* <<"a", "", "b", "">> and the empty string <<"">>. A segment that holds  *)
(* a null byte is Nul. The key prefix is kept without its last, empty      *)
(* segment, so that prepending it is concatenation: "p/" is <<"p">>, no    *)
(* prefix <<>>.                                                            *)
(***************************************************************************)
EXTENDS Naturals, Sequences, FiniteSets

Nul == "NUL"
EmptyText == <<"">>
Text == Seq(STRING) \ {<<>>}

\* The empty segment is a string like any other.
ASSUME TextAssumption == EmptyText \in Text

\* The constructor: slashes around the configured keyPrefix are trimmed; a
\* prefix of slashes only is none.
ResolvePrefix(raw) ==
    LET leading == { i \in DOMAIN raw : \A j \in 1..i : raw[j] = "" }
        trailing == { i \in DOMAIN raw : \A j \in i..Len(raw) : raw[j] = "" }
    IN  SubSeq(raw, Cardinality(leading) + 1, Len(raw) - Cardinality(trailing))

\* getPrefix().
PrefixText(pre) == pre \o EmptyText

\* Fault: the first segment alone is looked at.
AcceptableStart(key) == key # EmptyText /\ key[1] \notin {"", "..", Nul}

\* The guards of normalize().
Acceptable(key) ==
    /\ key # EmptyText
    /\ \A i \in DOMAIN key : key[i] \notin {Nul, ".."}
    /\ key[1] # ""

\* The segments at the positions kept, in their order.
Only(kept, key) ==
    LET nth(n) == CHOOSE i \in kept : Cardinality({ j \in kept : j <= i }) = n
    IN  [ n \in 1..Cardinality(kept) |-> key[nth(n)] ]

\* Runs of slashes become one: no empty segment remains inside.
Collapse(key) == Only({ i \in DOMAIN key : key[i] # "" \/ i \in {1, Len(key)} }, key)

Normalize(pre, key) == pre \o Collapse(key)

StartsWith(text, pre) == Len(pre) < Len(text) /\ SubSeq(text, 1, Len(pre)) = pre

\* Fault: keys are returned as the provider stores them.
KeepPrefix(pre, text) == text

StripPrefix(pre, text) ==
    IF StartsWith(text, pre) THEN SubSeq(text, Len(pre) + 1, Len(text)) ELSE text
=============================================================================
