----------------------------- MODULE RuleStore -----------------------------
(***************************************************************************)
(* What a caller may expect of a bucket's lifecycle rules under            *)
(* BucketLifecycleService. A write gives one rule id a new value and       *)
(* leaves the rest as it found it. Callers that are careful find what is   *)
(* there; the others may find what was there once, and bring it back.      *)
(***************************************************************************)
EXTENDS Naturals

CONSTANTS RuleId, Rule, NoRule, Setting, Default

VARIABLES
    config,  \* the rules and the transition setting in force
    past,    \* every configuration that was in force, this one included
    careful  \* callers take turns, and wait for writes that timed out

Config == [rules : [RuleId -> Rule \cup {NoRule}], setting : Setting]
Empty == [rules |-> [id \in RuleId |-> NoRule], setting |-> Default]

\* A configuration without rules is deleted, its setting with it.
Changed(old, id, rule) ==
    LET rules == [old.rules EXCEPT ![id] = rule]
    IN  IF rules = Empty.rules THEN Empty ELSE [rules |-> rules, setting |-> old.setting]

Init ==
    /\ config \in Config
    /\ past = {config}
    /\ careful \in BOOLEAN

\* The rule written is the one the new configuration holds.
Write(id) ==
    \E old \in past :
        /\ careful => old = config
        /\ config' \in Config
        /\ config' = Changed(old, id, config'.rules[id])
        /\ past' = past \cup {config'}
        /\ UNCHANGED careful

Next == \E id \in RuleId : Write(id)

Spec == Init /\ [][Next]_<<config, past, careful>>
=============================================================================
