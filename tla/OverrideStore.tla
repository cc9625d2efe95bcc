---------------------------- MODULE OverrideStore ----------------------------
(***************************************************************************)
(* What "plumos-text-ui core" promises its callers, without files, arrays  *)
(* or capacities: every system and every ROM has one record of settings,   *)
(* and a command changes the record it names by all of its options or by   *)
(* none of them, and no other record.  A command that reports success has  *)
(* made its change; one that reports failure made all of it or nothing.    *)
(***************************************************************************)
EXTENDS Naturals, Sequences

CONSTANTS
    Keys,        \* what has settings: systems and ROMs
    Fields,      \* the settings
    GroupOf,     \* GroupOf[f]: the settings that are cleared together with f
    Commands,    \* sequences of options
    None         \* a setting that is not overridden

VARIABLES
    values,      \* values[k][f]: the override of setting f, or None
    last         \* the last command answered: its record, options and answer

Blank == [f \in Fields |-> None]
Quiet == [key |-> <<>>, ops |-> <<>>, told |-> "none"]

\* What one option means for a record.
Meaning(record, op) ==
    CASE op.do = "set"   -> [record EXCEPT ![op.field] = op.value]
      [] op.do = "clear" -> [f \in Fields |-> IF GroupOf[f] = op.group THEN None ELSE record[f]]
      [] op.do = "all"   -> Blank

Changed(record, ops) ==
    LET after[n \in 0..Len(ops)] == IF n = 0 THEN record ELSE Meaning(after[n - 1], ops[n])
    IN  after[Len(ops)]

Init ==
    /\ last = Quiet
    /\ \A k \in Keys : DOMAIN values[k] = Fields

Answer(k, ops, told) ==
    /\ last' = [key |-> k, ops |-> ops, told |-> told]
    /\ \/ told # "ok" /\ UNCHANGED values
       \/ values' = [values EXCEPT ![k] = Changed(@, ops)]

\* The caller has read the answer.
Read == last' = Quiet /\ UNCHANGED values

Next == \/ Read
        \/ /\ last' # Quiet
           /\ \E k \in Keys, ops \in Commands, told \in {"ok", "failed"} : Answer(k, ops, told)

Spec == Init /\ [][Next]_<<values, last>>
=============================================================================
