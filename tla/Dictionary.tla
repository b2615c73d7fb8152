------------------------------ MODULE Dictionary ------------------------------
(***************************************************************************)
(* What callers of the compiler's hashmap_t rely on: a finite map from keys *)
(* to values.  Adding a present key is rejected and changes nothing, a      *)
(* lookup returns the value stored by the add that put the key there, and a *)
(* removed key is absent.                                                   *)
(*                                                                          *)
(* Hashmap.tla is the open-addressing table that is supposed to implement   *)
(* it; res is the observable result of the last call.                       *)
(***************************************************************************)
EXTENDS Integers

CONSTANTS Keys, Values, ZeroKey, ZeroValue

VARIABLES
  dict,   \* the stored pairs, a function from the present keys to values
  res     \* the last completed call and what it returned

vars == <<dict, res>>

Result(op, k, ok, v) == [op |-> op, key |-> k, ok |-> ok, value |-> v]

Init ==
  /\ dict = [k \in {} |-> ZeroValue]
  /\ res = Result("create", ZeroKey, TRUE, ZeroValue)

Add(k, v) ==
  \/ /\ k \notin DOMAIN dict
     /\ dict' = [x \in DOMAIN dict \cup {k} |-> IF x = k THEN v ELSE dict[x]]
     /\ res' = Result("add", k, TRUE, ZeroValue)
  \/ /\ k \in DOMAIN dict
     /\ dict' = dict
     /\ res' = Result("add", k, FALSE, ZeroValue)

Get(k) ==
  /\ dict' = dict
  /\ res' = IF k \in DOMAIN dict
              THEN Result("get", k, TRUE, dict[k])
              ELSE Result("get", k, FALSE, ZeroValue)

Remove(k) ==
  \/ /\ k \in DOMAIN dict
     /\ dict' = [x \in DOMAIN dict \ {k} |-> dict[x]]
     /\ res' = Result("remove", k, TRUE, ZeroValue)
  \/ /\ k \notin DOMAIN dict
     /\ dict' = dict
     /\ res' = Result("remove", k, FALSE, ZeroValue)

\* hashmap_clear and hashmap_delete both leave nothing behind.
Empty(op) ==
  /\ dict' = [k \in {} |-> ZeroValue]
  /\ res' = Result(op, ZeroKey, TRUE, ZeroValue)

Next ==
  \/ \E k \in Keys, v \in Values : Add(k, v)
  \/ \E k \in Keys : Get(k) \/ Remove(k)
  \/ \E op \in {"create", "clear", "delete"} : Empty(op)

Spec == Init /\ [][Next]_vars
===============================================================================
