-------------------------------- MODULE Map --------------------------------
(***************************************************************************)
(* What hashmap.h promises: a partial function from keys to values.  A set  *)
(* may fail for want of memory and then changes nothing.                    *)
(***************************************************************************)
CONSTANTS Keys, Vals, NULL

VARIABLES
  dict,  \* the value of every key, NULL for a key that is not there
  ret    \* what the last call returned

vars == <<dict, ret>>

Init == dict = [k \in Keys |-> NULL] /\ ret = NULL

Set(k, v) == dict' = [dict EXCEPT ![k] = v] /\ ret' = k

SetFails == ret' = NULL /\ UNCHANGED dict

Get(k) == ret' = dict[k] /\ UNCHANGED dict

Next == SetFails \/ \E k \in Keys : Get(k) \/ \E v \in Vals : Set(k, v)

Spec == Init /\ [][Next]_vars
=============================================================================
