------------------------------- MODULE KeyMap -------------------------------
(***************************************************************************)
(* What a slab promises: insert files a value under a key that no value    *)
(* has, remove takes out what its key was given to, and no other key is    *)
(* touched by either.                                                      *)
(***************************************************************************)
CONSTANTS Keys, Values, NoValue

VARIABLE store

Init == store = [k \in Keys |-> NoValue]

Insert == \E k \in Keys, v \in Values :
            /\ store[k] = NoValue
            /\ store' = [store EXCEPT ![k] = v]

Remove == \E k \in Keys :
            /\ store[k] # NoValue
            /\ store' = [store EXCEPT ![k] = NoValue]

Spec == Init /\ [][Insert \/ Remove]_store

=============================================================================
