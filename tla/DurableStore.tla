---------------------------- MODULE DurableStore ----------------------------
(***************************************************************************)
(* What a KeyValueStore on files promises its users (the interface of      *)
(* include/common/base/util/KeyValueStore.h, as PropertyFile gives it):    *)
(* every key has a value the program sees and a value a restart would find.*)
(* The second one only ever becomes the first, or is lost; it is never an  *)
(* older value, and never one of another key.                              *)
(***************************************************************************)
CONSTANTS Keys, Values, NoValue

VARIABLES store,    \* what readPropertyValue gives
          durable   \* what it would give after a restart

Init == store = [k \in Keys |-> NoValue] /\ durable = store

(* A change the program asked for; it is not on the disk yet. *)
Put(k, v) == store' = [store EXCEPT ![k] = v] /\ UNCHANGED durable

RemoveAll == store' = [k \in Keys |-> NoValue] /\ UNCHANGED durable

(* The disk catches up with the program for some of the keys. *)
Persist(S) ==
    /\ durable' = [k \in Keys |-> IF k \in S THEN store[k] ELSE durable[k]]
    /\ UNCHANGED store

(* Keys are lost from the disk: a removal, or a file about to be rewritten. *)
Lose(S) ==
    /\ durable' = [k \in Keys |-> IF k \in S THEN NoValue ELSE durable[k]]
    /\ UNCHANGED store

(* The program starts again. *)
Restart == store' = durable /\ UNCHANGED durable

Next ==
    \/ \E k \in Keys, v \in Values \cup {NoValue} : Put(k, v)
    \/ RemoveAll
    \/ \E S \in SUBSET Keys : Persist(S) \/ Lose(S)
    \/ Restart

Spec == Init /\ [][Next]_<<store, durable>>
=============================================================================
