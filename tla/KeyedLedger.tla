---------------------------- MODULE KeyedLedger ----------------------------
(***************************************************************************)
(* What the credit ledger promises: movements have keys, the first         *)
(* movement of a key moves the balance by one of the amounts the key may   *)
(* be worth, and any later one of the same key moves nothing.              *)
(***************************************************************************)
EXTENDS Integers

CONSTANTS
    Keys,      \* the keys of movements
    Worth,     \* Worth[k]: the signed amounts a movement of key k may have
    Opening    \* the balance to begin with

VARIABLES
    applied,   \* the keys that have moved the balance
    balance

vars == <<applied, balance>>

Init ==
    /\ applied = {}
    /\ balance = Opening

Apply(k, amount) ==
    /\ k \notin applied
    /\ applied' = applied \cup {k}
    /\ balance' = balance + amount

Next == \E k \in Keys : \E amount \in Worth[k] : Apply(k, amount)

Spec == Init /\ [][Next]_vars
=============================================================================
