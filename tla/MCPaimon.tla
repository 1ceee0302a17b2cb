------------------------------- MODULE MCPaimon -------------------------------
(***************************************************************************)
(* The builders TLC checks: with two fields and two calls a row, strings   *)
(* in the slot, of one word, of one with padding, and one that makes the   *)
(* buffer grow, after which an offset no longer fits in its slot;          *)
(* with one field, for the rows of the tests; and with one field that is   *)
(* written, set to null and written again.                                 *)
(***************************************************************************)
EXTENDS PaimonHash

TwoFields ==
    [arity |-> 2, varCapacity |-> 16, values |-> {One, MinusOne},
     lengths |-> {5, 8, 13, 40}, writes |-> 2]

OneField ==
    [arity |-> 1, varCapacity |-> 8, values |-> Zeros .. HalfMin,
     lengths |-> {5, 12, 18, 19}, writes |-> 1]

WrittenAgain ==
    [arity |-> 1, varCapacity |-> 8, values |-> {MinusOne}, lengths |-> {13}, writes |-> 3]

CheckedUses == {OneField, TwoFields, WrittenAgain}
=============================================================================
