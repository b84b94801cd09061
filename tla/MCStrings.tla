------------------------------ MODULE MCStrings ------------------------------
(***************************************************************************)
(* Files for TLC: up to two pools, with two strings that conf_pool_deinit  *)
(* releases and one that it does not; values that fit an int of four bits, *)
(* that reach its sign, that wrap around, and that are no numbers.         *)
(***************************************************************************)
EXTENDS ConfStrings

MCScalars ==
  [a \in Arguments |->
     IF a = "value" THEN {<<7>>, <<1, 9>>, <<1, 5>>, <<NoDigit>>}
     ELSE {<<NoDigit>>}]
=============================================================================
