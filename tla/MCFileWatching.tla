---------------------------- MODULE MCFileWatching ----------------------------
(***************************************************************************)
(* An instance of FileWatching for TLC: two front ends, of which one       *)
(* watches the path twice.                                                 *)
(***************************************************************************)
EXTENDS FileWatching, TLC

CONSTANTS left, right, w1, w2, w3

TwoClients == {left, right}
ThreeWatches == {w1, w2, w3}
TwoAndOne == w1 :> left @@ w2 :> left @@ w3 :> right

===============================================================================
