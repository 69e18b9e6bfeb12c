------------------------- MODULE MCServiceConnection -------------------------
(***************************************************************************)
(* An instance of ServiceConnection for TLC: a service with two calls and  *)
(* a path that the back end does not know.                                 *)
(***************************************************************************)
EXTENDS ServiceConnection, TLC

CONSTANTS workspace, unknown, c1, c2, c3

TwoPaths == {workspace, unknown}
OneHandled == {workspace}
ThreeCalls == {c1, c2, c3}
PathOfCall == c1 :> workspace @@ c2 :> workspace @@ c3 :> unknown

==============================================================================
