----------------------------- MODULE MCRpcProtocol ----------------------------
(***************************************************************************)
(* Instances of RpcProtocol for TLC: what each end sends, and their modes.     *)
(***************************************************************************)
EXTENDS RpcProtocol

LeftSendsTwo == [e \in {"left", "right"} |-> IF e = "left" THEN 2 ELSE 0]
TwoAndOne == [e \in {"left", "right"} |-> IF e = "left" THEN 2 ELSE 1]

BothDefault == [e \in {"left", "right"} |-> "default"]

\* The usual pair of a client and a server.
ClientAndServer == [e \in {"left", "right"} |-> IF e = "left" THEN "clientOnly" ELSE "serverOnly"]

===============================================================================
