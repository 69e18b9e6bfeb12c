---------------------------- MODULE ReliableCall -----------------------------
(***************************************************************************)
(* One remote request as its caller may understand it (the class comments  *)
(* of common/message-rpc/rpc-protocol.ts): the handler at the other end    *)
(* runs at most once, and the caller's promise tells what came of it or    *)
(* that the connection is gone.  There is nothing here of messages, ids,   *)
(* tables, cancellation or modes: RpcProtocol is shown to implement this   *)
(* specification for every request.                                        *)
(***************************************************************************)
VARIABLES
    promise,        \* "none" before the request, "pending", "resolved", "rejected"
    handler,        \* "none" before it starts, "runs", "result", "error", or
                    \* "silent" if nobody will ever hear of it
    connected       \* the caller's end of the channel is open

Init == promise = "none" /\ handler = "none" /\ connected = TRUE

\* The caller gets a promise.
Request ==
    /\ promise = "none"
    /\ promise' = "pending"
    /\ UNCHANGED <<handler, connected>>

\* The request reaches the other end, where it is served or refused.
Start ==
    /\ promise # "none"
    /\ handler = "none"
    /\ handler' \in {"runs", "silent"}
    /\ UNCHANGED <<promise, connected>>

End ==
    /\ handler = "runs"
    /\ handler' \in {"result", "error", "silent"}
    /\ UNCHANGED <<promise, connected>>

\* The caller hears of the end.
Settle ==
    /\ promise = "pending"
    /\ \/ handler = "result" /\ promise' = "resolved"
       \/ handler = "error" /\ promise' = "rejected"
    /\ UNCHANGED <<handler, connected>>

\* The channel closes at the caller's end: the caller is told.
Disconnect ==
    /\ connected
    /\ connected' = FALSE
    /\ promise' = IF promise = "pending" THEN "rejected" ELSE promise
    /\ UNCHANGED handler

Next == Request \/ Start \/ End \/ Settle \/ Disconnect

Spec == Init /\ [][Next]_<<promise, handler, connected>>

==============================================================================
