----------------------------- MODULE MainChannel -----------------------------
(***************************************************************************)
(* What WebSocketConnectionSource promises whoever listens to its          *)
(* onConnectionDidOpen and to the onClose of the channels it announces     *)
(* (browser/messaging/connection-source.ts).  Between two turns of the     *)
(* event loop there is one main channel, and no turn announces another     *)
(* before the listeners of that one heard of its end.                      *)
(*                                                                         *)
(* It does not promise this within a turn.  When a front end has asked for *)
(* a context several times, the one reply announces that many channels,    *)
(* and all but the last are closed in the same turn with nobody hearing.   *)
(*                                                                         *)
(* ServiceConnectionProvider and every RpcProxyFactory behind it count on  *)
(* it: a proxy lets go of its protocol in onClose and nowhere else.        *)
(* FrontendConnection is shown to implement this specification and         *)
(* ServiceConnection is built on it.                                       *)
(***************************************************************************)
EXTENDS Naturals

VARIABLES
    channel,            \* number of the page's latest main channel, 0 before the first
    told                \* the listeners of its onClose have been called

Init == channel = 0 /\ told = FALSE

\* onConnectionDidOpen fires, once for every new channel of this turn.
Open ==
    /\ channel = 0 \/ told
    /\ channel' > channel
    /\ told' = FALSE

\* onClose of the current channel fires.
Close ==
    /\ channel # 0 /\ ~told
    /\ told' = TRUE
    /\ UNCHANGED channel

\* The page goes away with everything in it.
Leave == channel' = 0 /\ told' = FALSE

Next == Open \/ Close \/ Leave

Spec == Init /\ [][Next]_<<channel, told>>

==============================================================================
