------------------------- MODULE MCChannelMultiplexer -------------------------
(***************************************************************************)
(* Instances of ChannelMultiplexer for TLC: who opens which channel id.    *)
(***************************************************************************)
EXTENDS ChannelMultiplexer

CONSTANTS first, second

\* One id is opened from each side.
EachOpensOne == [id \in {first, second} |-> IF id = first THEN {"front"} ELSE {"back"}]

\* Both sides open the same id.
BothOpen == [id \in {first} |-> {"front", "back"}]

OneId == {first}
TwoIds == {first, second}

===============================================================================
