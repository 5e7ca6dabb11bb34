-------------------------- MODULE MCFullL2Recorder --------------------------
(* Instances of FullL2Recorder for TLC: two price levels, set in turn by the *)
(* exchange's updates; per-symbol update counts and faults per kind bounded. *)
EXTENDS FullL2Recorder, TLC

CONSTANTS btc, eth, bid, ask

MCLevels == {bid, ask}
MCLevelOf == [i \in 1..MaxUpdate |-> IF i % 2 = 1 THEN bid ELSE ask]

OneSymbol == [s \in Symbols |-> MaxUpdate]
BothTrade == (btc :> 1) @@ (eth :> MaxUpdate)

NoFault == [f \in Fault |-> 0]
EveryFault == [f \in Fault |-> 1]
SocketLost == [NoFault EXCEPT !["lost"] = 1]
=============================================================================
