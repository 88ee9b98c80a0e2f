----------------------------- MODULE MCPeerTable -----------------------------
EXTENDS PeerTable

(* Names in the order of the addresses, against it, and in no order, with   *)
(* one that two peers share.                                                *)
SortedNames == [a \in Addrs |-> a]
ReversedNames == [a \in Addrs |-> 5 - a]
SharedNames == <<1, 3, 2, 2>>

MCValue ==
  [addr : Addrs, name : {NameOf[a] : a \in Addrs}, tolerance : LowestTolerance..MAX_TOLERANCE + 1]

=============================================================================
