---------------------------- MODULE MCEventLoop ----------------------------
EXTENDS EventLoop, TLC

(* Workers run the same code, clients and tickers are told apart by nothing. *)
Symmetry == Permutations(Workers) \cup Permutations(Clients) \cup Permutations(Tickers)

=============================================================================
