-------------------------------- MODULE MCPeek --------------------------------
EXTENDS Peek

(* a of 5 bytes, "a b" of 17, " a" of 8, aaaa of 3: the second has three    *)
(* words, the last is too long for the column.                              *)
MCFiles == {
  [name |-> <<97>>, size |-> <<53>>],
  [name |-> <<97, 32, 98>>, size |-> <<49, 55>>],
  [name |-> <<32, 97>>, size |-> <<56>>],
  [name |-> <<97, 97, 97, 97>>, size |-> <<51>>]}

=============================================================================
