------------------------------ MODULE Download ------------------------------
(***************************************************************************)
(* What a download promises, without chunks, buffers and connections: the  *)
(* file of the client is at any time a prefix of the file of the server,   *)
(* and it is all of it when the download is reported complete.  Nothing is *)
(* promised of a file that is shared but cannot be read, nor where the     *)
(* client cannot write.                                                    *)
(*                                                                         *)
(* A byte is its position in the file, from 1 on.                          *)
(***************************************************************************)
EXTENDS Naturals

VARIABLES
  size,       \* of the file of the server
  readable,   \* whether the server can read it, and the client write it
  delivered,  \* the file of the client
  phase       \* "waiting", "completed" or "failed"

vars == <<size, readable, delivered, phase>>

(* The first n bytes of the file. *)
Prefix(n) == [i \in 1..n |-> i]

Init ==
  /\ size \in Nat
  /\ readable \in BOOLEAN
  /\ delivered = Prefix(0)
  /\ phase = "waiting"

Deliver ==
  /\ phase = "waiting"
  /\ \E m, n \in 0..size : m < n /\ delivered = Prefix(m) /\ delivered' = Prefix(n)
  /\ UNCHANGED phase

Complete ==
  /\ phase = "waiting"
  /\ delivered = Prefix(size)
  /\ phase' = "completed"
  /\ UNCHANGED delivered

Fail ==
  /\ phase = "waiting"
  /\ phase' = "failed"
  /\ UNCHANGED delivered

Next ==
  /\ UNCHANGED <<size, readable>>
  /\ readable => Deliver \/ Complete \/ Fail

Spec == Init /\ [][Next]_vars

=============================================================================
