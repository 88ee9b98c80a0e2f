----------------------------- MODULE MCCommands -----------------------------
EXTENDS Commands

Asks(via, ws, what) == [via |-> via, words |-> ws, asks |-> what]

MCInputs == {
  Asks("cli", <<"helpme">>, "undefined"),
  Asks("cli", <<"peek", "x">>, "peek"),
  Asks("cli", <<"download", "x">>, "arguments"), Asks("cli", <<"download", "x", "x">>, "download"),
  Asks("body", <<"x", "x">>, "shown"),
  Asks("tcp", <<"PEEK_REQUEST">>, "list"), Asks("tcp", <<"DOWNLOAD_REQUEST", "x">>, "transfer"),
  Asks("udp", <<"HELLO", "x", "x", "x">>, "hello")}

(* What a 0 makes of a word: a command of helpme, and otherwise nothing. *)
MCBeginnings == [w \in Words |-> IF w = "helpme" THEN {"help", Garbage} ELSE {Garbage}]

=============================================================================
