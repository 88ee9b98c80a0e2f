------------------------------- MODULE MCStart -------------------------------
EXTENDS Start

Num(n) == [Typed("Number") EXCEPT !.int = n]
Str(s) == [Typed("String") EXCEPT !.string = s]
Is1(b) == [Typed("True") EXCEPT !.int = b]

Spelled(s, item) == [bytes |-> Bytes(s), means |-> item]

(* Spellings of values without structure. *)
Atoms == {
  Spelled("null", Typed("NULL")), Spelled("false", Typed("False")), Spelled("true", Is1(1)),
  Spelled("0", Num(0)), Spelled("-12.9", Num(-12)), Spelled("1.25E+2", Num(125)),
  Spelled("70e-1", Num(7)), Spelled("1e6", Num(INT_MAX)), Spelled("-123456.5", Num(INT_MIN)),
  Spelled("\"\"", Str(<<>>)), Spelled("\"a]\\\"\\\\\"", Str(Bytes("a]\"\\"))),
  Spelled("\"\\n\\/\\u0041\"", Str(<<10>> \o Bytes("/A"))),
  Spelled("\"\\u00e9\\u20Ac\"", Str(<<195, 169, 226, 130, 172>>)),
  Spelled("\"\\ud83D\\uDe00x\"", Str(<<240, 159, 152, 128>> \o Bytes("x")))}

Few == {Spelled("0", Num(0)), Spelled("\"\\u20aC\"", Str(<<226, 130, 172>>)),
        Spelled("[]", Typed("Array")), Spelled("{ }", Typed("Object"))}

Array(items) == [Typed("Array") EXCEPT !.child = items]
Object(items) == [Typed("Object") EXCEPT !.child = items]
Named(name, item) == [item EXCEPT !.name = Bytes(name)]

Arrays(A, B) ==
  {[bytes |-> Bytes(" [") \o a.bytes \o Bytes("]"), means |-> Array(<<a.means>>)] : a \in A} \cup
  {[bytes |-> Bytes("[ ") \o a.bytes \o Bytes(" ,") \o b.bytes \o Bytes("]"),
    means |-> Array(<<a.means, b.means>>)] : a \in A, b \in B}

Objects(A, B) ==
  {[bytes |-> Bytes("{\"k\" :") \o a.bytes \o Bytes(",\"\": ") \o b.bytes \o Bytes("}"),
    means |-> Object(<<Named("k", a.means), Named("", b.means)>>)] : a \in A, b \in B}

Structures == Arrays(Atoms, Few) \cup Objects(Few, Atoms)

Deep == Arrays(Arrays(Few, {}), {}) \cup Arrays({Spelled("{\"k\":[0]}",
          Object(<<Named("k", Array(<<Num(0)>>))>>))}, Few)

NotJson == {Spelled(s, NULL) : s \in {
  "nul", "-", "+1", "[1,]", "[,1]", "[1 2]", "{\"k\"}", "{\"k\":}", "{\"k\":1,}", "{k:1}", "{1:1}",
  "[[[[0]]]]", "{\"k\":[[{}]]}", "\"\\q\"", "\"\\ud83d\"", "\"\\ude00\"", "\"\\u12\"", "[\"a]", "[1}", "[1e]"}}

(* One byte of a text is another. *)
Changed == {[bytes |-> [b EXCEPT ![k] = c], means |-> Unknown] :
  k \in 1..12, c \in ToSet(Bytes("\"\\,]u0 ")),
  b \in {Bytes("{\"k\":\"\\u00e9\"}"), Bytes("\"\\ud83d\\ude00\""), Bytes("[\"\\\\\",{\"\":1}]")}}

(* A configuration: the name and the port as they are spelled, what is      *)
(* added at the end and what all of that means.                             *)
Config(name, p, ip, more, meansName, meansPort, meansMore) ==
  [bytes |-> Bytes("{\"srv_name\":\"" \o name \o "\",\"srv_port\":" \o p \o ",\"srv_ip\":\"" \o ip
                   \o "\",\"broadcast_port\":9,\"broadcast_ip\":\"b\"" \o more \o "}"),
   means |-> Object(<<Named("srv_name", Str(meansName)), Named("srv_port", Num(meansPort)),
                      Named("srv_ip", Str(Bytes(ip))), Named("broadcast_port", Num(9)),
                      Named("broadcast_ip", Str(Bytes("b")))>> \o meansMore)]

Spaces(n) == [i \in 1..n |-> 32]

Padded(c, n) == [c EXCEPT !.bytes = Spaces(n - Len(@)) \o @]

Good == Config("n", "7", "a", "", Bytes("n"), 7, <<>>)

Configs == {
  Good, Padded(Good, 127), Padded(Good, 128), Padded(Good, 140),
  Config("\\u00e9\\u0000x", "70.9e2", "a", "", <<195, 169, 0>> \o Bytes("x"), 7090, <<>>),
  Config("n", "7", "a", ",\"srv_port\":8", Bytes("n"), 7, <<Named("srv_port", Num(8))>>),
  Config("n", "7", "x", "", Bytes("n"), 7, <<>>),
  Config("n", "70000", "a", "", Bytes("n"), 70000, <<>>),
  [Config("n", "[9]", "a", "", <<>>, 0, <<>>) EXCEPT !.means = Unknown]}

MCFiles == Atoms \cup Structures \cup Deep \cup NotJson \cup Changed \cup Configs

MCAddresses == {Bytes("a")}

MCStacks == {<<0>>, Bytes("x"), Append(Bytes("}"), 0), Append(Bytes("]5"), 0), Append(Bytes("\""), 0)}

=============================================================================
