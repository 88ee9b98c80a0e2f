-------------------------------- MODULE Json --------------------------------
(***************************************************************************)
(* The parser of src/cJSON.c, which main uses to read config.json: from a  *)
(* sequence of bytes to the item it stands for, with the memory it takes   *)
(* on the way.                                                             *)
(*                                                                         *)
(* A parse_buffer is the code's; positions count from 0.  A function that  *)
(* parses gives a record: whether it succeeded, the position it came to,   *)
(* the item, how many more blocks are allocated than before, and whether   *)
(* every byte read was inside of the text and every byte written inside of *)
(* the block for it.                                                       *)
(*                                                                         *)
(* The recursive functions of the code are recursive functions of their    *)
(* parse_buffer, its loops over a string those of what is left of it.      *)
(***************************************************************************)
EXTENDS Integers, Sequences, FiniteSetsExt, SequencesExt

CONSTANTS
  NESTING_LIMIT,   \* CJSON_NESTING_LIMIT, 1000
  INT_MAX,         \* 2^31 - 1
  NULL             \* a null pointer

INT_MIN == -INT_MAX - 1

Byte == 0..255
Text == Seq(Byte)

(* The printable characters in the order of ASCII, with a tab for the grave  *)
(* accent.                                                                  *)
Printable ==
  " !\"#$%&'()*+,-./0123456789:;<=>?@ABCDEFGHIJKLMNOPQRSTUVWXYZ[\\]^_\tabcdefghijklmnopqrstuvwxyz{|}~"

(* The ASCII codes of a string. *)
Bytes(s) == [i \in 1..Len(s) |->
               31 + CHOOSE k \in 1..Len(Printable) : SubSeq(Printable, k, k) = SubSeq(s, i, i)]

Quote == 34
Plus == 43
Comma == 44
Minus == 45
Point == 46
Digit == 48..57
Colon == 58
LetterE == {69, 101}
OpenArray == 91
Backslash == 92
CloseArray == 93
LetterU == 117
OpenObject == 123
CloseObject == 125

NullWord == <<110, 117, 108, 108>>
FalseWord == <<102, 97, 108, 115, 101>>
TrueWord == <<116, 114, 117, 101>>

(* What a C string is to strcmp and strdup: the bytes before a 0. *)
CString(s) ==
  LET zeros == {k \in DOMAIN s : s[k] = 0}
  IN  IF zeros = {} THEN s ELSE SubSeq(s, 1, Min(zeros) - 1)

-----------------------------------------------------------------------------
(* Items. *)

cJSON_New_Item == [type |-> "Invalid", int |-> 0, string |-> NULL, name |-> NULL, child |-> <<>>]

Types == {"Invalid", "NULL", "False", "True", "Number", "String", "Array", "Object"}

(* The items that have at most n others one inside of the other. *)
Items[n \in Nat] ==
  [type : Types, int : Int, string : Text \cup {NULL}, name : Text \cup {NULL},
   child : IF n = 0 THEN {<<>>} ELSE Seq(Items[n - 1])]

ASSUME JsonAssumption ==
  /\ {NESTING_LIMIT, INT_MAX} \subseteq Nat
  /\ NULL \notin Text /\ NULL \notin Items[NESTING_LIMIT]

Total[s \in Seq(Nat)] == IF s = <<>> THEN 0 ELSE Head(s) + Total[Tail(s)]

(* An item without its children: itself and its strings. *)
Own(i) == 1 + (IF i.string # NULL THEN 1 ELSE 0) + (IF i.name # NULL THEN 1 ELSE 0)

(* The blocks that cJSON_Delete frees: of an item, those behind it, *)
(* their strings and their children.                                *)
BlocksOf[n \in Nat] == [items \in Seq(Items[n]) |->
  Total[[k \in DOMAIN items |->
           Own(items[k]) + (IF n = 0 THEN 0 ELSE BlocksOf[n - 1][items[k].child])]]]

Blocks(items) == BlocksOf[NESTING_LIMIT][items]

Deleted(p, items) == [p EXCEPT !.live = @ - Blocks(items)]

Typed(kind) == [cJSON_New_Item EXCEPT !.type = kind]

-----------------------------------------------------------------------------
(* The text. *)

parse_buffer == [content : Text, offset : Nat, depth : Nat]

CanAccess(buf, i) == buf.offset + i < Len(buf.content)

At(buf, i) == buf.content[buf.offset + i + 1]

Is(buf, c) == CanAccess(buf, 0) /\ At(buf, 0) = c

To(buf, o) == [buf EXCEPT !.offset = o]

(* The first position from o on at which the byte is in stop, or the end. *)
FirstFrom(s, o, stop) ==
  CHOOSE e \in o..Len(s) : /\ e < Len(s) => s[e + 1] \in stop
                           /\ \A i \in (o + 1)..e : s[i] \notin stop

(* The 0 at the end is a blank too, and is stepped back to. *)
buffer_skip_whitespace(buf) ==
  LET e == FirstFrom(buf.content, buf.offset, 33..255)
  IN  IF ~CanAccess(buf, 0) THEN buf.offset ELSE IF e = Len(buf.content) THEN e - 1 ELSE e

Skip(buf, o) == To(buf, buffer_skip_whitespace(To(buf, o)))

skip_utf8_bom(b) == IF Len(b) > 4 /\ SubSeq(b, 1, 3) = <<239, 187, 191>> THEN 3 ELSE 0

(* The parse of a value that ends at off. *)
Parsed(off, item, live) == [ok |-> TRUE, off |-> off, item |-> item, live |-> live, safe |-> TRUE]

Refused(buf) ==
  [ok |-> FALSE, off |-> buf.offset, item |-> cJSON_New_Item, live |-> 0, safe |-> TRUE]

-----------------------------------------------------------------------------
(* Numbers. *)

Unsigned(s) == IF s # <<>> /\ s[1] \in {Minus, Plus} THEN Tail(s) ELSE s

IsMantissa(s) ==
  /\ \E k \in DOMAIN s : s[k] \in Digit
  /\ \A k \in DOMAIN s : s[k] \in Digit \cup {Point}
  /\ \A j, k \in DOMAIN s : s[j] = Point /\ s[k] = Point => j = k

IsExponent(s) == s = <<>> \/ /\ s[1] \in LetterE
                             /\ Unsigned(Tail(s)) # <<>> /\ \A k \in DOMAIN Unsigned(Tail(s)) : Unsigned(Tail(s))[k] \in Digit

(* The number a sequence of digits is, INT_MAX + 1 for all beyond it. *)
ValueOf[s \in Text] ==
  IF s = <<>> THEN 0
  ELSE LET n == ValueOf[Front(s)] * 10 + (Last(s) - 48) IN IF n > INT_MAX THEN INT_MAX + 1 ELSE n

(* The integer part of m times ten to the shift: the digits before the      *)
(* point, which moves.                                                      *)
Decimal(m, shift) ==
  LET point == IF Point \in Range(m) THEN (CHOOSE k \in DOMAIN m : m[k] = Point) - 1 ELSE Len(m)
  IN  ValueOf[[k \in 1..(point + shift) |->
        IF k <= point THEN m[k] ELSE IF k < Len(m) THEN m[k + 1] ELSE 48]]

Shift(e) == IF e = <<>> THEN 0 ELSE IF e[1] = Minus THEN -ValueOf[Tail(e)] ELSE ValueOf[Unsigned(e)]

(* The longest beginning that is a number: the ends of its mantissa and of  *)
(* its exponent.                                                            *)
Longest(splits) ==
  CHOOSE p \in splits : \A q \in splits : q[2] < p[2] \/ (q[2] = p[2] /\ p[1] <= q[1])

NumberAt(s, p) ==
  [taken |-> p[2],
   value |-> (IF s[1] = Minus THEN -1 ELSE 1)
               * Decimal(Unsigned(SubSeq(s, 1, p[1])), Shift(SubSeq(s, p[1] + 2, p[2])))]

(* How many bytes strtod takes, and what it makes of them, without the      *)
(* fraction.                                                                *)
Strtod(s) ==
  LET splits == {p \in (1..Len(s)) \X (1..Len(s)) :
                   /\ p[1] <= p[2] /\ IsMantissa(Unsigned(SubSeq(s, 1, p[1])))
                   /\ IsExponent(SubSeq(s, p[1] + 1, p[2]))}
  IN  IF splits = {} THEN [taken |-> 0, value |-> 0] ELSE NumberAt(s, Longest(splits))

NumberBytes == Digit \cup LetterE \cup {Plus, Minus, Point}

OtherBytes == Byte \ NumberBytes

(* valueint, which saturates. *)
Saturated(n) == IF n >= INT_MAX THEN INT_MAX ELSE IF n <= INT_MIN THEN INT_MIN ELSE n

Number(buf, n) ==
  IF n.taken = 0 THEN Refused(buf)
  ELSE Parsed(buf.offset + n.taken, [Typed("Number") EXCEPT !.int = Saturated(n.value)], 0)

(* The copy of the number is freed on both ways out. *)
parse_number(buf) ==
  Number(buf, Strtod(SubSeq(buf.content, buf.offset + 1, FirstFrom(buf.content, buf.offset, OtherBytes))))

-----------------------------------------------------------------------------
(* Strings. *)

Hex(c) ==
  CASE c \in Digit   -> c - 48
    [] c \in 65..70  -> c - 55
    [] c \in 97..102 -> c - 87
    [] OTHER         -> -1

(* An invalid digit makes 0 of all four. *)
parse_hex4(s) ==
  IF \E k \in 1..4 : Hex(s[k]) = -1 THEN 0
  ELSE Hex(s[1]) * 4096 + Hex(s[2]) * 256 + Hex(s[3]) * 16 + Hex(s[4])

(* Mutant: the code point is not shifted. *)
ContinuationLow(c, shift) == 128 + (c % 64)

(* A continuation byte of UTF-8: six bits of the code point. *)
Continuation(c, shift) == 128 + ((c \div shift) % 64)

Utf8(c) ==
  CASE c < 128   -> <<c>>
    [] c >= 128 /\ c < 2048 -> <<192 + c \div 64, Continuation(c, 1)>>
    [] c >= 2048 /\ c < 65536 -> <<224 + c \div 4096, Continuation(c, 64), Continuation(c, 1)>>
    [] OTHER -> <<240 + c \div 262144, Continuation(c, 4096), Continuation(c, 64), Continuation(c, 1)>>

High(c) == 55296 <= c /\ c <= 56319

Low(c) == 56320 <= c /\ c <= 57343

NoLiteral == [length |-> 0, out |-> <<>>]

(* A surrogate pair. *)
Pair(first, second) ==
  IF ~Low(second) THEN NoLiteral
  ELSE [length |-> 12, out |-> Utf8(65536 + (first % 1024) * 1024 + (second % 1024))]

Literal(s, first) ==
  IF Low(first) THEN NoLiteral
  ELSE IF ~High(first) THEN [length |-> 6, out |-> Utf8(first)]
  ELSE IF Len(s) < 12 \/ SubSeq(s, 7, 8) # <<Backslash, LetterU>> THEN NoLiteral
  ELSE Pair(first, parse_hex4(SubSeq(s, 9, 12)))

(* s is the input from the backslash to the end of the string.  length 0 is *)
(* a failure.                                                               *)
utf16_literal_to_utf8(s) ==
  IF Len(s) < 6 THEN NoLiteral ELSE Literal(s, parse_hex4(SubSeq(s, 3, 6)))

(* The escapes of one letter and what they stand for: b, f, n, r, t, and    *)
(* the quote, the slash and the backslash.                                  *)
Escapes == [c \in {98, 102, 110, 114, 116, 34, 47, 92} |->
  CASE c = 98 -> 8 [] c = 102 -> 12 [] c = 110 -> 10 [] c = 114 -> 13 [] c = 116 -> 9 [] OTHER -> c]

(* How many bytes of s are before the closing quote; no less than s has if  *)
(* there is none.                                                           *)
StringEnd[s \in Text] ==
  IF s = <<>> \/ s[1] = Quote THEN 0
  ELSE IF s[1] = Backslash THEN 2 + StringEnd[SubSeq(s, 3, Len(s))] ELSE 1 + StringEnd[Tail(s)]

(* From here on s is a string, or the rest of one, without its quotes. *)

(* How many backslashes the search for the closing quote has stepped over. *)
Skipped[s \in Text] ==
  IF s = <<>> THEN 0
  ELSE IF s[1] = Backslash THEN 1 + Skipped[SubSeq(s, 3, Len(s))] ELSE Skipped[Tail(s)]

(* What follows a backslash; that may be the closing quote. *)
Letter(s) == IF Len(s) = 1 THEN Quote ELSE s[2]

(* The output for a string that begins with what becomes out, or NULL. *)
Behind(out, rest) == IF rest = NULL THEN NULL ELSE out \o rest

Unescaped[s \in Text] ==
  LET u == utf16_literal_to_utf8(s)
  IN  IF s = <<>> THEN <<>>
      ELSE IF s[1] # Backslash THEN Behind(<<s[1]>>, Unescaped[Tail(s)])
      ELSE IF Letter(s) \in DOMAIN Escapes THEN Behind(<<Escapes[Letter(s)]>>, Unescaped[SubSeq(s, 3, Len(s))])
      ELSE IF Letter(s) = LetterU /\ u.length # 0 THEN Behind(u.out, Unescaped[SubSeq(s, u.length + 1, Len(s))])
      ELSE NULL

Allocation(s) == Len(s) + 1 - Skipped[s] + 1

(* The output is allocated once the closing quote is found, and freed if    *)
(* an escape is invalid.                                                    *)
Unquoted(buf, s) ==
  IF Unescaped[s] = NULL THEN Refused(buf)
  ELSE [Parsed(buf.offset + Len(s) + 2, [Typed("String") EXCEPT !.string = Unescaped[s]], 1)
          EXCEPT !.safe = Len(Unescaped[s]) + 1 <= Allocation(s)]

(* s is the text behind the opening quote. *)
Quoted(buf, s) ==
  IF StringEnd[s] >= Len(s) THEN Refused(buf) ELSE Unquoted(buf, SubSeq(s, 1, StringEnd[s]))

parse_string(buf) ==
  IF Is(buf, Quote) THEN Quoted(buf, SubSeq(buf.content, buf.offset + 2, Len(buf.content)))
  ELSE [Refused(buf) EXCEPT !.safe = CanAccess(buf, 0)]

-----------------------------------------------------------------------------
(* Values.  Parse[<<"Value", buf>>] is the parse of the value at buf, and    *)
(* Parse[<<"Array", buf>>] or Parse[<<"Object", buf>>] that of the elements  *)
(* of one from the one at buf on: a record with their items, all there are  *)
(* when it fails.  P is Parse.                                              *)

Word(buf, s) ==
  /\ buf.offset + Len(s) <= Len(buf.content)
  /\ SubSeq(buf.content, buf.offset + 1, buf.offset + Len(s)) = s

Bracket(kind) == IF kind = "Array" THEN CloseArray ELSE CloseObject

(* Mutant: what a failed array or object has so far is left. *)
FailedKeeps(r) ==
  [ok |-> FALSE, off |-> r.off, item |-> cJSON_New_Item, live |-> r.live, safe |-> r.safe]

(* An array or object of which only the items of r were parsed. *)
Failed(r) ==
  [ok |-> FALSE, off |-> r.off, item |-> cJSON_New_Item, live |-> r.live - Blocks(r.items), safe |-> r.safe]

Filled(kind, r) ==
  [ok |-> TRUE, off |-> r.off + 1, item |-> [Typed(kind) EXCEPT !.child = r.items],
   live |-> r.live, safe |-> r.safe]

(* Mutant: the end of the text closes everything. *)
CloseAtEnd(buf, kind, r) ==
  IF r.ok /\ (Is(To(buf, r.off), Bracket(kind)) \/ Is(To(buf, r.off), 0)) THEN Filled(kind, r) ELSE Failed(r)

(* r is the parse of all elements. *)
Close(buf, kind, r) ==
  IF r.ok /\ Is(To(buf, r.off), Bracket(kind)) THEN Filled(kind, r) ELSE Failed(r)

(* What parse_array and parse_object have in common. *)
Structure(P, buf, kind) ==
  LET q == Skip([buf EXCEPT !.depth = @ + 1], buf.offset + 1)
  IN  IF buf.depth >= NESTING_LIMIT \/ ~CanAccess(q, 0) THEN Refused(buf)
      ELSE IF Is(q, Bracket(kind)) THEN Parsed(q.offset + 1, Typed(kind), 0)
      ELSE Close(buf, kind, P[<<kind, q>>])

Value(P, buf) ==
  IF Word(buf, NullWord) THEN Parsed(buf.offset + 4, Typed("NULL"), 0)
  ELSE IF Word(buf, FalseWord) THEN Parsed(buf.offset + 5, Typed("False"), 0)
  ELSE IF Word(buf, TrueWord) THEN Parsed(buf.offset + 4, [Typed("True") EXCEPT !.int = 1], 0)
  ELSE IF ~CanAccess(buf, 0) THEN Refused(buf)
  ELSE CASE At(buf, 0) = Quote                 -> parse_string(buf)
         [] At(buf, 0) \in Digit \cup {Minus}  -> parse_number(buf)
         [] At(buf, 0) = OpenArray             -> Structure(P, buf, "Array")
         [] At(buf, 0) = OpenObject            -> Structure(P, buf, "Object")
         [] OTHER                              -> Refused(buf)

(* The last element there is: s is the parse of its name, v of its value.   *)
Only(s, v, off) ==
  [ok |-> v.ok, off |-> off, items |-> <<[v.item EXCEPT !.name = s.item.string]>>,
   live |-> 1 + s.live + v.live, safe |-> s.safe /\ v.safe]

Joined(e, r) ==
  [r EXCEPT !.items = e.items \o @, !.live = @ + e.live, !.safe = @ /\ e.safe]

(* An element, and those behind it if there is a comma. *)
Element(P, buf, kind, s, v) ==
  LET q == Skip(buf, v.off)
      e == Only(s, v, q.offset)
  IN  IF v.ok /\ Is(q, Comma) THEN Joined(e, P[<<kind, Skip(buf, q.offset + 1)>>]) ELSE e

(* s is the parse of a name. *)
Member(P, buf, s) ==
  LET q == Skip(buf, s.off)
  IN  IF s.ok /\ Is(q, Colon) THEN Element(P, buf, "Object", s, P[<<"Value", Skip(buf, q.offset + 1)>>])
      ELSE Only(s, Refused(q), q.offset)

Elements(P, buf, kind) ==
  IF kind = "Array" THEN Element(P, buf, kind, Refused(buf), P[<<"Value", buf>>])
  ELSE IF CanAccess(buf, 0) THEN Member(P, buf, parse_string(buf))
  ELSE Only(Refused(buf), Refused(buf), buf.offset)

Parse[x \in {"Value", "Array", "Object"} \X parse_buffer] ==
  IF x[1] = "Value" THEN Value(Parse, x[2]) ELSE Elements(Parse, x[2], x[1])

-----------------------------------------------------------------------------
(* What main calls. *)

(* Of the parse p of the value of a new item. *)
Result(p) ==
  LET q == [p EXCEPT !.live = @ + 1]
  IN  IF p.ok THEN q ELSE [Deleted(q, <<p.item>>) EXCEPT !.item = NULL]

(* b is the text with the 0 that ends it. *)
cJSON_Parse(b) ==
  Result(Parse[<<"Value", Skip([content |-> b, offset |-> 0, depth |-> 0], skip_utf8_bom(b))>>])

(* The search ends at a child without a name, as those of an array are. *)
cJSON_GetObjectItemCaseSensitive(object, name) ==
  LET stops == {k \in DOMAIN object.child :
                  \/ object.child[k].name = NULL
                  \/ CString(object.child[k].name) = name}
  IN  IF stops = {} \/ object.child[Min(stops)].name = NULL THEN NULL
      ELSE object.child[Min(stops)]

=============================================================================
