------------------------------ MODULE Commands ------------------------------
(***************************************************************************)
(* From a line or a message to what is done with it: parse_input           *)
(* (src/utils.c) in every thread at once, run_command of the cli           *)
(* (src/cli.c), and the dispatch of main_handler (src/server.c).           *)
(*                                                                         *)
(* parse_input calls strtok until it returns NULL.  strtok keeps its       *)
(* position in one static variable of the process, without a lock: a call  *)
(* reads it, scans for a word, and then writes a 0 behind the word and the *)
(* new position.  Other threads run between any two of these steps, and    *)
(* the buffer a position leads into may have been used again meanwhile.    *)
(***************************************************************************)
EXTENDS Integers, Sequences, Functions

CONSTANTS
  Cli,           \* the thread of the cli
  Workers,       \* the threads that handle messages
  Inputs,        \* what may be parsed: from where, its words, what it asks for
  MaxInputs,     \* bound: lines and messages that come
  MaxWords,      \* bound: words a thread finds before it stops
  CAPACITY,      \* of the array parse_input creates, 5
  MAX_INCREMENT, \* 1000
  Beginnings,    \* per word: what is left of it when a 0 is written into it
  Garbage        \* a text that names nothing

Threads == Workers \cup {Cli}

Words == UNION {Range(i.words) : i \in Inputs}

ASSUME CommandsAssumption ==
  /\ Cli \notin Workers /\ 0 \notin Threads
  /\ {MaxInputs, MaxWords, CAPACITY, MAX_INCREMENT} \subseteq Nat \ {0}
  /\ \A i \in Inputs : i.via \in {"cli", "body", "tcp", "udp"} /\ i.words \in Seq(Words)
  /\ DOMAIN Beginnings = Words

VARIABLES
  arrived,  \* how many lines and messages have come
  buffer,   \* per buffer: what is in it, and the zeros written into it
  save,     \* strtok's position
  task,     \* what each thread is parsing, and the array it fills
  peeking   \* the cli shows what a peek has listed

vars == <<arrived, buffer, save, task, peeking>>

(* One of each thread, and the strings of a peek. *)
Buffers == Threads \cup {0}

(* cut: the words a 0 stands behind.  torn: those a 0 was written into.    *)
Contents == [used : BOOLEAN, words : Seq(Words), cut : SUBSET Nat, torn : SUBSET Nat]

(* A buffer between two inputs is used for other things. *)
NoContent == [used |-> FALSE, words |-> <<>>, cut |-> {}, torn |-> {}]

Content(ws) == [used |-> TRUE, words |-> ws, cut |-> {}, torn |-> {}]

(* live: what it was read or scanned in is still there.  The word that is   *)
(* next, or 0: at a 0, with no word left.                                   *)
Positions == [buffer : Buffers, live : BOOLEAN, next : Nat]

(* What a scan has found: no word, a word, or a part of one.  ends: a 0 is  *)
(* behind it already.  The place 0 is outside of the input that is there.   *)
Tokens == [kind : {"none", "word", "part"}, place : Nat, ends : BOOLEAN]

NoToken == [kind |-> "none", place |-> 0, ends |-> TRUE]

Text == Words \cup {Garbage} \cup UNION Range(Beginnings)

(* An array: its size is the length of elems. *)
Arrays == [elems : Seq(Text), capacity : Nat \ {0}]

EmptyArray == [elems |-> <<>>, capacity |-> CAPACITY]

(* A position in what is not there any more. *)
Lost(b) == [buffer |-> b, live |-> FALSE, next |-> 0]

Nowhere == Lost(Cli)

NoInput == [via |-> "none", words |-> <<>>, asks |-> "nothing"]

(* disturbed: a call of strtok by another thread fell, in part or in whole, *)
(* between the arrival of this input and the end of its parse.              *)
Tasks == [phase : {"idle", "received", "reading", "taking", "between", "parsed"},
          input : Inputs \cup {NoInput}, buffer : Buffers, array : Arrays,
          at : Positions, found : Tokens, disturbed : BOOLEAN]

Idle == [phase |-> "idle", input |-> NoInput, buffer |-> Cli, array |-> EmptyArray,
         at |-> Nowhere, found |-> NoToken, disturbed |-> FALSE]

TypeOK ==
  /\ arrived \in 0..MaxInputs
  /\ buffer \in [Buffers -> Contents]
  /\ save \in Positions
  /\ task \in [Threads -> Tasks]
  /\ \A t \in Threads :
       /\ task[t].phase # "idle" => task[t].input \in Inputs
       /\ Len(task[t].array.elems) <= task[t].array.capacity
  /\ peeking \in BOOLEAN

Init ==
  /\ arrived = 0
  /\ buffer = [b \in Buffers |-> NoContent]
  /\ save = Nowhere
  /\ task = [t \in Threads |-> Idle]
  /\ peeking = FALSE

-----------------------------------------------------------------------------
(* The array of words. *)

(* Mutant: the array is enlarged when it is more than full. *)
EnlargedLate(a) ==
  IF Len(a.elems) > a.capacity THEN a.capacity * 2 ELSE a.capacity

(* The capacity with which one more value finds room. *)
Enlarged(a) ==
  IF Len(a.elems) + 1 > a.capacity
  THEN a.capacity + (IF a.capacity * 2 < MAX_INCREMENT THEN a.capacity * 2 ELSE MAX_INCREMENT)
  ELSE a.capacity

(* With str_copy: an element is a text of its own, whatever becomes of the  *)
(* buffer.                                                                  *)
array_add(a, x) == [elems |-> Append(a.elems, x), capacity |-> Enlarged(a)]

-----------------------------------------------------------------------------
(* An input arrives in the buffer of its thread. *)

(* The same place on the stack of the thread for every line or message. *)
BufferOf(t, i) == IF i.via = "body" THEN 0 ELSE t

(* In a call of strtok. *)
Calling(t) == task[t].phase \in {"reading", "taking"}

(* Between the arrival of an input and the end of its parse. *)
InWindow(t) == task[t].phase \in {"received", "reading", "taking", "between"}

(* Who may be given an input: the cli parses bodies when it has peeked. *)
MayReceive(t, i) ==
  /\ task[t].phase = "idle" /\ (i.via \in {"cli", "body"} <=> t = Cli)
  /\ i.via = "body" => peeking

(* What is in a buffer changes, and nobody is in it any more. *)
Leave(b, p) == IF p.buffer = b THEN Lost(b) ELSE p

LeaveTask(b, x) ==
  IF x.at.buffer = b THEN [x EXCEPT !.at = Lost(b), !.found.place = 0] ELSE x

Receive(t, i) ==
  /\ arrived < MaxInputs /\ MayReceive(t, i)
  /\ arrived' = arrived + 1
  /\ LET b == BufferOf(t, i)
     IN  /\ buffer' = [buffer EXCEPT ![b] = Content(i.words)]
         /\ save' = Leave(b, save)
         /\ task' = [u \in Threads |->
              IF u = t
              THEN [Idle EXCEPT !.phase = "received", !.input = i, !.buffer = b,
                                !.disturbed = \E v \in Threads \ {t} : Calling(v)]
              ELSE LeaveTask(b, task[u])]
  /\ peeking' = IF t = Cli THEN i.via = "body" ELSE peeking

-----------------------------------------------------------------------------
(* strtok *)

(* What a call that begins does to the parses of the others. *)
Disturbed(t, x) == [u \in Threads |-> IF u # t /\ InWindow(u) THEN [x[u] EXCEPT !.disturbed = TRUE] ELSE x[u]]

(* A 0 is behind the k-th word, or in it. *)
Ends(c, k) == k = Len(c.words) \/ k \in c.cut \cup c.torn

(* What there is at a position of the input that is in the buffer.  Of a    *)
(* word with a 0 in it nothing may be left.                                 *)
Here(c, k) ==
  IF k = 0 THEN {NoToken}
  ELSE {[kind |-> "word", place |-> k, ends |-> Ends(c, k)]}
       \cup (IF k \in c.torn THEN {NoToken} ELSE {})

(* What there may be at a position of an earlier one: it leads to any place *)
(* of what is in the buffer now, to the middle of a word, or behind it all. *)
Anywhere(c) ==
  {NoToken}
  \cup {[kind |-> "part", place |-> 0, ends |-> e] : e \in BOOLEAN}
  \cup {[kind |-> kind, place |-> k, ends |-> Ends(c, k)] :
           kind \in {"word", "part"}, k \in DOMAIN c.words}

(* The call with an input: from its beginning over spaces to a word, and    *)
(* over the word to its end.  It does not look at the saved position.       *)
First(t) ==
  /\ task[t].phase = "received"
  /\ LET b == task[t].buffer
         k == IF buffer[b].words = <<>> THEN 0 ELSE 1
     IN  \E f \in Here(buffer[b], k) :
           task' = Disturbed(t, [task EXCEPT ![t].phase = "taking", ![t].found = f,
                                             ![t].at = [buffer |-> b, live |-> TRUE, next |-> k]])
  /\ UNCHANGED <<arrived, buffer, save, peeking>>

(* strtok(NULL) reads the saved position. *)
Begin(t) ==
  /\ task[t].phase = "between" /\ Len(task[t].array.elems) < MaxWords
  /\ task' = Disturbed(t, [task EXCEPT ![t].phase = "reading", ![t].at = save])
  /\ UNCHANGED <<arrived, buffer, save, peeking>>

(* And scans from there. *)
Scan(t) ==
  /\ task[t].phase = "reading"
  /\ LET p == task[t].at
         c == buffer[p.buffer]
     IN  \E f \in IF p.live THEN Here(c, p.next) ELSE Anywhere(c) :
           task' = [task EXCEPT ![t].phase = "taking", ![t].found = f, ![t].at.live = c.used]
  /\ UNCHANGED <<arrived, buffer, save, peeking>>

(* What array_add copies from the place where the word was found. *)
Token(c, p, f) ==
  IF ~p.live THEN {Garbage} \cup Range(c.words)
  ELSE IF f.kind = "part" THEN {Garbage}
  ELSE IF f.place \in c.torn THEN Beginnings[c.words[f.place]] ELSE {c.words[f.place]}

(* The buffer when a 0 has been written where the word ended: if another    *)
(* input has come since, behind one of its words, into one, or to nowhere.  *)
Written(c, p, f) ==
  IF f.ends \/ (p.live /\ f.place = 0) THEN {c}
  ELSE IF p.live THEN {[c EXCEPT !.cut = @ \cup {f.place}]}
  ELSE {c} \cup UNION {{[c EXCEPT !.cut = @ \cup {k}], [c EXCEPT !.torn = @ \cup {k}]} :
                         k \in DOMAIN c.words}

(* The position behind a word: at the 0 that was there, or beyond the new   *)
(* one.                                                                     *)
Behind(p, f) ==
  IF ~p.live \/ f.place = 0 THEN Lost(p.buffer)
  ELSE [p EXCEPT !.next = IF f.ends THEN 0 ELSE f.place + 1]

(* A call is over: what it has read is of no use any more. *)
Over(phase, x) == [x EXCEPT !.phase = phase, !.at = Nowhere, !.found = NoToken]

(* The end of a call that has found a word. *)
Take(t) ==
  /\ task[t].phase = "taking" /\ task[t].found.kind # "none"
  /\ LET p == task[t].at
         f == task[t].found
     IN  /\ \E x \in Token(buffer[p.buffer], p, f) :
              task' = [task EXCEPT ![t] = Over("between", [task[t] EXCEPT !.array = array_add(@, x)])]
         /\ \E c \in Written(buffer[p.buffer], p, f) : buffer' = [buffer EXCEPT ![p.buffer] = c]
         /\ save' = Behind(p, f)
  /\ UNCHANGED <<arrived, peeking>>

(* The thread goes on to other things, and so does its buffer. *)
Release(t, p) ==
  LET b == task[t].buffer
  IN  /\ buffer' = [buffer EXCEPT ![b] = NoContent]
      /\ save' = Leave(b, p)
      /\ task' = [u \in Threads |-> IF u = t THEN Idle ELSE LeaveTask(b, task[u])]

(* The end of a call that has not: strtok returns NULL, and so does         *)
(* parse_input if this was its first.                                       *)
TakeNone(t) ==
  /\ task[t].phase = "taking" /\ task[t].found.kind = "none"
  /\ LET p == [task[t].at EXCEPT !.next = 0]
     IN  IF task[t].array.elems = <<>> THEN Release(t, p)
         ELSE save' = p /\ task' = [task EXCEPT ![t] = Over("parsed", task[t])] /\ UNCHANGED buffer
  /\ UNCHANGED <<arrived, peeking>>

-----------------------------------------------------------------------------
command_mapping(w) == IF w \in {"help", "neighbors", "peek", "search", "download"} THEN w ELSE "undefined"

(* Mutant: the number of words is not looked at. *)
CommandAnyArguments(ws) ==
  LET cmd == command_mapping(ws[1]) IN IF cmd = "search" THEN "nothing" ELSE cmd

(* run_command: search is a command without a case. *)
Command(ws) ==
  LET cmd == command_mapping(ws[1])
  IN  CASE cmd = "search"                       -> "nothing"
        [] cmd = "peek" /\ Len(ws) # 2          -> "arguments"
        [] cmd = "download" /\ Len(ws) # 3      -> "arguments"
        [] OTHER                                -> cmd

(* A body is shown if it is two words. *)
print_peeked_file(ws) == IF Len(ws) = 2 THEN "shown" ELSE "hidden"

(* Mutant: a request of one word is taken for a peek. *)
RequestBySize(ws, via) ==
  CASE via = "tcp" /\ Len(ws) = 2 /\ ws[1] = "DOWNLOAD_REQUEST" -> "transfer"
    [] via = "tcp" /\ Len(ws) = 1                              -> "list"
    [] via = "udp" /\ Len(ws) = 4 /\ ws[1] = "HELLO"            -> "hello"
    [] OTHER -> IF via = "tcp" THEN "error" ELSE "nothing"

(* What main_handler does with a message.  An address is two words. *)
Request(ws, via) ==
  CASE via = "tcp" /\ Len(ws) = 2 /\ ws[1] = "DOWNLOAD_REQUEST" -> "transfer"
    [] via = "tcp" /\ Len(ws) = 1 /\ ws[1] = "PEEK_REQUEST"     -> "list"
    [] via = "udp" /\ Len(ws) = 4 /\ ws[1] = "HELLO"            -> "hello"
    [] OTHER -> IF via = "tcp" THEN "error" ELSE "nothing"

Deed(ws, via) ==
  CASE via = "cli"  -> Command(ws)
    [] via = "body" -> print_peeked_file(ws)
    [] OTHER        -> Request(ws, via)

(* What a thread whose parse is over is going to do. *)
DeedOf(t) == Deed(task[t].array.elems, task[t].input.via)

(* It does that, and destroys the array. *)
Act(t) ==
  /\ task[t].phase = "parsed"
  /\ peeking' = IF t = Cli THEN DeedOf(t) \in {"peek", "shown", "hidden"} ELSE peeking
  /\ Release(t, save)
  /\ UNCHANGED arrived

-----------------------------------------------------------------------------
(* A bound has been reached. *)
Quiet ==
  /\ \/ arrived = MaxInputs /\ \A t \in Threads : task[t] = Idle
     \/ \E t \in Threads : Len(task[t].array.elems) = MaxWords
  /\ UNCHANGED vars

Next ==
  \/ \E t \in Threads :
       \/ \E i \in Inputs : Receive(t, i)
       \/ First(t) \/ Begin(t) \/ Scan(t) \/ Take(t) \/ TakeNone(t) \/ Act(t)
  \/ Quiet

Spec == Init /\ [][Next]_vars

-----------------------------------------------------------------------------
(* Properties. *)

(* What is done is what the line or the message asks for, by the usage that *)
(* help prints (cli.c:35-42) and the forms of the messages, unless another  *)
(* thread was in strtok at some time between the arrival of the input and   *)
(* the end of its parse: what it did before, and where it left strtok's     *)
(* position and its zeros, does no harm.                                    *)
DoesWhatIsAsked ==
  \A t \in Threads : task[t].phase = "parsed" /\ ~task[t].disturbed =>
    DeedOf(t) = task[t].input.asks

Refusals == {"nothing", "arguments", "undefined", "error", "hidden"}

(* What a first word names, whatever comes behind it. *)
Named(w, via) ==
  CASE via = "cli"                             -> command_mapping(w)
    [] via = "body"                            -> "shown"
    [] via = "tcp" /\ w = "DOWNLOAD_REQUEST"   -> "transfer"
    [] via = "tcp" /\ w = "PEEK_REQUEST"       -> "list"
    [] via = "udp" /\ w = "HELLO"              -> "hello"
    [] OTHER                                   -> "nothing"

(* However the calls of strtok are mixed up, a thread does nothing but what *)
(* the first word of its own input names, or a beginning of that word, or   *)
(* it refuses: it may lose arguments and be given those of others, but not  *)
(* carry out their commands (utils.c:7).                                    *)
NeverAnotherCommand ==
  \A t \in Threads : task[t].phase = "parsed" =>
    LET i == task[t].input
    IN  \/ DeedOf(t) \in Refusals
        \/ \E w \in {i.words[1]} \cup Beginnings[i.words[1]] : DeedOf(t) = Named(w, i.via)

(* parse_input returns the words of its input (utils.h:10): violated when   *)
(* two threads parse at the same time.                                      *)
ParsesItsInput ==
  \A t \in Threads : task[t].phase = "parsed" =>
    task[t].array.elems = task[t].input.words

=============================================================================
