--------------------------- MODULE CommandsProofs ---------------------------
(***************************************************************************)
(* Proofs about the command line: Commands, and at the end Peek.           *)
(*                                                                         *)
(* Commands is taken for any number of threads and of lines and messages   *)
(* of any length, and any capacities of the array.                         *)
(*                                                                         *)
(* A position that is still good leads to a word of what is in its buffer  *)
(* (Placed).  The first word of a thread comes from its own buffer, which  *)
(* only the others' zeros have changed (OwnIn, FirstIn).  A parse that     *)
(* nobody disturbs has taken the first words of its input, has cut off     *)
(* those and no other, and strtok's position is behind them (AloneIn), so  *)
(* that it has all of them when it ends (CompleteIn).                      *)
(***************************************************************************)
EXTENDS Commands, Peek, FiniteSetTheorems, SequenceTheorems, WellFoundedInduction, TLAPS

Elems(t) == task[t].array.elems

(* What is in the buffer of t. *)
Own(t) == buffer[task[t].buffer]

(* A position that is live is in an input: at a word of it, or at its end. *)
InPlace(p) ==
  /\ p.live => buffer[p.buffer].used
  /\ p.next = 0 \/ (p.live /\ p.next \in DOMAIN buffer[p.buffer].words)

(* So is what was found there, unless it is outside. *)
TokenIn(t) ==
  LET f == task[t].found
      p == task[t].at
      n == buffer[p.buffer].words
  IN  task[t].phase = "taking" /\ p.live /\ f.kind # "none" =>
        /\ f.place = 0 => f.kind = "part"
        /\ f.place # 0 => f.place \in DOMAIN n /\ (f.ends \/ f.place # Len(n))

(* Of strtok, and of every thread in it. *)
Placed == InPlace(save) /\ \A t \in Threads : InPlace(task[t].at) /\ TokenIn(t)

(* A thread at work has an input of its kind in a buffer of its own. *)
OwnIn(t) ==
  task[t].phase # "idle" =>
    /\ task[t].input \in Inputs
    /\ task[t].input.via \in {"cli", "body"} <=> t = Cli
    /\ task[t].buffer = BufferOf(t, task[t].input)
    /\ Own(t).used /\ Own(t).words = task[t].input.words

(* Its first word comes from there, or is to come from there. *)
FirstIn(t) ==
  LET i == task[t].input
      f == task[t].found
  IN  /\ task[t].phase \in {"reading", "between", "parsed"} => Elems(t) # <<>>
      /\ task[t].phase # "idle" /\ Elems(t) # <<>> =>
           Elems(t)[1] \in {i.words[1]} \cup Beginnings[i.words[1]]
      /\ task[t].phase = "received" => Elems(t) = <<>>
      /\ task[t].phase = "taking" /\ Elems(t) = <<>> =>
           /\ task[t].at.buffer = task[t].buffer /\ task[t].at.live
           /\ f.kind # "none" => f.kind = "word" /\ f.place = 1

(* The place of the word behind the first k of n, or 0. *)
After(k, n) == IF k = n THEN 0 ELSE k + 1

(* Where t is in its input. *)
Expected(t) ==
  [buffer |-> task[t].buffer, live |-> TRUE,
   next |-> After(Len(Elems(t)), Len(task[t].input.words))]

(* What it finds there. *)
ExpectedToken(k, n) ==
  IF k = n THEN NoToken ELSE [kind |-> "word", place |-> k + 1, ends |-> k + 1 = n]

(* Nobody is in strtok besides t, and t has taken the first words of its    *)
(* input, cut off what it has taken, and goes on behind it.                 *)
AloneIn(t) ==
  LET i == task[t].input
      k == Len(Elems(t))
      n == Len(i.words)
  IN  InWindow(t) /\ ~task[t].disturbed =>
        /\ \A u \in Threads \ {t} : ~Calling(u)
        /\ k <= n /\ Elems(t) = SubSeq(i.words, 1, k)
        /\ Own(t).torn = {} /\ Own(t).cut = (1..k) \ {n}
        /\ task[t].phase = "between" => save = Expected(t)
        /\ Calling(t) => task[t].at = Expected(t)
        /\ task[t].phase = "taking" => task[t].found = ExpectedToken(k, n)

(* And in the end all of them. *)
CompleteIn(t) ==
  task[t].phase = "parsed" /\ ~task[t].disturbed => Elems(t) = task[t].input.words

ThreadInv(t) == OwnIn(t) /\ FirstIn(t) /\ AloneIn(t) /\ CompleteIn(t)

Threaded == \A t \in Threads : ThreadInv(t)

(* The inductive invariant. *)
IInv == TypeOK /\ Placed /\ Threaded

-----------------------------------------------------------------------------
(* What the assumption on the constants says of them. *)
LEMMA ConstantFacts ==
  /\ CAPACITY \in Nat \ {0} /\ MAX_INCREMENT \in Nat \ {0} /\ MaxInputs \in Nat /\ MaxWords \in Nat
  /\ Cli \in Threads /\ 0 \notin Threads /\ Threads \subseteq Buffers /\ 0 \in Buffers
  /\ \A i \in Inputs : i.words \in Seq(Words) /\ i.via \in {"cli", "body", "tcp", "udp"}
  /\ \A w \in Words : Beginnings[w] \subseteq Text
  /\ Words \subseteq Text /\ Garbage \in Text
BY CommandsAssumption DEF Threads, Buffers, Text, Range

(* One more value always finds room. *)
LEMMA AddRoom ==
  ASSUME NEW a \in Arrays, NEW x \in Text, Len(a.elems) <= a.capacity
  PROVE  /\ array_add(a, x) \in Arrays
         /\ array_add(a, x).elems = Append(a.elems, x)
         /\ Len(array_add(a, x).elems) <= array_add(a, x).capacity
<1>1. a.elems \in Seq(Text) /\ a.capacity \in Nat \ {0}
  BY DEF Arrays
<1>2. Enlarged(a) \in Nat \ {0} /\ Len(a.elems) + 1 <= Enlarged(a)
  BY <1>1, ConstantFacts DEF Enlarged
<1>3. Append(a.elems, x) \in Seq(Text) /\ Len(Append(a.elems, x)) = Len(a.elems) + 1
  BY <1>1
<1> QED
  BY <1>2, <1>3 DEF array_add, Arrays

(* The array that a parse starts with has room. *)
LEMMA EmptyRoom == EmptyArray \in Arrays /\ EmptyArray.elems = <<>> /\ 0 <= EmptyArray.capacity
BY ConstantFacts DEF EmptyArray, Arrays

(* A thread without an input. *)
LEMMA IdleFacts ==
  /\ Idle \in Tasks /\ Idle.phase = "idle" /\ Idle.array.elems = <<>>
  /\ Len(Idle.array.elems) <= Idle.array.capacity /\ ~Idle.at.live /\ Idle.at.next = 0 /\ Nowhere \in Positions
  /\ NoToken \in Tokens /\ Idle.at = Nowhere /\ ~Nowhere.live /\ Nowhere.next = 0
BY ConstantFacts, EmptyRoom DEF Idle, Tasks, NoInput, NoToken, Tokens, Nowhere, Lost, Positions

(* A buffer between two inputs, and at the arrival of one. *)
LEMMA ContentFacts ==
  /\ NoContent \in Contents
  /\ \A i \in Inputs : Content(i.words) \in Contents
<1>1. <<>> \in Seq(Words) /\ {} \in SUBSET Nat
  OBVIOUS
<1>2. \A i \in Inputs : i.words \in Seq(Words)
  BY ConstantFacts
<1> QED
  BY <1>1, <1>2 DEF NoContent, Content, Contents

(* What a scan may find is of its type. *)
LEMMA TokenFacts ==
  /\ NoToken \in Tokens /\ NoToken.kind = "none"
  /\ \A kind \in {"word", "part"}, k \in Nat, e \in BOOLEAN :
       [kind |-> kind, place |-> k, ends |-> e] \in Tokens
BY DEF NoToken, Tokens

(* Leaving a buffer. *)
LEMMA LeaveFacts ==
  ASSUME NEW b \in Buffers, NEW p \in Positions
  PROVE  /\ Leave(b, p) \in Positions
         /\ p.buffer = b => ~Leave(b, p).live /\ Leave(b, p).next = 0
         /\ p.buffer # b => Leave(b, p) = p
BY DEF Leave, Lost, Positions

(* Leaving a buffer takes nothing from a thread but its place in it. *)
LEMMA LeaveTaskFacts ==
  ASSUME NEW b \in Buffers, NEW x \in Tasks
  PROVE  LET y == LeaveTask(b, x)
         IN  /\ y \in Tasks /\ y.phase = x.phase /\ y.input = x.input /\ y.buffer = x.buffer
             /\ y.array = x.array /\ y.disturbed = x.disturbed
             /\ x.at.buffer = b => ~y.at.live /\ y.at.next = 0
             /\ x.at.buffer # b => y = x
BY DEF LeaveTask, Lost, Positions, Tasks, Tokens

(* The mark of a disturbed parse changes nothing else. *)
LEMMA DisturbedFacts ==
  ASSUME NEW t \in Threads, NEW x \in [Threads -> Tasks]
  PROVE  /\ Disturbed(t, x) \in [Threads -> Tasks]
         /\ Disturbed(t, x)[t] = x[t]
         /\ \A u \in Threads :
              LET y == Disturbed(t, x)[u]
              IN  /\ y.phase = x[u].phase /\ y.input = x[u].input /\ y.buffer = x[u].buffer
                  /\ y.array = x[u].array /\ y.at = x[u].at /\ y.found = x[u].found
                  /\ x[u].disturbed => y.disturbed
                  /\ u # t /\ InWindow(u) => y.disturbed
<1>1. ASSUME NEW u \in Threads, NEW r \in Tasks
      PROVE  LET y == [r EXCEPT !.disturbed = TRUE]
             IN  /\ y \in Tasks /\ y.phase = r.phase /\ y.input = r.input /\ y.buffer = r.buffer
                 /\ y.array = r.array /\ y.at = r.at /\ y.found = r.found /\ y.disturbed
  BY DEF Tasks
<1> QED
  BY <1>1 DEF Disturbed

(* A change to one thread, and that mark for the others. *)
LEMMA CallFacts ==
  ASSUME NEW t \in Threads, task \in [Threads -> Tasks], NEW r \in Tasks,
         task' = Disturbed(t, [task EXCEPT ![t] = r])
  PROVE  /\ task' \in [Threads -> Tasks] /\ task'[t] = r
         /\ \A u \in Threads \ {t} :
              /\ task'[u].phase = task[u].phase /\ task'[u].input = task[u].input
              /\ task'[u].array = task[u].array /\ task'[u].at = task[u].at
              /\ task'[u].found = task[u].found
<1> DEFINE x == [task EXCEPT ![t] = r]
           y == Disturbed(t, x)
<1>1. x \in [Threads -> Tasks] /\ x[t] = r /\ \A u \in Threads \ {t} : x[u] = task[u]
  OBVIOUS
<1> HIDE DEF x
<1>2. y \in [Threads -> Tasks] /\ y[t] = x[t]
  BY <1>1, DisturbedFacts
<1>3. \A u \in Threads :
        /\ y[u].phase = x[u].phase /\ y[u].input = x[u].input
        /\ y[u].array = x[u].array /\ y[u].at = x[u].at
        /\ y[u].found = x[u].found
  BY <1>1, DisturbedFacts
<1>4. task' = y
  BY DEF x
<1> HIDE DEF y
<1> QED
  BY <1>1, <1>2, <1>3, <1>4

(* Two threads at work have two buffers. *)
LEMMA Apart ==
  ASSUME NEW t \in Threads, NEW u \in Threads \ {t}, NEW i, NEW j,
         i.via \in {"cli", "body"} <=> t = Cli, j.via \in {"cli", "body"} <=> u = Cli
  PROVE  BufferOf(t, i) # BufferOf(u, j) /\ BufferOf(t, i) \in Buffers
BY ConstantFacts DEF BufferOf, Buffers

-----------------------------------------------------------------------------
(* What a step of t leaves as it is. *)

(* The inputs in the buffers stay, and t is in a call. *)
LEMMA OtherSame ==
  ASSUME IInv, NEW t \in Threads, NEW u \in Threads \ {t},
         task'[u] = task[u], Calling(t),
         \A b \in Buffers : buffer'[b].used = buffer[b].used /\ buffer'[b].words = buffer[b].words
  PROVE  ThreadInv(u)'
<1> USE DEF IInv, Threaded, ThreadInv
<1>1. OwnIn(u) /\ FirstIn(u) /\ AloneIn(u) /\ CompleteIn(u) /\ task[u].buffer \in Buffers
  BY DEF TypeOK, Tasks
<1>2. OwnIn(u)'
  BY <1>1 DEF OwnIn, Own
<1>3. FirstIn(u)' /\ CompleteIn(u)'
  BY <1>1 DEF FirstIn, CompleteIn, Elems
<1>4. AloneIn(u)'
  <2>1. ~(InWindow(u) /\ ~task[u].disturbed)
    BY <1>1 DEF AloneIn
  <2>2. ~(InWindow(u)' /\ ~task'[u].disturbed)
    BY <2>1 DEF InWindow
  <2> QED
    BY <2>2 DEF AloneIn
<1> QED
  BY <1>2, <1>3, <1>4

(* t begins a call. *)
LEMMA OtherDisturbed ==
  ASSUME IInv, NEW t \in Threads, NEW u \in Threads \ {t}, NEW x \in [Threads -> Tasks],
         x[u] = task[u], task' = Disturbed(t, x), buffer' = buffer
  PROVE  ThreadInv(u)'
<1> USE DEF IInv, Threaded, ThreadInv
<1>1. OwnIn(u) /\ FirstIn(u) /\ AloneIn(u) /\ CompleteIn(u)
  OBVIOUS
<1>2. /\ task'[u].phase = task[u].phase /\ task'[u].input = task[u].input
      /\ task'[u].buffer = task[u].buffer /\ task'[u].array = task[u].array
      /\ task'[u].at = task[u].at /\ task'[u].found = task[u].found
      /\ task[u].disturbed => task'[u].disturbed
      /\ InWindow(u) => task'[u].disturbed
  BY DisturbedFacts
<1>3. OwnIn(u)'
  BY <1>1, <1>2 DEF OwnIn, Own
<1>4. FirstIn(u)' /\ CompleteIn(u)'
  BY <1>1, <1>2 DEF FirstIn, CompleteIn, Elems
<1>5. AloneIn(u)'
  BY <1>2 DEF AloneIn, InWindow
<1> QED
  BY <1>3, <1>4, <1>5

(* Something else comes into a buffer that is not u's. *)
LEMMA OtherLeft ==
  ASSUME IInv, NEW t \in Threads, NEW u \in Threads \ {t}, NEW b \in Buffers,
         \A v \in Threads \ {t} : task'[v] = LeaveTask(b, task[v]),
         Calling(t) \/ save' = Leave(b, save), ~Calling(t)',
         \A c \in Buffers \ {b} : buffer'[c] = buffer[c],
         task[u].phase # "idle" => task[u].buffer # b
  PROVE  ThreadInv(u)'
<1> USE DEF IInv, Threaded, ThreadInv
<1>1. OwnIn(u) /\ FirstIn(u) /\ AloneIn(u) /\ CompleteIn(u) /\ task[u].buffer \in Buffers
      /\ task \in [Threads -> Tasks]
  BY DEF TypeOK, Tasks
<1>2. ASSUME NEW v \in Threads \ {t}
      PROVE  /\ task'[v].phase = task[v].phase /\ task'[v].input = task[v].input
             /\ task'[v].buffer = task[v].buffer /\ task'[v].array = task[v].array
             /\ task'[v].disturbed = task[v].disturbed
             /\ task[v].at.buffer # b => task'[v] = task[v]
  BY <1>1, LeaveTaskFacts
<1>3. OwnIn(u)' /\ CompleteIn(u)'
  BY <1>1, <1>2 DEF OwnIn, CompleteIn, Own, Elems
<1>4. FirstIn(u)'
  <2>1. task[u].phase = "taking" /\ Elems(u) = <<>> => task[u].at.buffer = task[u].buffer
    BY <1>1 DEF FirstIn
  <2>2. task[u].phase = "taking" /\ Elems(u) = <<>> => task'[u] = task[u]
    BY <1>2, <2>1
  <2> QED
    BY <1>1, <1>2, <2>2 DEF FirstIn, Elems
<1>5. AloneIn(u)'
  <2> SUFFICES ASSUME InWindow(u)', ~task'[u].disturbed
               PROVE  AloneIn(u)'
    BY DEF AloneIn
  <2>1. InWindow(u) /\ ~task[u].disturbed
    BY <1>2 DEF InWindow
  <2>2. ~Calling(t)
    BY <1>1, <2>1 DEF AloneIn
  <2>3. save' = Leave(b, save) /\ save \in Positions
    BY <2>2 DEF TypeOK
  <2>4. task[u].buffer # b /\ Own(u)' = Own(u) /\ Elems(u)' = Elems(u) /\ Expected(u)' = Expected(u)
    BY <1>1, <1>2, <2>1 DEF InWindow, Own, Elems, Expected
  <2>5. \A v \in Threads \ {u} : ~Calling(v)'
    BY <1>1, <1>2, <2>1 DEF AloneIn, Calling
  <2>6. Calling(u) => task'[u] = task[u]
    BY <1>1, <1>2, <2>1, <2>4 DEF AloneIn, Expected
  <2>7. Calling(u)' = Calling(u)
    BY <1>2 DEF Calling
  <2>8. task[u].phase = "between" => save' = save
    BY <1>1, <2>1, <2>3, <2>4, LeaveFacts DEF AloneIn, Expected
  <2>9. task'[u].phase = task[u].phase /\ task'[u].input = task[u].input
    BY <1>2
  <2>10. task[u].phase = "taking" => Calling(u)
    BY DEF Calling
  <2> QED
    BY <1>1, <2>1, <2>4, <2>5, <2>6, <2>7, <2>8, <2>9, <2>10 DEF AloneIn
<1> QED
  BY <1>3, <1>4, <1>5

(* Positions stay good when a buffer is used for something else. *)
LEMMA PlacedLeft ==
  ASSUME TypeOK, Placed, NEW t \in Threads, NEW b \in Buffers, NEW p \in Positions, InPlace(p),
         \A v \in Threads \ {t} : task'[v] = LeaveTask(b, task[v]),
         ~task'[t].at.live, task'[t].at.next = 0, save' = Leave(b, p),
         \A c \in Buffers \ {b} : buffer'[c] = buffer[c]
  PROVE  Placed'
<1>1. InPlace(save)'
  <2>1. CASE p.buffer = b
    <3>1. ~save'.live /\ save'.next = 0
      BY <2>1, LeaveFacts
    <3> QED
      BY <3>1 DEF InPlace
  <2>2. CASE p.buffer # b
    <3>1. save' = p /\ buffer'[p.buffer] = buffer[p.buffer]
      BY <2>2, LeaveFacts DEF Positions
    <3> QED
      BY <3>1 DEF InPlace
  <2> QED
    BY <2>1, <2>2
<1>2. InPlace(task[t].at)' /\ TokenIn(t)'
  BY DEF InPlace, TokenIn
<1>3. ASSUME NEW u \in Threads \ {t}
      PROVE  InPlace(task[u].at)' /\ TokenIn(u)'
  <2>1. task[u] \in Tasks /\ task[u].at.buffer \in Buffers
    BY DEF TypeOK, Tasks, Positions
  <2>2. InPlace(task[u].at) /\ TokenIn(u)
    BY DEF Placed
  <2>3. CASE task[u].at.buffer = b
    <3>1. ~task'[u].at.live /\ task'[u].at.next = 0
      BY <2>1, <2>3, LeaveTaskFacts
    <3> QED
      BY <3>1 DEF InPlace, TokenIn
  <2>4. CASE task[u].at.buffer # b
    <3>1. task'[u] = task[u] /\ buffer'[task[u].at.buffer] = buffer[task[u].at.buffer]
      BY <2>1, <2>4, LeaveTaskFacts
    <3> QED
      BY <2>2, <3>1 DEF InPlace, TokenIn
  <2> QED
    BY <2>3, <2>4
<1> QED
  BY <1>1, <1>2, <1>3 DEF Placed

(* They do when nothing is written into a buffer. *)
LEMMA PlacedSame ==
  ASSUME TypeOK, Placed, NEW t \in Threads,
         \A u \in Threads \ {t} : /\ task'[u].at = task[u].at /\ task'[u].found = task[u].found
                                  /\ task'[u].phase = task[u].phase,
         save' \in Positions, task'[t].at \in Positions,
         \A b \in Buffers : buffer'[b].used = buffer[b].used /\ buffer'[b].words = buffer[b].words,
         InPlace(save'), InPlace(task'[t].at), TokenIn(t)'
  PROVE  Placed'
<1>1. ASSUME NEW p \in Positions, InPlace(p)
      PROVE  /\ p.live => buffer'[p.buffer].used
             /\ p.next = 0 \/ (p.live /\ p.next \in DOMAIN buffer'[p.buffer].words)
  BY <1>1 DEF InPlace, Positions
<1>2. InPlace(save)' /\ InPlace(task[t].at)'
  BY <1>1 DEF InPlace
<1>3. ASSUME NEW u \in Threads \ {t}
      PROVE  InPlace(task[u].at)' /\ TokenIn(u)'
  <2>1. task[u].at \in Positions /\ InPlace(task[u].at) /\ TokenIn(u) /\ task[u].at.buffer \in Buffers
    BY DEF TypeOK, Tasks, Placed, Positions
  <2>2. InPlace(task[u].at)'
    BY <1>1, <2>1 DEF InPlace
  <2>3. TokenIn(u)'
    BY <2>1 DEF TokenIn
  <2> QED
    BY <2>2, <2>3
<1> QED
  BY <1>2, <1>3 DEF Placed

-----------------------------------------------------------------------------
(* The steps. *)

(* The invariant holds at the start. *)
LEMMA InitInvariant == Init => IInv
<1> SUFFICES ASSUME Init PROVE IInv
  OBVIOUS
<1>1. \A t \in Threads : task[t] = Idle
  BY DEF Init
<1>2. TypeOK
  <2>1. task \in [Threads -> Tasks]
    BY IdleFacts DEF Init
  <2>2. buffer \in [Buffers -> Contents] /\ save \in Positions
    BY ContentFacts, IdleFacts DEF Init
  <2>3. arrived \in 0..MaxInputs /\ peeking \in BOOLEAN
    BY ConstantFacts DEF Init
  <2> QED
    BY <1>1, <2>1, <2>2, <2>3, IdleFacts DEF TypeOK
<1>3. Placed
  BY <1>1, IdleFacts DEF Init, Placed, InPlace, TokenIn
<1>4. Threaded
  BY <1>1, IdleFacts DEF Threaded, ThreadInv, OwnIn, FirstIn, AloneIn, CompleteIn, InWindow
<1> QED
  BY <1>2, <1>3, <1>4 DEF IInv

(* A line or a message arrives. *)
LEMMA ReceiveStep ==
  ASSUME IInv, NEW t \in Threads, NEW i \in Inputs, Receive(t, i)
  PROVE  IInv'
<1> DEFINE b == BufferOf(t, i)
           c == Content(i.words)
           d == \E v \in Threads \ {t} : Calling(v)
           r == [Idle EXCEPT !.phase = "received", !.input = i, !.buffer = b, !.disturbed = d]
<1>1. /\ arrived < MaxInputs /\ MayReceive(t, i) /\ arrived' = arrived + 1
      /\ buffer' = [buffer EXCEPT ![b] = c] /\ save' = Leave(b, save)
      /\ task' = [u \in Threads |-> IF u = t THEN r ELSE LeaveTask(b, task[u])]
      /\ peeking' = IF t = Cli THEN i.via = "body" ELSE peeking
  BY DEF Receive
<1>2. /\ task \in [Threads -> Tasks] /\ buffer \in [Buffers -> Contents] /\ save \in Positions
      /\ arrived \in 0..MaxInputs /\ peeking \in BOOLEAN
  BY DEF IInv, TypeOK
<1>3. /\ b \in Buffers /\ (i.via \in {"cli", "body"} <=> t = Cli) /\ i.words \in Seq(Words)
      /\ c \in Contents /\ c.used /\ c.words = i.words /\ c.cut = {} /\ c.torn = {}
  <2>1. b \in Buffers
    BY ConstantFacts DEF BufferOf, Buffers
  <2> QED
    BY <1>1, <2>1, ContentFacts, ConstantFacts DEF MayReceive, Content
<1>4. /\ r \in Tasks /\ r.phase = "received" /\ r.input = i /\ r.buffer = b /\ r.disturbed = d
      /\ r.array.elems = <<>> /\ 0 <= r.array.capacity /\ r.at = Nowhere
  BY <1>3, IdleFacts, EmptyRoom DEF Idle, Tasks
<1> HIDE DEF b, c, r
<1>5. /\ task'[t] = r /\ \A u \in Threads \ {t} : task'[u] = LeaveTask(b, task[u])
      /\ buffer'[b] = c /\ \A e \in Buffers \ {b} : buffer'[e] = buffer[e]
      /\ buffer' \in [Buffers -> Contents]
  BY <1>1, <1>2, <1>3
<1>6. \A u \in Threads \ {t} : task[u].phase # "idle" => task[u].buffer # b
  BY <1>3, Apart DEF b, IInv, Threaded, ThreadInv, OwnIn
<1>7. task' \in [Threads -> Tasks]
  BY <1>1, <1>2, <1>3, <1>4, LeaveTaskFacts
<1>8. TypeOK'
  <2>1. arrived' \in 0..MaxInputs /\ peeking' \in BOOLEAN
    <3>1. arrived' \in 0..MaxInputs
      BY <1>1, <1>2, ConstantFacts
    <3>2. peeking' \in BOOLEAN
      BY <1>1, <1>2
    <3> QED
      BY <3>1, <3>2
  <2>2. save' \in Positions
    BY <1>1, <1>2, <1>3, LeaveFacts
  <2>3. ASSUME NEW u \in Threads
        PROVE  /\ task'[u].phase # "idle" => task'[u].input \in Inputs
               /\ Len(task'[u].array.elems) <= task'[u].array.capacity
    <3>1. CASE u = t
      BY <1>4, <1>5, <3>1
    <3>2. CASE u # t
      BY <1>2, <1>3, <1>5, <3>2, LeaveTaskFacts DEF IInv, TypeOK
    <3> QED
      BY <3>1, <3>2
  <2> QED
    BY <1>5, <1>7, <2>1, <2>2, <2>3 DEF TypeOK
<1>9. Placed'
  <2>1. ~task'[t].at.live /\ task'[t].at.next = 0
    BY <1>4, <1>5, IdleFacts
  <2> QED
    BY <1>1, <1>2, <1>3, <1>5, <2>1, PlacedLeft DEF IInv, Placed
<1>10. \A u \in Threads \ {t} : ThreadInv(u)'
  <2>1. ~Calling(t)'
    BY <1>4, <1>5 DEF Calling
  <2> QED
    BY <1>1, <1>3, <1>5, <1>6, <2>1, OtherLeft
<1>11. ThreadInv(t)'
  <2>1. OwnIn(t)'
    BY <1>3, <1>4, <1>5 DEF OwnIn, Own, b
  <2>2. FirstIn(t)' /\ CompleteIn(t)'
    BY <1>4, <1>5 DEF FirstIn, CompleteIn, Elems
  <2>3. AloneIn(t)'
    <3> SUFFICES ASSUME ~d
                 PROVE  /\ \A u \in Threads \ {t} : ~Calling(u)'
                        /\ 0 <= Len(i.words) /\ <<>> = SubSeq(i.words, 1, 0)
                        /\ c.torn = {} /\ c.cut = (1..0) \ {Len(i.words)}
      BY <1>4, <1>5 DEF AloneIn, Elems, Own, Calling
    <3>1. \A u \in Threads \ {t} : Calling(u)' = Calling(u)
      BY <1>2, <1>3, <1>5, LeaveTaskFacts DEF Calling
    <3>2. 1..0 = {} /\ Len(i.words) \in Nat /\ SubSeq(i.words, 1, 0) = <<>>
      BY <1>3
    <3> QED
      BY <1>3, <3>1, <3>2
  <2> QED
    BY <2>1, <2>2, <2>3 DEF ThreadInv
<1> QED
  BY <1>8, <1>9, <1>10, <1>11 DEF IInv, Threaded

(* A step of t that begins a call. *)
LEMMA CallStep ==
  ASSUME IInv, NEW t \in Threads, NEW r \in Tasks,
         task' = Disturbed(t, [task EXCEPT ![t] = r]),
         UNCHANGED <<arrived, buffer, save, peeking>>,
         r.input = task[t].input, r.buffer = task[t].buffer, r.array = task[t].array,
         r.disturbed = task[t].disturbed, r.phase \in {"reading", "taking"},
         task[t].phase # "idle",
         InPlace(r.at), TokenIn(t)', FirstIn(t)',
         AloneIn(t) => AloneIn(t)'
  PROVE  IInv'
<1>1. task \in [Threads -> Tasks] /\ ThreadInv(t)
  BY DEF IInv, TypeOK, Threaded
<1> DEFINE x == [task EXCEPT ![t] = r]
<1>2. x \in [Threads -> Tasks] /\ x[t] = r /\ \A u \in Threads \ {t} : x[u] = task[u]
  BY <1>1
<1> HIDE DEF x
<1>3. task' = Disturbed(t, x)
  BY DEF x
<1>4. /\ task' \in [Threads -> Tasks] /\ task'[t] = r
      /\ \A u \in Threads \ {t} :
           /\ task'[u].phase = task[u].phase /\ task'[u].input = task[u].input
           /\ task'[u].array = task[u].array /\ task'[u].at = task[u].at
           /\ task'[u].found = task[u].found
  BY <1>1, CallFacts
<1>5. TypeOK'
  <2>1. ASSUME NEW u \in Threads
        PROVE  /\ task'[u].phase # "idle" => task'[u].input \in Inputs
               /\ Len(task'[u].array.elems) <= task'[u].array.capacity
    <3>1. CASE u = t
      BY <1>4, <3>1 DEF IInv, TypeOK
    <3>2. CASE u # t
      BY <1>4, <3>2 DEF IInv, TypeOK
    <3> QED
      BY <3>1, <3>2
  <2> QED
    BY <1>4, <2>1 DEF IInv, TypeOK
<1>6. Placed'
  <2>1. r.at \in Positions /\ save \in Positions /\ InPlace(save)
    BY DEF Tasks, IInv, TypeOK, Placed
  <2> QED
    BY <1>4, <2>1, PlacedSame DEF IInv
<1>7. \A u \in Threads \ {t} : ThreadInv(u)'
  BY <1>2, <1>3, OtherDisturbed
<1>8. OwnIn(t)' /\ CompleteIn(t)'
  BY <1>1, <1>4 DEF ThreadInv, OwnIn, CompleteIn, Own
<1>9. ThreadInv(t)'
  BY <1>1, <1>8 DEF ThreadInv
<1> QED
  BY <1>5, <1>6, <1>7, <1>9 DEF IInv, Threaded

(* Where a scan of t ends. *)
LEMMA FirstStep ==
  ASSUME IInv, NEW t \in Threads, First(t)
  PROVE  IInv'
<1>1. /\ task \in [Threads -> Tasks] /\ buffer \in [Buffers -> Contents]
      /\ OwnIn(t) /\ FirstIn(t) /\ task[t] \in Tasks /\ task[t].phase = "received"
  BY DEF IInv, TypeOK, Threaded, ThreadInv, First
<1> DEFINE b == task[t].buffer
           ws == task[t].input.words
           k == IF ws = <<>> THEN 0 ELSE 1
           p == [buffer |-> b, live |-> TRUE, next |-> k]
<1>2. /\ b \in Buffers /\ buffer[b] \in Contents /\ buffer[b].used /\ buffer[b].words = ws
      /\ ws \in Seq(Words) /\ Elems(t) = <<>> /\ Own(t) = buffer[b]
  BY <1>1, ConstantFacts DEF Tasks, OwnIn, FirstIn, Own
<1>3. PICK f \in Here(buffer[b], k) :
        task' = Disturbed(t, [task EXCEPT ![t].phase = "taking", ![t].found = f, ![t].at = p])
  BY <1>2 DEF First
<1>4. UNCHANGED <<arrived, buffer, save, peeking>>
  BY DEF First
<1> DEFINE r == [task[t] EXCEPT !.phase = "taking", !.found = f, !.at = p]
<1>5. task' = Disturbed(t, [task EXCEPT ![t] = r])
  BY <1>1, <1>3
<1>6. /\ f \in Tokens /\ f.kind \in {"none", "word"}
      /\ f.kind = "word" => ws # <<>> /\ f.place = 1 /\ f.ends = Ends(buffer[b], 1)
  <2>1. f = NoToken \/ (ws # <<>> /\ f = [kind |-> "word", place |-> 1, ends |-> Ends(buffer[b], 1)])
    <3>1. CASE ws = <<>>
      BY <3>1 DEF Here
    <3>2. CASE ws # <<>>
      BY <3>2 DEF Here
    <3> QED
      BY <3>1, <3>2
  <2> DEFINE e == Ends(buffer[b], 1)
  <2>2. e \in BOOLEAN
    BY DEF Ends
  <2> HIDE DEF e
  <2>3. f = NoToken \/ (ws # <<>> /\ f = [kind |-> "word", place |-> 1, ends |-> e])
    BY <2>1 DEF e
  <2>4. f.kind = "word" => ws # <<>> /\ f.place = 1 /\ f.ends = e
    BY <2>3 DEF NoToken
  <2>5. f \in Tokens /\ f.kind \in {"none", "word"}
    BY <2>2, <2>3, TokenFacts
  <2> QED
    BY <2>4, <2>5 DEF e
<1>7. /\ r \in Tasks /\ r.phase = "taking" /\ r.found = f /\ r.at = p /\ r.input = task[t].input
      /\ r.buffer = b /\ r.array = task[t].array /\ r.disturbed = task[t].disturbed
      /\ p \in Positions
  BY <1>1, <1>2, <1>6 DEF Tasks, Positions
<1> HIDE DEF r
<1>8. task'[t] = r /\ \A u \in Threads : u # t => task'[u].phase = task[u].phase
  BY <1>1, <1>5, <1>7, CallFacts
<1>9. ws # <<>> => 1 \in DOMAIN ws /\ 1 \in DOMAIN buffer[b].words /\ Len(ws) # 0
  BY <1>2
<1>10. InPlace(r.at)
  BY <1>2, <1>7, <1>9 DEF InPlace
<1>11. TokenIn(t)'
  <2>1. f.kind # "none" => f.place = 1 /\ 1 \in DOMAIN buffer[b].words
                          /\ (f.ends \/ 1 # Len(buffer[b].words))
    <3>1. f.kind # "none" => f.kind = "word"
      BY <1>6
    <3>2. f.kind # "none" => f.ends = Ends(buffer[b], 1)
      BY <1>6, <3>1
    <3>3. 1 = Len(buffer[b].words) => Ends(buffer[b], 1)
      BY DEF Ends
    <3> QED
      BY <1>6, <1>9, <3>1, <3>2, <3>3
  <2>2. /\ task'[t].found = f /\ task'[t].at.buffer = b /\ buffer'[b] = buffer[b]
    BY <1>4, <1>7, <1>8
  <2>3. f.kind # "none" => f.place # 0
    BY <2>1
  <2> HIDE DEF b
  <2> QED
    BY <2>1, <2>2, <2>3 DEF TokenIn
<1>12. FirstIn(t)'
  BY <1>2, <1>6, <1>7, <1>8 DEF FirstIn, Elems
<1>13. AloneIn(t) => AloneIn(t)'
  <2> SUFFICES ASSUME AloneIn(t), ~task[t].disturbed
               PROVE  AloneIn(t)'
    BY <1>7, <1>8 DEF AloneIn
  <2>1. /\ \A u \in Threads \ {t} : ~Calling(u)
        /\ buffer[b].torn = {} /\ buffer[b].cut = (1..0) \ {Len(ws)}
        /\ <<>> = SubSeq(ws, 1, 0) /\ 0 <= Len(ws)
    BY <1>1, <1>2 DEF AloneIn, InWindow
  <2>2. \A u \in Threads \ {t} : ~Calling(u)'
    BY <1>8, <2>1 DEF Calling
  <2>3. k = After(0, Len(ws))
    BY <1>2 DEF After
  <2>4. f = ExpectedToken(0, Len(ws))
    <3>1. CASE ws = <<>>
      BY <3>1 DEF Here, ExpectedToken
    <3>2. CASE ws # <<>>
      <4>1. f = [kind |-> "word", place |-> 1, ends |-> Ends(buffer[b], 1)]
        BY <2>1, <3>2 DEF Here
      <4>2. Ends(buffer[b], 1) = (0 + 1 = Len(ws)) /\ Len(ws) # 0
        BY <1>2, <2>1, <3>2 DEF Ends
      <4> QED
        BY <4>1, <4>2 DEF ExpectedToken
    <3> QED
      BY <3>1, <3>2
  <2>5. /\ Elems(t)' = <<>> /\ Own(t)' = buffer[b] /\ task'[t].input = task[t].input
        /\ task'[t].buffer = b /\ task'[t].phase = "taking" /\ task'[t].found = f /\ task'[t].at = p
    BY <1>2, <1>4, <1>7, <1>8 DEF Elems, Own
  <2>6. Expected(t)' = p
    BY <2>3, <2>5 DEF Expected
  <2> QED
    BY <2>1, <2>2, <2>4, <2>5, <2>6 DEF AloneIn
<1> QED
  BY <1>1, <1>4, <1>5, <1>7, <1>10, <1>11, <1>12, <1>13, CallStep

(* strtok(NULL) reads the position. *)
LEMMA BeginStep ==
  ASSUME IInv, NEW t \in Threads, Begin(t)
  PROVE  IInv'
<1>1. /\ task \in [Threads -> Tasks] /\ save \in Positions
      /\ OwnIn(t) /\ FirstIn(t) /\ task[t] \in Tasks /\ task[t].phase = "between"
  BY DEF IInv, TypeOK, Threaded, ThreadInv, Begin
<1> DEFINE r == [task[t] EXCEPT !.phase = "reading", !.at = save]
<1>2. /\ task' = Disturbed(t, [task EXCEPT ![t] = r])
      /\ UNCHANGED <<arrived, buffer, save, peeking>>
  BY <1>1 DEF Begin
<1>3. /\ r \in Tasks /\ r.phase = "reading" /\ r.at = save /\ r.input = task[t].input
      /\ r.buffer = task[t].buffer /\ r.array = task[t].array /\ r.disturbed = task[t].disturbed
  BY <1>1 DEF Tasks
<1> HIDE DEF r
<1>4. task'[t] = r /\ \A u \in Threads : u # t => task'[u].phase = task[u].phase
  BY <1>1, <1>2, <1>3, CallFacts
<1>5. InPlace(r.at)
  BY <1>3 DEF IInv, Placed
<1>6. TokenIn(t)'
  BY <1>3, <1>4 DEF TokenIn
<1>7. FirstIn(t)'
  BY <1>1, <1>3, <1>4 DEF FirstIn, Elems
<1>8. AloneIn(t) => AloneIn(t)'
  <2> SUFFICES ASSUME AloneIn(t), ~task[t].disturbed
               PROVE  AloneIn(t)'
    BY <1>3, <1>4 DEF AloneIn
  <2>1. InWindow(t)
    BY <1>1 DEF InWindow
  <2>2. \A u \in Threads \ {t} : ~Calling(u)'
    BY <1>4, <2>1 DEF AloneIn, Calling
  <2>3. /\ Elems(t)' = Elems(t) /\ Own(t)' = Own(t) /\ task'[t].input = task[t].input
        /\ task'[t].phase = "reading" /\ task'[t].at = save /\ Expected(t)' = Expected(t)
    BY <1>2, <1>3, <1>4 DEF Elems, Own, Expected
  <2> QED
    BY <1>1, <2>1, <2>2, <2>3 DEF AloneIn
<1> QED
  BY <1>1, <1>2, <1>3, <1>5, <1>6, <1>7, <1>8, CallStep

(* What a scan finds is in the input, or outside. *)
LEMMA ScanFacts ==
  ASSUME NEW c \in Contents, NEW p \in Positions,
         p.next = 0 \/ p.next \in DOMAIN c.words,
         NEW f \in IF p.live THEN Here(c, p.next) ELSE Anywhere(c)
  PROVE  /\ f \in Tokens
         /\ f.kind # "none" =>
              /\ f.place = 0 => f.kind = "part"
              /\ f.place # 0 => f.place \in DOMAIN c.words /\ (f.ends \/ f.place # Len(c.words))
<1>1. c.words \in Seq(Words) /\ \A k : Ends(c, k) \in BOOLEAN
  BY DEF Contents, Ends
<1>2. \/ f = NoToken
      \/ \E e \in BOOLEAN : f = [kind |-> "part", place |-> 0, ends |-> e]
      \/ \E kind \in {"word", "part"}, k \in DOMAIN c.words : f = [kind |-> kind, place |-> k, ends |-> Ends(c, k)]
  BY DEF Here, Anywhere
<1>3. CASE f = NoToken
  BY <1>3, TokenFacts
<1>4. CASE \E e \in BOOLEAN : f = [kind |-> "part", place |-> 0, ends |-> e]
  BY <1>4, TokenFacts
<1>5. ASSUME NEW kind \in {"word", "part"}, NEW k \in DOMAIN c.words,
             f = [kind |-> kind, place |-> k, ends |-> Ends(c, k)]
      PROVE  f \in Tokens /\ f.place \in DOMAIN c.words /\ f.place # 0 /\ (f.ends \/ f.place # Len(c.words))
  <2>1. k \in Nat /\ k # 0
    BY <1>1
  <2>2. k # Len(c.words) \/ Ends(c, k)
    BY DEF Ends
  <2> DEFINE e == Ends(c, k)
  <2>3. e \in BOOLEAN /\ (k # Len(c.words) \/ e) /\ f = [kind |-> kind, place |-> k, ends |-> e]
    BY <1>1, <1>5, <2>2
  <2> HIDE DEF e
  <2> QED
    BY <2>1, <2>3, TokenFacts
<1> QED
  BY <1>2, <1>3, <1>4, <1>5

(* It scans from there: what it finds of an input of its own is what was    *)
(* expected, and elsewhere anything.                                        *)
LEMMA ScanStep ==
  ASSUME IInv, NEW t \in Threads, Scan(t)
  PROVE  IInv'
<1> DEFINE p == task[t].at
           c == buffer[p.buffer]
<1>1. /\ task \in [Threads -> Tasks] /\ buffer \in [Buffers -> Contents] /\ task[t] \in Tasks
      /\ ThreadInv(t) /\ task[t].phase = "reading" /\ p \in Positions /\ c \in Contents
      /\ p.buffer \in Buffers /\ InPlace(p) /\ save \in Positions /\ InPlace(save)
      /\ UNCHANGED <<arrived, buffer, save, peeking>>
  BY DEF IInv, TypeOK, Threaded, Scan, Tasks, Positions, Placed
<1>2. PICK f \in IF p.live THEN Here(c, p.next) ELSE Anywhere(c) :
        task' = [task EXCEPT ![t].phase = "taking", ![t].found = f, ![t].at.live = c.used]
  BY DEF Scan
<1> DEFINE q == [p EXCEPT !.live = c.used]
           r == [task[t] EXCEPT !.phase = "taking", !.found = f, !.at = q]
<1>3. task' = [task EXCEPT ![t] = r]
  BY <1>1, <1>2 DEF Tasks
<1>4. p.next = 0 \/ p.next \in DOMAIN c.words
  BY <1>1 DEF InPlace
<1>5. /\ f \in Tokens
      /\ f.kind # "none" =>
           /\ f.place = 0 => f.kind = "part"
           /\ f.place # 0 => f.place \in DOMAIN c.words /\ (f.ends \/ f.place # Len(c.words))
  BY <1>1, <1>4, ScanFacts
<1>6. /\ q \in Positions /\ q.buffer = p.buffer /\ q.next = p.next /\ q.live = c.used
      /\ p.live => q = p
  <2>1. c.used \in BOOLEAN
    BY <1>1 DEF Contents
  <2>2. /\ q \in Positions /\ q.buffer = p.buffer /\ q.next = p.next /\ q.live = c.used
    BY <1>1, <2>1 DEF Positions
  <2>3. p.live => c.used = TRUE /\ p.live = TRUE
    BY <1>1, <2>1 DEF InPlace, Positions
  <2> QED
    BY <1>1, <2>2, <2>3 DEF Positions
<1> HIDE DEF q
<1>7. /\ r \in Tasks /\ r.phase = "taking" /\ r.found = f /\ r.at = q /\ r.input = task[t].input
      /\ r.buffer = task[t].buffer /\ r.array = task[t].array /\ r.disturbed = task[t].disturbed
  BY <1>1, <1>5, <1>6 DEF Tasks
<1> HIDE DEF r
<1>8. /\ task' \in [Threads -> Tasks] /\ task'[t] = r
      /\ \A u \in Threads \ {t} : task'[u] = task[u]
  BY <1>1, <1>3, <1>7
<1>9. Calling(t)
  BY <1>1 DEF Calling
<1>10. \A u \in Threads \ {t} : ThreadInv(u)'
  BY <1>1, <1>8, <1>9, OtherSame
<1>11. TypeOK'
  <2>1. ASSUME NEW u \in Threads
        PROVE  /\ task'[u].phase # "idle" => task'[u].input \in Inputs
               /\ Len(task'[u].array.elems) <= task'[u].array.capacity
    <3>1. CASE u = t
      BY <1>1, <1>7, <1>8, <3>1 DEF IInv, TypeOK
    <3>2. CASE u # t
      BY <1>8, <3>2 DEF IInv, TypeOK
    <3> QED
      BY <3>1, <3>2
  <2> QED
    BY <1>1, <1>8, <2>1 DEF IInv, TypeOK
<1>12. Placed'
  <2>1. InPlace(q)
    <3>1. q.live => c.used
      BY <1>6
    <3>2. q.next = 0 \/ (q.live /\ q.next \in DOMAIN c.words)
      BY <1>1, <1>6 DEF InPlace
    <3> QED
      BY <1>6, <3>1, <3>2 DEF InPlace
  <2>2. TokenIn(t)'
    <3>1. /\ task'[t].found = f /\ task'[t].at.buffer = p.buffer /\ buffer'[p.buffer] = c
      BY <1>1, <1>6, <1>7, <1>8
    <3> HIDE DEF p, c
    <3> QED
      BY <1>5, <3>1 DEF TokenIn
  <2> QED
    BY <1>1, <1>6, <1>7, <1>8, <2>1, <2>2, PlacedSame DEF IInv
<1>13. OwnIn(t)' /\ FirstIn(t)' /\ CompleteIn(t)'
  BY <1>1, <1>7, <1>8 DEF ThreadInv, OwnIn, FirstIn, CompleteIn, Own, Elems
<1>14. AloneIn(t)'
  <2> SUFFICES ASSUME ~task[t].disturbed
               PROVE  AloneIn(t)'
    BY <1>7, <1>8 DEF AloneIn
  <2> DEFINE ws == task[t].input.words
             k  == Len(Elems(t))
  <2>1. /\ \A u \in Threads \ {t} : ~Calling(u)
        /\ k <= Len(ws) /\ Elems(t) = SubSeq(ws, 1, k)
        /\ Own(t).torn = {} /\ Own(t).cut = (1..k) \ {Len(ws)}
        /\ p = Expected(t)
    BY <1>1, <1>9 DEF ThreadInv, AloneIn, InWindow
  <2>2. \A u \in Threads \ {t} : ~Calling(u)'
    BY <1>8, <2>1 DEF Calling
  <2>3. /\ p.live /\ p.next = After(k, Len(ws)) /\ c = Own(t) /\ q = p /\ c.words = ws
    BY <1>1, <1>6, <2>1 DEF Expected, Own, ThreadInv, OwnIn
  <2>4. k \in Nat /\ Len(ws) \in Nat
    <3>1. Elems(t) \in Seq(Text)
      BY <1>1 DEF Elems, Tasks, Arrays
    <3>2. ws \in Seq(Words)
      BY <1>1, ConstantFacts DEF ThreadInv, OwnIn
    <3> QED
      BY <3>1, <3>2
  <2>5. f \in Here(c, After(k, Len(ws))) /\ c.torn = {} /\ c.cut = (1..k) \ {Len(ws)}
    BY <2>1, <2>3
  <2>6. f = ExpectedToken(k, Len(ws))
    <3> HIDE DEF k, ws, c
    <3>1. CASE k = Len(ws)
      BY <2>5, <3>1 DEF Here, After, ExpectedToken
    <3>2. CASE k # Len(ws)
      <4>1. f = [kind |-> "word", place |-> k + 1, ends |-> Ends(c, k + 1)]
        BY <2>4, <2>5, <3>2 DEF Here, After
      <4>2. Ends(c, k + 1) = (k + 1 = Len(ws))
        BY <2>3, <2>4, <2>5 DEF Ends
      <4> QED
        BY <3>2, <4>1, <4>2 DEF ExpectedToken
    <3> QED
      BY <3>1, <3>2
  <2>7. /\ Elems(t)' = Elems(t) /\ Own(t)' = Own(t) /\ task'[t].input = task[t].input
        /\ task'[t].phase = "taking" /\ task'[t].found = f /\ task'[t].at = p
        /\ Expected(t)' = Expected(t)
    BY <1>1, <1>7, <1>8, <2>3 DEF Elems, Own, Expected
  <2> QED
    BY <2>1, <2>2, <2>6, <2>7 DEF AloneIn
<1> QED
  BY <1>10, <1>11, <1>12, <1>13, <1>14 DEF IInv, Threaded, ThreadInv

(* What a call that has found a word delivers and leaves behind. *)
LEMMA TakeFacts ==
  ASSUME NEW c \in Contents, NEW p \in Positions, NEW f \in Tokens, f.kind # "none",
         p.live => /\ f.place = 0 => f.kind = "part"
                   /\ f.place # 0 => f.place \in DOMAIN c.words /\ (f.ends \/ f.place # Len(c.words))
  PROVE  /\ Token(c, p, f) \subseteq Text
         /\ \A e \in Written(c, p, f) : e \in Contents /\ e.used = c.used /\ e.words = c.words
         /\ Behind(p, f) \in Positions /\ Behind(p, f).buffer = p.buffer
         /\ Behind(p, f).live => p.live
         /\ Behind(p, f).next = 0 \/ (Behind(p, f).live /\ Behind(p, f).next \in DOMAIN c.words)
<1>1. c.words \in Seq(Words) /\ Range(c.words) \subseteq Words /\ DOMAIN c.words = 1..Len(c.words)
      /\ Len(c.words) \in Nat
  <2>1. c.words \in Seq(Words)
    BY DEF Contents
  <2> QED
    BY <2>1 DEF Range
<1>2. Token(c, p, f) \subseteq Text
  <2>1. CASE ~p.live
    BY <1>1, <2>1, ConstantFacts DEF Token
  <2>2. CASE p.live /\ f.kind = "part"
    BY <2>2, ConstantFacts DEF Token
  <2>3. CASE p.live /\ f.kind # "part"
    <3>1. f.place \in DOMAIN c.words /\ c.words[f.place] \in Words
      BY <1>1, <2>3
    <3> QED
      BY <2>3, <3>1, ConstantFacts DEF Token
  <2> QED
    BY <2>1, <2>2, <2>3
<1>3. ASSUME NEW k \in Nat
      PROVE  /\ [c EXCEPT !.cut = @ \cup {k}] \in Contents
             /\ [c EXCEPT !.cut = @ \cup {k}].used = c.used
             /\ [c EXCEPT !.cut = @ \cup {k}].words = c.words
             /\ [c EXCEPT !.torn = @ \cup {k}] \in Contents
             /\ [c EXCEPT !.torn = @ \cup {k}].used = c.used
             /\ [c EXCEPT !.torn = @ \cup {k}].words = c.words
  BY DEF Contents
<1>4. ASSUME NEW e \in Written(c, p, f)
      PROVE  e \in Contents /\ e.used = c.used /\ e.words = c.words
  <2>1. e = c \/ \E k \in Nat : e = [c EXCEPT !.cut = @ \cup {k}] \/ e = [c EXCEPT !.torn = @ \cup {k}]
    <3>1. f.place \in Nat /\ DOMAIN c.words \subseteq Nat
      BY <1>1 DEF Tokens
    <3>2. \/ e = c \/ e = [c EXCEPT !.cut = @ \cup {f.place}]
          \/ \E k \in DOMAIN c.words : e = [c EXCEPT !.cut = @ \cup {k}] \/ e = [c EXCEPT !.torn = @ \cup {k}]
      BY DEF Written
    <3> QED
      BY <3>1, <3>2
  <2> QED
    BY <1>3, <2>1
<1>5. CASE ~p.live \/ f.place = 0
  <2>1. Behind(p, f) = Lost(p.buffer)
    BY <1>5 DEF Behind
  <2>2. Lost(p.buffer) \in Positions /\ Lost(p.buffer).buffer = p.buffer /\ ~Lost(p.buffer).live
        /\ Lost(p.buffer).next = 0
    BY DEF Lost, Positions
  <2> QED
    BY <1>2, <1>4, <2>1, <2>2
<1>6. CASE p.live /\ f.place # 0
  <2> DEFINE n == IF f.ends THEN 0 ELSE f.place + 1
  <2>1. Behind(p, f) = [p EXCEPT !.next = n]
    BY <1>6 DEF Behind
  <2>2. n \in Nat /\ (n = 0 \/ n \in DOMAIN c.words)
    <3>1. CASE f.ends
      BY <3>1
    <3>2. CASE ~f.ends
      <4>1. f.place \in 1..Len(c.words) /\ f.place # Len(c.words)
        BY <1>1, <1>6, <3>2
      <4> QED
        BY <1>1, <3>2, <4>1
    <3> QED
      BY <3>1, <3>2
  <2> HIDE DEF n
  <2>3. /\ [p EXCEPT !.next = n] \in Positions /\ [p EXCEPT !.next = n].buffer = p.buffer
        /\ [p EXCEPT !.next = n].live = p.live /\ [p EXCEPT !.next = n].next = n
    BY <2>2 DEF Positions
  <2> QED
    BY <1>2, <1>4, <1>6, <2>1, <2>2, <2>3
<1> QED
  BY <1>5, <1>6

(* The end of a call. *)
LEMMA OverFacts ==
  ASSUME NEW x \in Tasks, NEW phase \in {"between", "parsed"}
  PROVE  LET y == Over(phase, x)
         IN  /\ y \in Tasks /\ y.phase = phase /\ y.input = x.input /\ y.buffer = x.buffer
             /\ y.array = x.array /\ y.at = Nowhere /\ y.disturbed = x.disturbed
BY IdleFacts DEF Over, Tasks

(* One more word in an array of a thread. *)
LEMMA ArrayFacts ==
  ASSUME NEW x \in Tasks, NEW a \in Arrays
  PROVE  LET y == [x EXCEPT !.array = a]
         IN  /\ y \in Tasks /\ y.array = a /\ y.input = x.input /\ y.buffer = x.buffer
             /\ y.disturbed = x.disturbed
BY DEF Tasks

(* A call that has found a word cuts it off, moves on, and has it copied. *)
LEMMA TakeStep ==
  ASSUME IInv, NEW t \in Threads, Take(t)
  PROVE  IInv'
<1> DEFINE p == task[t].at
           f == task[t].found
           c == buffer[p.buffer]
<1>1. /\ task \in [Threads -> Tasks] /\ buffer \in [Buffers -> Contents] /\ task[t] \in Tasks
      /\ ThreadInv(t) /\ task[t].phase = "taking" /\ f.kind # "none" /\ p \in Positions
      /\ c \in Contents /\ p.buffer \in Buffers /\ f \in Tokens /\ InPlace(p) /\ TokenIn(t)
      /\ UNCHANGED <<arrived, peeking>> /\ save' = Behind(p, f)
      /\ task[t].array \in Arrays /\ Len(task[t].array.elems) <= task[t].array.capacity
  BY DEF IInv, TypeOK, Threaded, Take, Tasks, Positions, Placed
<1>2. PICK x \in Token(c, p, f) :
        task' = [task EXCEPT ![t] = Over("between", [task[t] EXCEPT !.array = array_add(@, x)])]
  BY DEF Take
<1>3. PICK e \in Written(c, p, f) : buffer' = [buffer EXCEPT ![p.buffer] = e]
  BY DEF Take
<1>4. /\ x \in Text /\ e \in Contents /\ e.used = c.used /\ e.words = c.words
      /\ save' \in Positions /\ save'.buffer = p.buffer /\ (save'.live => p.live)
      /\ save'.next = 0 \/ (save'.live /\ save'.next \in DOMAIN c.words)
  <2>1. p.live => /\ f.place = 0 => f.kind = "part"
                  /\ f.place # 0 => f.place \in DOMAIN c.words /\ (f.ends \/ f.place # Len(c.words))
    BY <1>1 DEF TokenIn
  <2>2. Token(c, p, f) \subseteq Text
    BY <1>1, <2>1, TakeFacts
  <2>3. e \in Contents /\ e.used = c.used /\ e.words = c.words
    BY <1>1, <2>1, TakeFacts
  <2>4. /\ save' \in Positions /\ save'.buffer = p.buffer /\ (save'.live => p.live)
        /\ save'.next = 0 \/ (save'.live /\ save'.next \in DOMAIN c.words)
    BY <1>1, <2>1, TakeFacts
  <2> QED
    BY <2>2, <2>3, <2>4
<1> DEFINE a == array_add(task[t].array, x)
           y == [task[t] EXCEPT !.array = a]
           r == Over("between", y)
<1>5. task' = [task EXCEPT ![t] = r]
  BY <1>1, <1>2 DEF Tasks
<1>6. a \in Arrays /\ a.elems = Append(Elems(t), x) /\ Len(a.elems) <= a.capacity
  BY <1>1, <1>4, AddRoom DEF Elems
<1> HIDE DEF a
<1>7. /\ r \in Tasks /\ r.phase = "between" /\ r.input = task[t].input /\ r.buffer = task[t].buffer
      /\ r.array = a /\ r.at = Nowhere /\ r.disturbed = task[t].disturbed
  <2>1. y \in Tasks /\ y.array = a /\ y.input = task[t].input /\ y.buffer = task[t].buffer
        /\ y.disturbed = task[t].disturbed
    BY <1>1, <1>6, ArrayFacts
  <2> HIDE DEF y
  <2> QED
    BY <2>1, OverFacts
<1> HIDE DEF r, y
<1>8. /\ task' \in [Threads -> Tasks] /\ task'[t] = r
      /\ \A u \in Threads \ {t} : task'[u] = task[u]
  BY <1>1, <1>5, <1>7
<1>9. /\ buffer' \in [Buffers -> Contents] /\ buffer'[p.buffer] = e
      /\ \A b \in Buffers : buffer'[b].used = buffer[b].used /\ buffer'[b].words = buffer[b].words
  BY <1>1, <1>3, <1>4
<1>10. Calling(t)
  BY <1>1 DEF Calling
<1>11. \A u \in Threads \ {t} : ThreadInv(u)'
  BY <1>8, <1>9, <1>10, OtherSame
<1>12. TypeOK'
  <2>1. ASSUME NEW u \in Threads
        PROVE  /\ task'[u].phase # "idle" => task'[u].input \in Inputs
               /\ Len(task'[u].array.elems) <= task'[u].array.capacity
    <3>1. CASE u = t
      BY <1>1, <1>6, <1>7, <1>8, <3>1 DEF IInv, TypeOK
    <3>2. CASE u # t
      BY <1>8, <3>2 DEF IInv, TypeOK
    <3> QED
      BY <3>1, <3>2
  <2> QED
    BY <1>1, <1>4, <1>8, <1>9, <2>1 DEF IInv, TypeOK
<1>13. Placed'
  <2>1. InPlace(save')
    <3>1. save'.live => c.used
      BY <1>1, <1>4 DEF InPlace
    <3> QED
      BY <1>4, <3>1 DEF InPlace
  <2>2. TokenIn(t)'
    BY <1>7, <1>8 DEF TokenIn
  <2>3. InPlace(r.at)
    BY <1>7, IdleFacts DEF InPlace
  <2> QED
    BY <1>4, <1>7, <1>8, <1>9, <2>1, <2>2, <2>3, IdleFacts, PlacedSame DEF IInv
<1>14. Elems(t) \in Seq(Text) /\ Elems(t)' = Append(Elems(t), x)
  BY <1>1, <1>6, <1>7, <1>8 DEF Elems, Arrays
<1>15. OwnIn(t)' /\ CompleteIn(t)'
  <2>1. task[t].buffer \in Buffers
    BY <1>1 DEF Tasks
  <2> QED
    BY <1>1, <1>7, <1>8, <1>9, <2>1 DEF ThreadInv, OwnIn, CompleteIn, Own
<1>16. FirstIn(t)'
  <2> DEFINE ws == task[t].input.words
  <2>1. Elems(t)' # <<>> /\ Elems(t)'[1] = IF Elems(t) = <<>> THEN x ELSE Elems(t)[1]
    BY <1>4, <1>14
  <2>2. Elems(t)'[1] \in {ws[1]} \cup Beginnings[ws[1]]
    <3>1. CASE Elems(t) # <<>>
      BY <1>1, <2>1, <3>1 DEF ThreadInv, FirstIn
    <3>2. CASE Elems(t) = <<>>
      <4>1. p.buffer = task[t].buffer /\ p.live /\ f.kind = "word" /\ f.place = 1
        BY <1>1, <3>2 DEF ThreadInv, FirstIn
      <4>2. c.words = ws
        BY <1>1, <4>1 DEF ThreadInv, OwnIn, Own
      <4> QED
        BY <2>1, <3>2, <4>1, <4>2 DEF Token
    <3> QED
      BY <3>1, <3>2
  <2> QED
    BY <1>7, <1>8, <2>1, <2>2 DEF FirstIn
<1>17. AloneIn(t)'
  <2> SUFFICES ASSUME ~task[t].disturbed
               PROVE  AloneIn(t)'
    BY <1>7, <1>8 DEF AloneIn
  <2> DEFINE ws == task[t].input.words
             k  == Len(Elems(t))
             n  == Len(ws)
  <2>1. /\ \A u \in Threads \ {t} : ~Calling(u)
        /\ k <= n /\ Elems(t) = SubSeq(ws, 1, k)
        /\ Own(t).torn = {} /\ Own(t).cut = (1..k) \ {n}
        /\ p = Expected(t) /\ f = ExpectedToken(k, n)
    BY <1>1, <1>10 DEF ThreadInv, AloneIn, InWindow
  <2>2. \A u \in Threads \ {t} : ~Calling(u)'
    BY <1>8, <2>1 DEF Calling
  <2>3. k \in Nat /\ n \in Nat /\ ws \in Seq(Words)
    <3>1. ws \in Seq(Words)
      BY <1>1, ConstantFacts DEF ThreadInv, OwnIn
    <3> QED
      BY <1>14, <3>1
  <2>4. /\ k # n /\ f = [kind |-> "word", place |-> k + 1, ends |-> k + 1 = n]
    BY <1>1, <2>1, TokenFacts DEF ExpectedToken
  <2>5. /\ f.kind = "word" /\ f.place = k + 1 /\ f.ends = (k + 1 = n)
    BY <2>4
  <2>6. /\ p.live /\ p.buffer = task[t].buffer /\ c = Own(t) /\ c.words = ws
    BY <1>1, <2>1 DEF Expected, Own, ThreadInv, OwnIn
  <2>7. x = ws[k + 1]
    BY <2>1, <2>5, <2>6 DEF Token
  <2>8. Elems(t)' = SubSeq(ws, 1, k + 1) /\ Len(Elems(t)') = k + 1 /\ k + 1 <= n
    <3>1. k + 1 <= n
      BY <2>1, <2>3, <2>4
    <3>2. Append(SubSeq(ws, 1, k), ws[k + 1]) = SubSeq(ws, 1, k + 1)
      BY <2>3, <3>1
    <3> QED
      BY <1>4, <1>14, <2>1, <2>7, <3>1, <3>2
  <2>9. e.torn = {} /\ e.cut = (1..(k + 1)) \ {n}
    <3>1. CASE k + 1 = n
      <4>1. e = c
        BY <2>5, <3>1 DEF Written
      <4>2. (1..(k + 1)) \ {k + 1} = (1..k) \ {k + 1}
        BY <2>3
      <4> QED
        BY <2>1, <2>6, <3>1, <4>1, <4>2
    <3>2. CASE k + 1 # n
      <4>1. e = [c EXCEPT !.cut = @ \cup {k + 1}]
        <5>1. ~f.ends /\ p.live /\ f.place # 0 /\ f.place = k + 1
          <6>1. ~f.ends
            BY <2>5, <3>2
          <6>2. k + 1 # 0
            BY <2>3
          <6> QED
            BY <2>5, <2>6, <6>1, <6>2
        <5>2. Written(c, p, f) = {[c EXCEPT !.cut = @ \cup {f.place}]}
          BY <5>1 DEF Written
        <5> QED
          BY <5>1, <5>2
      <4>2. e.torn = c.torn /\ e.cut = c.cut \cup {k + 1}
        BY <1>1, <4>1 DEF Contents
      <4> QED
        BY <2>1, <2>3, <2>6, <3>2, <4>2
    <3> QED
      BY <3>1, <3>2
  <2>10. save' = [buffer |-> task[t].buffer, live |-> TRUE, next |-> After(k + 1, n)]
    <3>1. save' = [p EXCEPT !.next = IF f.ends THEN 0 ELSE f.place + 1]
      BY <1>1, <2>3, <2>5, <2>6 DEF Behind
    <3>2. (IF f.ends THEN 0 ELSE f.place + 1) = After(k + 1, n)
      BY <2>5 DEF After
    <3>3. p = [buffer |-> task[t].buffer, live |-> TRUE, next |-> After(k, n)]
      BY <2>1 DEF Expected
    <3> HIDE DEF p, f
    <3> QED
      BY <3>1, <3>2, <3>3
  <2>11. /\ Own(t)' = e /\ task'[t].input = task[t].input /\ task'[t].phase = "between"
         /\ Expected(t)' = save' /\ ~Calling(t)'
    <3>1. Own(t)' = e
      BY <1>7, <1>8, <1>9, <2>6 DEF Own
    <3>2. Expected(t)' = save'
      BY <1>7, <1>8, <2>8, <2>10 DEF Expected
    <3> QED
      BY <1>7, <1>8, <3>1, <3>2 DEF Calling
  <2> QED
    BY <2>2, <2>8, <2>9, <2>11 DEF AloneIn
<1> QED
  BY <1>11, <1>12, <1>13, <1>15, <1>16, <1>17 DEF IInv, Threaded, ThreadInv

(* A thread that goes on to other things. *)
LEMMA ReleaseStep ==
  ASSUME IInv, NEW t \in Threads, NEW p \in Positions, InPlace(p), Release(t, p),
         task[t].phase # "idle", Calling(t) \/ p = save,
         arrived' = arrived, peeking' \in BOOLEAN
  PROVE  IInv'
<1> DEFINE b == task[t].buffer
<1>1. /\ task \in [Threads -> Tasks] /\ buffer \in [Buffers -> Contents] /\ OwnIn(t) /\ b \in Buffers
      /\ \A u \in Threads : OwnIn(u)
  BY DEF IInv, TypeOK, Tasks, Threaded, ThreadInv
<1>2. /\ buffer' = [buffer EXCEPT ![b] = NoContent] /\ save' = Leave(b, p)
      /\ task' = [u \in Threads |-> IF u = t THEN Idle ELSE LeaveTask(b, task[u])]
  BY DEF Release
<1>3. \A u \in Threads \ {t} : task[u].phase # "idle" => task[u].buffer # b
  BY <1>1, Apart DEF OwnIn
<1> HIDE DEF b
<1>4. /\ task'[t] = Idle /\ \A u \in Threads \ {t} : task'[u] = LeaveTask(b, task[u])
      /\ \A e \in Buffers \ {b} : buffer'[e] = buffer[e]
  BY <1>1, <1>2
<1>5. task' \in [Threads -> Tasks]
  BY <1>1, <1>2, IdleFacts, LeaveTaskFacts
<1>6. TypeOK'
  <2>1. buffer' \in [Buffers -> Contents] /\ save' \in Positions
    BY <1>1, <1>2, ContentFacts, LeaveFacts
  <2>2. ASSUME NEW u \in Threads
        PROVE  /\ task'[u].phase # "idle" => task'[u].input \in Inputs
               /\ Len(task'[u].array.elems) <= task'[u].array.capacity
    <3>1. CASE u = t
      BY <1>4, <3>1, IdleFacts
    <3>2. CASE u # t
      BY <1>1, <1>4, <3>2, LeaveTaskFacts DEF IInv, TypeOK
    <3> QED
      BY <3>1, <3>2
  <2> QED
    BY <1>5, <2>1, <2>2 DEF IInv, TypeOK
<1>7. Placed'
  BY <1>1, <1>2, <1>4, IdleFacts, PlacedLeft DEF IInv
<1>8. \A u \in Threads \ {t} : ThreadInv(u)'
  <2>1. ~Calling(t)'
    BY <1>4, IdleFacts DEF Calling
  <2>2. Calling(t) \/ save' = Leave(b, save)
    BY <1>2
  <2> QED
    BY <1>1, <1>3, <1>4, <2>1, <2>2, OtherLeft
<1>9. ThreadInv(t)'
  BY <1>4, IdleFacts DEF ThreadInv, OwnIn, FirstIn, AloneIn, CompleteIn, InWindow
<1> QED
  BY <1>6, <1>7, <1>8, <1>9 DEF IInv, Threaded

(* A call that has found none ends the parse. *)
LEMMA TakeNoneStep ==
  ASSUME IInv, NEW t \in Threads, TakeNone(t)
  PROVE  IInv'
<1> DEFINE p == [task[t].at EXCEPT !.next = 0]
<1>1. /\ task \in [Threads -> Tasks] /\ buffer \in [Buffers -> Contents] /\ task[t] \in Tasks
      /\ ThreadInv(t) /\ task[t].phase = "taking" /\ task[t].found.kind = "none"
      /\ task[t].at \in Positions /\ InPlace(task[t].at) /\ UNCHANGED <<arrived, peeking>>
      /\ peeking \in BOOLEAN
  BY DEF IInv, TypeOK, Threaded, TakeNone, Tasks, Placed
<1>2. p \in Positions /\ p.buffer = task[t].at.buffer /\ p.live = task[t].at.live /\ p.next = 0
  BY <1>1 DEF Positions
<1>3. IF Elems(t) = <<>> THEN Release(t, p)
      ELSE save' = p /\ task' = [task EXCEPT ![t] = Over("parsed", task[t])] /\ UNCHANGED buffer
  BY DEF TakeNone, Elems
<1> HIDE DEF p
<1>4. InPlace(p)
  BY <1>1, <1>2 DEF InPlace
<1>5. Calling(t)
  BY <1>1 DEF Calling
<1>6. CASE Elems(t) = <<>>
  BY <1>1, <1>2, <1>3, <1>4, <1>5, <1>6, ReleaseStep
<1>7. CASE Elems(t) # <<>>
  <2> DEFINE r == Over("parsed", task[t])
  <2>1. /\ r \in Tasks /\ r.phase = "parsed" /\ r.input = task[t].input /\ r.buffer = task[t].buffer
        /\ r.array = task[t].array /\ r.at = Nowhere /\ r.disturbed = task[t].disturbed
    BY <1>1, OverFacts
  <2>2. task' = [task EXCEPT ![t] = r] /\ save' = p /\ UNCHANGED buffer
    BY <1>3, <1>7
  <2> HIDE DEF r
  <2>3. /\ task' \in [Threads -> Tasks] /\ task'[t] = r
        /\ \A u \in Threads \ {t} : task'[u] = task[u]
    BY <1>1, <2>1, <2>2
  <2>4. \A u \in Threads \ {t} : ThreadInv(u)'
    BY <1>5, <2>2, <2>3, OtherSame
  <2>5. TypeOK'
    <3>1. ASSUME NEW u \in Threads
          PROVE  /\ task'[u].phase # "idle" => task'[u].input \in Inputs
                 /\ Len(task'[u].array.elems) <= task'[u].array.capacity
      <4>1. CASE u = t
        BY <1>1, <2>1, <2>3, <4>1 DEF IInv, TypeOK
      <4>2. CASE u # t
        BY <2>3, <4>2 DEF IInv, TypeOK
      <4> QED
        BY <4>1, <4>2
    <3> QED
      BY <1>1, <1>2, <2>2, <2>3, <3>1 DEF IInv, TypeOK
  <2>6. Placed'
    <3>1. InPlace(r.at)
      BY <2>1, IdleFacts DEF InPlace
    <3>2. TokenIn(t)'
      BY <2>1, <2>3 DEF TokenIn
    <3> QED
      BY <1>2, <1>4, <2>1, <2>2, <2>3, <3>1, <3>2, IdleFacts, PlacedSame DEF IInv
  <2>7. OwnIn(t)'
    BY <1>1, <2>1, <2>2, <2>3 DEF ThreadInv, OwnIn, Own
  <2>8. FirstIn(t)' /\ AloneIn(t)'
    BY <1>1, <1>7, <2>1, <2>3 DEF ThreadInv, FirstIn, AloneIn, Elems, InWindow
  <2>9. CompleteIn(t)'
    <3> SUFFICES ASSUME ~task[t].disturbed
                 PROVE  Elems(t) = task[t].input.words
      BY <2>1, <2>3 DEF CompleteIn, Elems
    <3> DEFINE ws == task[t].input.words
               k  == Len(Elems(t))
    <3>1. Elems(t) = SubSeq(ws, 1, k) /\ task[t].found = ExpectedToken(k, Len(ws))
      BY <1>1, <1>5 DEF ThreadInv, AloneIn, InWindow
    <3>2. k = Len(ws)
      BY <1>1, <3>1 DEF ExpectedToken
    <3>3. ws \in Seq(Words)
      BY <1>1, ConstantFacts DEF ThreadInv, OwnIn
    <3> QED
      BY <3>1, <3>2, <3>3
  <2> QED
    BY <2>4, <2>5, <2>6, <2>7, <2>8, <2>9 DEF IInv, Threaded, ThreadInv
<1> QED
  BY <1>6, <1>7

(* The deed, and the end of the array. *)
LEMMA ActStep ==
  ASSUME IInv, NEW t \in Threads, Act(t)
  PROVE  IInv'
<1>1. save \in Positions /\ InPlace(save) /\ peeking \in BOOLEAN
  BY DEF IInv, TypeOK, Placed
<1>2. task[t].phase # "idle" /\ Release(t, save) /\ arrived' = arrived
  BY DEF Act
<1>3. peeking' \in BOOLEAN
  <2>1. peeking' = IF t = Cli THEN DeedOf(t) \in {"peek", "shown", "hidden"} ELSE peeking
    BY DEF Act
  <2>2. CASE t = Cli
    BY <2>1, <2>2
  <2>3. CASE t # Cli
    BY <1>1, <2>1, <2>3
  <2> QED
    BY <2>2, <2>3
<1> QED
  BY <1>1, <1>2, <1>3, ReleaseStep

-----------------------------------------------------------------------------
(* The invariant and what follows from it. *)

(* The invariant is inductive. *)
LEMMA NextInvariant == IInv /\ [Next]_vars => IInv'
<1> SUFFICES ASSUME IInv, [Next]_vars PROVE IInv'
  OBVIOUS
<1>1. CASE UNCHANGED vars
  BY <1>1 DEF vars, IInv, TypeOK, Placed, InPlace, TokenIn, Threaded, ThreadInv, OwnIn, FirstIn,
              AloneIn, CompleteIn, Own, Elems, Expected, InWindow, Calling
<1>2. ASSUME NEW t \in Threads, NEW i \in Inputs, Receive(t, i)
      PROVE  IInv'
  BY <1>2, ReceiveStep
<1>3. ASSUME NEW t \in Threads, First(t) \/ Begin(t) \/ Scan(t)
      PROVE  IInv'
  BY <1>3, FirstStep, BeginStep, ScanStep
<1>4. ASSUME NEW t \in Threads, Take(t) \/ TakeNone(t) \/ Act(t)
      PROVE  IInv'
  BY <1>4, TakeStep, TakeNoneStep, ActStep
<1> QED
  BY <1>1, <1>2, <1>3, <1>4 DEF Next, Quiet

(* It holds in every state. *)
LEMMA Invariance == Spec => []IInv
BY InitInvariant, NextInvariant, PTL DEF Spec

(* The arrays never hold more values than they have room for, whatever is   *)
(* parsed by however many threads (array.c:36-43).                          *)
THEOREM TypeCorrect == Spec => []TypeOK
<1>1. IInv => TypeOK
  BY DEF IInv
<1> QED
  BY <1>1, Invariance, PTL

(* However many threads parse at once, and wherever their positions and     *)
(* zeros fall, each does what the first word of its own input names, or a   *)
(* beginning of that word, or refuses.                                      *)
THEOREM OwnCommandOnly == Spec => []NeverAnotherCommand
<1>1. IInv => NeverAnotherCommand
  <2> SUFFICES ASSUME IInv, NEW t \in Threads, task[t].phase = "parsed", DeedOf(t) \notin Refusals
               PROVE  LET i == task[t].input
                      IN  \E w \in {i.words[1]} \cup Beginnings[i.words[1]] : DeedOf(t) = Named(w, i.via)
    BY DEF NeverAnotherCommand
  <2> DEFINE i == task[t].input
             w == Elems(t)[1]
  <2>1. w \in {i.words[1]} \cup Beginnings[i.words[1]]
    BY DEF IInv, Threaded, ThreadInv, FirstIn
  <2>2. DeedOf(t) = Deed(Elems(t), i.via)
    BY DEF DeedOf, Elems
  <2> HIDE DEF w
  <2>3. DeedOf(t) = Named(w, i.via)
    <3>1. CASE i.via = "cli"
      BY <2>2, <3>1 DEF Deed, Command, Named, Refusals, w
    <3>2. CASE i.via = "body"
      BY <2>2, <3>2 DEF Deed, print_peeked_file, Named, Refusals
    <3>3. CASE i.via \notin {"cli", "body"}
      BY <2>2, <3>3 DEF Deed, Request, Named, Refusals, w
    <3> QED
      BY <3>1, <3>2, <3>3
  <2> QED
    BY <2>1, <2>3
<1> QED
  BY <1>1, Invariance, PTL

(* If every input asks for what its words say, a thread that nobody         *)
(* disturbs while its input is in the buffer does what it is asked, with    *)
(* any number of threads, wherever the others have left strtok's position.  *)
THEOREM UndisturbedIsRight ==
  ASSUME \A i \in Inputs : i.asks = Deed(i.words, i.via)
  PROVE  Spec => []DoesWhatIsAsked
<1>1. IInv => DoesWhatIsAsked
  <2> SUFFICES ASSUME IInv, NEW t \in Threads, task[t].phase = "parsed", ~task[t].disturbed
               PROVE  DeedOf(t) = task[t].input.asks
    BY DEF DoesWhatIsAsked
  <2>1. Elems(t) = task[t].input.words /\ task[t].input \in Inputs
    BY DEF IInv, Threaded, ThreadInv, CompleteIn, OwnIn
  <2> QED
    BY <2>1 DEF DeedOf, Elems
<1> QED
  BY <1>1, Invariance, PTL

-----------------------------------------------------------------------------
(***************************************************************************)
(* Proofs about Peek, the list that the command peek asks for, for any     *)
(* files, buffers of any size, and any way in which sends and receives     *)
(* split the stream.                                                       *)
(*                                                                         *)
(* The invariant says where the bytes are.  As long as no send is refused, *)
(* the server has sent the first bytes w of its answer (Sent), its queue   *)
(* is the rest (ToSend), and the client has a part of the message at       *)
(* Position, behind which the stream goes on in w (Received): InSync.  If  *)
(* the server fails in the middle of a message the client reads nothing    *)
(* any more, and never an END_OF_REQUEST: OutOfSync.                       *)
(***************************************************************************)

(* The types of Peek, and of what PeekTypeOK leaves open. *)
TypeInv ==
  /\ PeekTypeOK
  /\ queue \in Seq(Seq(Byte))
  /\ got \in Seq(Byte)
  /\ listed \in Seq(Seq(Byte))
  /\ cl = "request" => got = <<>>

(* A byte is a number up to 255.  Where Byte is expanded the prover takes   *)
(* the 256 of them one by one.                                              *)
LEMMA Bytes == \A b : b \in Byte <=> b \in Nat /\ b <= 255
<1>1. ASSUME NEW m \in Nat PROVE \A b : b \in 0..m <=> b \in Nat /\ b <= m
  OBVIOUS
<1>2. 255 \in Nat
  OBVIOUS
<1> QED
  BY <1>1, <1>2, Zenon DEF Byte

(* A set of numbers that is not empty has a least one. *)
LEMMA LeastOf ==
  ASSUME NEW T \in SUBSET Nat, T # {}
  PROVE  \E x \in T : \A y \in T : x <= y
<1> DEFINE R == OpToRel(<, Nat)
<1>1. IsWellFoundedOn(R, Nat)
  BY NatLessThanWellFounded
<1>2. R = {p \in Nat \X Nat : p[1] < p[2]}
  BY DEF OpToRel
<1>3. ASSUME NEW x \in T, NEW y \in T, y < x PROVE <<y, x>> \in R
  BY <1>2, <1>3
<1> HIDE DEF R
<1>4. PICK x \in T : \A y \in T : ~ (<<y, x>> \in R)
  BY <1>1, WFMin
<1>5. ASSUME NEW y \in T PROVE x <= y
  <2>1. x \in Nat /\ y \in Nat /\ ~ (y < x)
    BY <1>3, <1>4
  <2> QED
    BY <2>1
<1> QED
  BY <1>5

(* The least of two numbers. *)
LEMMA MinOfTwo ==
  ASSUME NEW a \in Int, NEW b \in Int
  PROVE  Min({a, b}) \in {a, b} /\ Min({a, b}) <= a /\ Min({a, b}) <= b
<1>1. \E x \in {a, b} : \A y \in {a, b} : x <= y
  <2>1. CASE a <= b
    BY <2>1
  <2>2. CASE b <= a
    BY <2>2
  <2> QED
    BY <2>1, <2>2
<1>2. Min({a, b}) = CHOOSE x \in {a, b} : \A y \in {a, b} : x <= y
  BY DEF Min
<1> QED
  BY <1>1, <1>2

(* The sizes as numbers. *)
LEMMA Sizes ==
  ASSUME PeekConstants
  PROVE  /\ MaxFiles \in Nat /\ Capacity \in Nat /\ BUFFER \in Nat /\ REQUEST \in Nat /\ MaxListed \in Nat
         /\ REQUEST < BUFFER /\ BUFFER <= 65280 /\ MaxFiles <= MaxListed
         /\ END_OF_REQUEST = 65535
<1>1. \A x \in {MaxFiles, Capacity, BUFFER, REQUEST, FILE_NAME_SPACE, FILE_SIZE_SPACE, MaxListed} : x \in Nat
  BY DEF PeekConstants
<1>2. BUFFER <= 255 * 256 /\ REQUEST < BUFFER /\ MaxFiles <= MaxListed
  BY DEF PeekConstants
<1> QED
  BY <1>1, <1>2 DEF END_OF_REQUEST

(* ntohs takes back what htons has done. *)
LEMMA HeaderBytes ==
  ASSUME NEW n \in 0..END_OF_REQUEST
  PROVE  /\ Header(n) \in Seq(Byte) /\ Len(Header(n)) = 2
         /\ Header(n)[1] \in Byte /\ Header(n)[2] \in Byte
         /\ n = 256 * Header(n)[1] + Header(n)[2]
         /\ Header(n)[1] = n \div 256 /\ Header(n)[2] = n % 256
<1>1. n \in Nat /\ n <= 65535
  BY DEF END_OF_REQUEST
<1> DEFINE h == n \div 256
           l == n % 256
<1>3. h \in Nat /\ h <= 255 /\ l \in Nat /\ l <= 255 /\ n = (256 * h) + l
  BY <1>1
<1>4. h \in Byte /\ l \in Byte
  BY <1>3, Bytes
<1> HIDE DEF h, l
<1>2. Header(n) = <<h, l>>
  BY DEF Header, h, l
<1> QED
  BY <1>2, <1>3, <1>4 DEF h, l

(* A body has no 0, and fits into the buffer. *)
LEMMA BodyBytes ==
  ASSUME PeekConstants, NEW f \in Files
  PROVE  /\ Body(f) \in Seq(1..255) /\ Body(f) \in Seq(Byte)
         /\ Len(Body(f)) \in 1..(BUFFER - 1)
         /\ Len(Body(f)) = Len(f.name) + 1 + Len(f.size)
<1> DEFINE s == f.name
           z == f.size
<1>1. s \in Seq(1..255) /\ z \in Seq(48..57) /\ Len(Body(f)) < BUFFER /\ BUFFER \in Nat
  BY DEF PeekConstants
<1>2. Body(f) = s \o <<32>> \o z
  BY DEF Body, Space
<1> HIDE DEF s, z
<1>3. z \in Seq(1..255) /\ <<32>> \in Seq(1..255)
  BY <1>1
<1>4. Body(f) \in Seq(1..255) /\ Len(Body(f)) = Len(s) + 1 + Len(z)
  BY <1>1, <1>2, <1>3
<1>5. Body(f) \in Seq(Byte)
  <2>1. \A b \in 1..255 : b \in Nat /\ b <= 255
    <3>1. ASSUME NEW m \in Nat PROVE \A b \in 1..m : b \in Nat /\ b <= m
      OBVIOUS
    <3>2. 255 \in Nat
      OBVIOUS
    <3> QED
      BY <3>1, <3>2, Zenon
  <2>2. 1..255 \subseteq Byte
    BY <2>1, Bytes, Zenon
  <2> QED
    BY <1>4, <2>2, SeqMonotonic, Zenon
<1>6. Len(Body(f)) \in 1..(BUFFER - 1)
  <2>1. Len(s) \in Nat /\ Len(z) \in Nat /\ Len(Body(f)) \in Nat
    BY <1>1, <1>4
  <2> QED
    BY <1>1, <1>4, <2>1
<1> QED
  BY <1>4, <1>5, <1>6 DEF s, z

(* A list of files as a sequence. *)
LEMMA FilesSeq ==
  ASSUME PeekConstants, NEW fs \in BoundedSeq(Files, MaxFiles)
  PROVE  fs \in Seq(Files) /\ Len(fs) \in 0..MaxFiles
<1>1. PICK m \in 0..MaxFiles : fs \in [1..m -> Files]
  BY DEF BoundedSeq, SeqOf
<1>2. MaxFiles \in Nat
  BY DEF PeekConstants
<1> QED
  BY <1>1, <1>2

(* What an answer consists of. *)
LEMMA AnswerMessages ==
  ASSUME PeekConstants, NEW fs \in Seq(Files)
  PROVE  /\ Answer(fs) \in Seq(Seq(Byte))
         /\ Len(Answer(fs)) = 2 * Len(fs) + 1
         /\ \A k \in 1..Len(fs) :
              /\ Answer(fs)[2 * k - 1] = Header(Len(Body(fs[k])))
              /\ Answer(fs)[2 * k] = Body(fs[k])
         /\ Answer(fs)[2 * Len(fs) + 1] = Header(END_OF_REQUEST)
         /\ \A k \in DOMAIN Answer(fs) : Answer(fs)[k] # <<>>
<1> DEFINE n == Len(fs)
           A == Answer(fs)
           F == Frames(fs)
<1>1. n \in Nat /\ DOMAIN fs = 1..n
  OBVIOUS
<1>2. \A k \in 1..n : fs[k] \in Files
  OBVIOUS
<1>3. END_OF_REQUEST \in 0..END_OF_REQUEST /\ BUFFER \in Nat /\ BUFFER <= END_OF_REQUEST
  BY DEF PeekConstants, END_OF_REQUEST
<1>4. ASSUME NEW k \in 1..n
      PROVE  /\ Body(fs[k]) \in Seq(Byte) /\ Body(fs[k]) # <<>>
             /\ Header(Len(Body(fs[k]))) \in Seq(Byte) /\ Header(Len(Body(fs[k]))) # <<>>
  <2>1. fs[k] \in Files
    BY <1>2
  <2>2. Body(fs[k]) \in Seq(Byte) /\ Len(Body(fs[k])) \in 1..(BUFFER - 1)
    BY <2>1, BodyBytes
  <2>3. Len(Body(fs[k])) \in 0..END_OF_REQUEST
    BY <1>3, <2>2
  <2>4. Header(Len(Body(fs[k]))) \in Seq(Byte) /\ Len(Header(Len(Body(fs[k])))) = 2
    BY <2>3, HeaderBytes
  <2>5. \A q \in Seq(Byte) : Len(q) # 0 => q # <<>>
    OBVIOUS
  <2>6. Len(Body(fs[k])) # 0 /\ Len(Header(Len(Body(fs[k])))) # 0
    BY <1>3, <2>2, <2>4
  <2>7. Body(fs[k]) # <<>> /\ Header(Len(Body(fs[k]))) # <<>>
    BY <2>2, <2>4, <2>5, <2>6, Zenon
  <2> QED
    BY <2>2, <2>4, <2>7
<1>5. Header(END_OF_REQUEST) \in Seq(Byte) /\ Header(END_OF_REQUEST) # <<>>
  BY <1>3, HeaderBytes
<1>6. F = [k \in 1..(2 * n) |-> IF k % 2 = 1 THEN Header(Len(Body(fs[(k + 1) \div 2]))) ELSE Body(fs[(k + 1) \div 2])]
  BY DEF Frames
<1> HIDE DEF n
<1>7. ASSUME NEW k \in 1..(2 * n) PROVE F[k] \in Seq(Byte) /\ F[k] # <<>>
  <2>1. (k + 1) \div 2 \in 1..n
    BY <1>1
  <2> QED
    BY <1>4, <1>6, <2>1
<1> HIDE DEF F
<1>8. F \in Seq(Seq(Byte)) /\ Len(F) = 2 * n
  BY <1>1, <1>6, <1>7
<1>9. A = F \o <<Header(END_OF_REQUEST)>>
  BY DEF Answer, F
<1> HIDE DEF A
<1>10. A \in Seq(Seq(Byte)) /\ Len(A) = 2 * n + 1 /\ A[2 * n + 1] = Header(END_OF_REQUEST)
  <2> DEFINE e == Header(END_OF_REQUEST)
  <2>1. <<e>> \in Seq(Seq(Byte)) /\ Len(<<e>>) = 1 /\ <<e>>[1] = e
    BY <1>5
  <2> HIDE DEF e
  <2>2. A = F \o <<e>>
    BY <1>9 DEF e
  <2>3. 2 * n \in Nat
    BY <1>1
  <2>4. A \in Seq(Seq(Byte)) /\ Len(A) = 2 * n + 1
    BY <1>8, <2>1, <2>2, <2>3, ConcatProperties
  <2>5. A[2 * n + 1] = <<e>>[1]
    BY <1>8, <2>1, <2>2, <2>3, ConcatProperties
  <2> QED
    BY <2>1, <2>4, <2>5 DEF e
<1>11. \A k \in 1..(2 * n) : A[k] = F[k]
  BY <1>1, <1>5, <1>8, <1>9
<1>12. ASSUME NEW k \in 1..n
       PROVE  A[2 * k - 1] = Header(Len(Body(fs[k]))) /\ A[2 * k] = Body(fs[k])
  <2>1. 2 * k - 1 \in 1..(2 * n) /\ 2 * k \in 1..(2 * n)
    BY <1>1
  <2>2. (2 * k - 1) % 2 = 1 /\ (2 * k) % 2 = 0 /\ ((2 * k - 1) + 1) \div 2 = k /\ (2 * k + 1) \div 2 = k
    BY <1>1
  <2>3. F[2 * k - 1] = Header(Len(Body(fs[k]))) /\ F[2 * k] = Body(fs[k])
    BY <1>6, <2>1, <2>2
  <2> QED
    BY <1>11, <2>1, <2>3
<1>13. \A k \in 1..(2 * n + 1) : A[k] # <<>>
  <2> SUFFICES ASSUME NEW k \in 1..(2 * n + 1) PROVE A[k] # <<>>
    OBVIOUS
  <2>1. CASE k = 2 * n + 1
    BY <1>5, <1>10, <2>1
  <2>2. CASE k # 2 * n + 1
    <3>1. k \in 1..(2 * n)
      BY <1>1, <2>2
    <3> QED
      BY <1>7, <1>11, <3>1
  <2> QED
    BY <2>1, <2>2
<1>14. DOMAIN A = 1..(2 * n + 1)
  BY <1>1, <1>10
<1> QED
  BY <1>10, <1>12, <1>13, <1>14 DEF A, n

(* a and b are the two parts of s, the first of k elements. *)
PartsOf(s, k, a, b) ==
  /\ Len(a) = k /\ \A i \in 1..k : a[i] = s[i]
  /\ Len(b) = Len(s) - k /\ \A i \in 1..(Len(s) - k) : b[i] = s[k + i]
  /\ b = <<>> <=> k = Len(s)

(* Taking k elements from the front. *)
LEMMA Parts ==
  ASSUME NEW S, NEW s \in Seq(S), NEW k \in 0..Len(s)
  PROVE  /\ SubSeq(s, 1, k) \in Seq(S) /\ SubSeq(s, k + 1, Len(s)) \in Seq(S)
         /\ PartsOf(s, k, SubSeq(s, 1, k), SubSeq(s, k + 1, Len(s)))
<1>1. Len(s) \in Nat /\ k \in Nat
  OBVIOUS
<1>2. /\ SubSeq(s, 1, k) \in Seq(S) /\ Len(SubSeq(s, 1, k)) = k
      /\ \A i \in 1..k : SubSeq(s, 1, k)[i] = s[i]
  BY <1>1
<1>3. /\ SubSeq(s, k + 1, Len(s)) \in Seq(S) /\ Len(SubSeq(s, k + 1, Len(s))) = Len(s) - k
      /\ \A i \in 1..(Len(s) - k) : SubSeq(s, k + 1, Len(s))[i] = s[k + i]
  BY <1>1
<1>4. \A q \in Seq(S) : q = <<>> <=> Len(q) = 0
  BY EmptySeq
<1>5. SubSeq(s, k + 1, Len(s)) = <<>> <=> Len(s) - k = 0
  BY <1>3, <1>4, Zenon
<1>6. Len(s) - k = 0 <=> k = Len(s)
  BY <1>1
<1> QED
  BY <1>2, <1>3, <1>5, <1>6, Zenon DEF PartsOf

(* q is s with t behind it. *)
JoinOf(q, s, t) ==
  /\ Len(q) = Len(s) + Len(t)
  /\ \A i \in 1..Len(s) : q[i] = s[i]
  /\ \A i \in 1..Len(t) : q[Len(s) + i] = t[i]

(* Putting t behind s. *)
LEMMA Joined ==
  ASSUME NEW S, NEW s \in Seq(S), NEW t \in Seq(S)
  PROVE  s \o t \in Seq(S) /\ JoinOf(s \o t, s, t)
<1> DEFINE q == s \o t
<1>1. /\ q \in Seq(S) /\ Len(q) = Len(s) + Len(t)
      /\ \A i \in 1..(Len(s) + Len(t)) : q[i] = IF i <= Len(s) THEN s[i] ELSE t[i - Len(s)]
  BY ConcatProperties, Zenon
<1>2. Len(s) \in Nat /\ Len(t) \in Nat
  OBVIOUS
<1> HIDE DEF q
<1>3. ASSUME NEW i \in 1..Len(s) PROVE q[i] = s[i]
  <2>1. i \in 1..(Len(s) + Len(t)) /\ i <= Len(s)
    BY <1>2
  <2> QED
    BY <1>1, <2>1
<1>4. ASSUME NEW i \in 1..Len(t) PROVE q[Len(s) + i] = t[i]
  <2>1. Len(s) + i \in 1..(Len(s) + Len(t)) /\ ~ (Len(s) + i <= Len(s)) /\ (Len(s) + i) - Len(s) = i
    BY <1>2
  <2> QED
    BY <1>1, <2>1
<1> QED
  BY <1>1, <1>3, <1>4 DEF q, JoinOf

(* What the length of a header can be, whole or not. *)
LEMMA LengthType ==
  ASSUME TypeInv
  PROVE  Length \in 0..END_OF_REQUEST
<1>1. msgLen \in 0..END_OF_REQUEST /\ got \in Seq(Byte)
  BY DEF TypeInv, PeekTypeOK
<1> DEFINE byte(i) == IF i <= Len(got) THEN got[i] ELSE Header(msgLen)[i]
<1>2. byte(1) \in Byte /\ byte(2) \in Byte
  BY <1>1, HeaderBytes
<1>3. Length = 256 * byte(1) + byte(2)
  BY DEF Length
<1> HIDE DEF byte
<1>4. byte(1) \in Nat /\ byte(1) <= 255 /\ byte(2) \in Nat /\ byte(2) <= 255
  BY <1>2, Bytes
<1>5. \A a, b \in Nat : a <= 255 /\ b <= 255 => (256 * a) + b \in Nat /\ (256 * a) + b <= 65535
  OBVIOUS
<1>6. Length \in Nat /\ Length <= END_OF_REQUEST
  BY <1>3, <1>4, <1>5 DEF END_OF_REQUEST
<1> QED
  <2>1. END_OF_REQUEST \in Nat
    BY DEF END_OF_REQUEST
  <2> QED
    BY <1>6, <2>1

(* The types hold at the start. *)
LEMMA InitType ==
  ASSUME PeekConstants, PeekInit
  PROVE  TypeInv
<1>1. /\ <<>> \in Seq(Byte) /\ <<>> \in Seq(Seq(Byte)) /\ Len(<<>>) = 0 /\ DOMAIN <<>> = {}
  OBVIOUS
<1>2. REQUEST \in 0..END_OF_REQUEST /\ Capacity \in Nat /\ MaxListed \in Nat
  BY Sizes
<1>3. stream \in Seq(Byte)
  BY DEF PeekInit
<1>4. /\ queue \in Seq(Seq(Byte)) /\ got \in Seq(Byte) /\ listed \in Seq(Seq(Byte))
      /\ DOMAIN queue = {} /\ Len(stream) = 0 /\ Len(listed) = 0
  BY <1>1 DEF PeekInit
<1>5. PeekTypeOK
  <2>1. \A i \in DOMAIN queue : queue[i] # <<>> /\ queue[i] \in Seq(Byte)
    BY <1>4
  <2>2. Len(stream) <= Capacity /\ Len(listed) <= MaxListed /\ printed \subseteq DOMAIN listed
    BY <1>2, <1>4 DEF PeekInit
  <2> QED
    BY <1>2, <1>3, <2>1, <2>2 DEF PeekInit, PeekTypeOK
<1> QED
  BY <1>4, <1>5 DEF TypeInv, PeekInit

(* What a step of send takes from the queue: k bytes of the first message,  *)
(* which are p, and leaves r of it.                                         *)
SendTook(k, p, r) ==
  /\ queue \in Seq(Seq(Byte)) /\ queue # <<>> /\ Len(queue) \in Nat /\ Len(queue) >= 1
  /\ queue[1] \in Seq(Byte) /\ Len(queue[1]) \in Nat
  /\ k \in Nat /\ k >= 1 /\ k <= Len(queue[1]) /\ k <= Capacity - Len(stream)
  /\ p \in Seq(Byte) /\ Len(p) = k /\ \A i \in 1..k : p[i] = queue[1][i]
  /\ r \in Seq(Byte) /\ Len(r) = Len(queue[1]) - k /\ \A i \in 1..Len(r) : r[i] = queue[1][k + i]
  /\ r = <<>> <=> k = Len(queue[1])
  /\ stream' \in Seq(Byte) /\ Len(stream') = Len(stream) + k
  /\ \A i \in 1..Len(stream) : stream'[i] = stream[i]
  /\ \A i \in 1..k : stream'[Len(stream) + i] = p[i]
  /\ queue' \in Seq(Seq(Byte))
  /\ k = Len(queue[1]) => Len(queue') = Len(queue) - 1 /\ \A i \in 1..Len(queue') : queue'[i] = queue[i + 1]
  /\ k # Len(queue[1]) =>
       Len(queue') = Len(queue) /\ queue'[1] = r /\ \A i \in 2..Len(queue') : queue'[i] = queue[i]

(* Every step of send is such a one. *)
LEMMA SendTakes ==
  ASSUME PeekConstants, TypeInv, Send
  PROVE  \E k, p, r : SendTook(k, p, r)
<1>1. /\ queue \in Seq(Seq(Byte)) /\ stream \in Seq(Byte) /\ Capacity \in Nat /\ Len(stream) \in Nat
  BY Sizes DEF TypeInv, PeekTypeOK
<1>2. /\ queue # <<>> /\ Room > 0
      /\ \E k \in 1..Min({Room, Len(Head(queue))}) :
           /\ stream' = stream \o SubSeq(Head(queue), 1, k)
           /\ LET rest == Rest(Head(queue), k)
              IN  queue' = IF rest = <<>> THEN Tail(queue) ELSE <<rest>> \o Tail(queue)
  BY DEF Send
<1>3. PICK k \in 1..Min({Room, Len(Head(queue))}) :
           /\ stream' = stream \o SubSeq(Head(queue), 1, k)
           /\ LET rest == Rest(Head(queue), k)
              IN  queue' = IF rest = <<>> THEN Tail(queue) ELSE <<rest>> \o Tail(queue)
  BY <1>2
<1> DEFINE h == Head(queue)
           t == Tail(queue)
           p == SubSeq(h, 1, k)
           r == SubSeq(h, k + 1, Len(h))
           a == Room
           b == Len(h)
           mn == Min({a, b})
<1>4. /\ h = queue[1] /\ h \in Seq(Byte) /\ Len(h) \in Nat
      /\ t \in Seq(Seq(Byte)) /\ Len(t) = Len(queue) - 1
      /\ \A i \in 1..Len(t) : t[i] = queue[i + 1]
      /\ Len(queue) \in Nat /\ Len(queue) >= 1
  BY <1>1, <1>2
<1>5. a \in Int /\ b \in Int /\ b \in Nat /\ a = Capacity - Len(stream)
  BY <1>1, <1>4 DEF Room
<1>6. mn \in {a, b} /\ mn <= a /\ mn <= b
  <2> HIDE DEF a, b
  <2> QED
    BY <1>5, MinOfTwo, Zenon
<1>7. k \in 1..mn
  OBVIOUS
<1>8. k \in Nat /\ k >= 1 /\ k <= Len(h) /\ k <= Capacity - Len(stream) /\ k \in 0..Len(h)
  <2>1. k \in Nat /\ k >= 1 /\ k <= a /\ k <= b
    <3> HIDE DEF a, b, mn
    <3> QED
      BY <1>5, <1>6, <1>7
  <2> QED
    BY <1>5, <2>1
<1> HIDE DEF h
<1>14. p \in Seq(Byte) /\ r \in Seq(Byte) /\ PartsOf(h, k, p, r)
  BY <1>4, <1>8, Parts
<1> HIDE DEF p, r, t
<1>9. /\ p \in Seq(Byte) /\ Len(p) = k /\ \A i \in 1..k : p[i] = h[i]
      /\ r \in Seq(Byte) /\ Len(r) = Len(h) - k /\ \A i \in 1..(Len(h) - k) : r[i] = h[k + i]
      /\ r = <<>> <=> k = Len(h)
  BY <1>14 DEF PartsOf
<1>10. /\ stream' = stream \o p
       /\ queue' = IF r = <<>> THEN t ELSE <<r>> \o t
  BY <1>3 DEF Rest, h, p, r, t
<1>11. /\ stream' \in Seq(Byte) /\ Len(stream') = Len(stream) + k
       /\ \A i \in 1..Len(stream) : stream'[i] = stream[i]
       /\ \A i \in 1..k : stream'[Len(stream) + i] = p[i]
  <2>1. stream' \in Seq(Byte) /\ JoinOf(stream', stream, p)
    BY <1>1, <1>9, <1>10, Joined
  <2> QED
    BY <1>9, <2>1 DEF JoinOf
<1>12. CASE k = Len(h)
  <2>1. queue' = t
    BY <1>9, <1>10, <1>12
  <2>2. SendTook(k, p, r)
    BY <1>1, <1>2, <1>4, <1>8, <1>9, <1>11, <1>12, <2>1 DEF SendTook
  <2> QED
    BY <2>2
<1>13. CASE k # Len(h)
  <2> DEFINE q == <<r>> \o t
             o == <<r>>
  <2>1. queue' = q
    BY <1>9, <1>10, <1>13
  <2>2. o \in Seq(Seq(Byte)) /\ Len(o) = 1 /\ o[1] = r
    BY <1>9
  <2>3. q = o \o t
    OBVIOUS
  <2> HIDE DEF q, o
  <2>4. /\ q \in Seq(Seq(Byte)) /\ Len(q) = Len(o) + Len(t)
        /\ \A i \in 1..Len(o) : q[i] = o[i]
        /\ \A i \in 1..Len(t) : q[Len(o) + i] = t[i]
    <3>1. q \in Seq(Seq(Byte)) /\ JoinOf(q, o, t)
      BY <1>4, <2>2, <2>3, Joined
    <3> QED
      BY <3>1 DEF JoinOf
  <2>5. Len(q) = Len(queue)
    BY <1>4, <2>2, <2>4
  <2>6. q[1] = r
    BY <2>2, <2>4
  <2>7. ASSUME NEW i \in 2..Len(q) PROVE q[i] = queue[i]
    <3>1. i - 1 \in 1..Len(t) /\ Len(o) + (i - 1) = i /\ (i - 1) + 1 = i
      BY <1>4, <2>2, <2>5
    <3> QED
      BY <1>4, <2>4, <3>1
  <2>8. SendTook(k, p, r)
    BY <1>1, <1>2, <1>4, <1>8, <1>9, <1>11, <1>13, <2>1, <2>4, <2>5, <2>6, <2>7 DEF SendTook
  <2> QED
    BY <2>8
<1> QED
  BY <1>12, <1>13

(* The types after a step of the server. *)
LEMMA ServerType ==
  ASSUME PeekConstants, TypeInv, Server \/ Crash
  PROVE  TypeInv'
<1>1. /\ files \in BoundedSeq(Files, MaxFiles) /\ queue \in Seq(Seq(Byte))
      /\ stream \in Seq(Byte) /\ Len(stream) <= Capacity /\ Capacity \in Nat
      /\ \A i \in DOMAIN queue : queue[i] # <<>>
  BY DEF TypeInv, PeekTypeOK, PeekConstants
<1>2. /\ files' = files /\ UNCHANGED cliVars
  BY DEF Server, Crash, ReceiveRequest, Send, Refuse, Close
<1>3. SUFFICES /\ srv' \in {"request", "sending", "closed", "down"}
               /\ queue' \in Seq(Seq(Byte))
               /\ \A i \in DOMAIN queue' : queue'[i] # <<>>
               /\ refused' \in BOOLEAN
               /\ stream' \in Seq(Byte) /\ Len(stream') <= Capacity
  <2>1. \A q \in Seq(Seq(Byte)) : \A i \in DOMAIN q : q[i] \in Seq(Byte)
    OBVIOUS
  <2>2. UNCHANGED <<cl, msgLen, got, listed, printed, mixed>>
    BY <1>2 DEF cliVars
  <2> QED
    BY <1>2, <1>3, <2>1, <2>2 DEF TypeInv, PeekTypeOK
<1>4. CASE ReceiveRequest
  <2>1. files \in Seq(Files)
    BY <1>1, FilesSeq
  <2>2. Answer(files) \in Seq(Seq(Byte)) /\ \A i \in DOMAIN Answer(files) : Answer(files)[i] # <<>>
    BY <2>1, AnswerMessages
  <2> QED
    BY <1>1, <1>4, <2>2 DEF ReceiveRequest, TypeInv, PeekTypeOK
<1>5. CASE Send
  <2>1. UNCHANGED <<srv, refused>>
    BY <1>5 DEF Send
  <2>2. PICK k, p, r : SendTook(k, p, r)
    BY <1>5, SendTakes
  <2>3. /\ k \in Nat /\ k <= Capacity - Len(stream) /\ Len(stream) \in Nat
        /\ stream' \in Seq(Byte) /\ Len(stream') = Len(stream) + k /\ queue' \in Seq(Seq(Byte))
    BY <1>1, <2>2 DEF SendTook
  <2>4. DOMAIN queue' = 1..Len(queue') /\ DOMAIN queue = 1..Len(queue) /\ Len(queue') \in Nat /\ Len(queue) \in Nat
    BY <1>1, <2>3
  <2>5. ASSUME NEW i \in DOMAIN queue' PROVE queue'[i] # <<>>
    <3>1. CASE k = Len(queue[1])
      <4>1. Len(queue') = Len(queue) - 1 /\ \A x \in 1..Len(queue') : queue'[x] = queue[x + 1]
        BY <2>2, <3>1 DEF SendTook
      <4>2. i + 1 \in DOMAIN queue
        BY <2>4, <4>1
      <4> QED
        BY <1>1, <2>4, <4>1, <4>2
    <3>2. CASE k # Len(queue[1])
      <4>1. Len(queue') = Len(queue) /\ queue'[1] = r /\ r # <<>> /\ \A x \in 2..Len(queue') : queue'[x] = queue[x]
        BY <2>2, <3>2 DEF SendTook
      <4>2. i = 1 \/ i \in 2..Len(queue')
        BY <2>4
      <4> QED
        BY <1>1, <2>4, <4>1, <4>2
    <3> QED
      BY <3>1, <3>2
  <2>6. Len(stream') <= Capacity
    BY <1>1, <2>3
  <2> QED
    BY <2>1, <2>3, <2>5, <2>6 DEF TypeInv, PeekTypeOK
<1>6. CASE Refuse
  <2>1. queue # <<>> /\ queue' = Tail(queue) /\ refused' = TRUE /\ UNCHANGED <<srv, stream>>
    BY <1>6 DEF Refuse
  <2>2. Tail(queue) \in Seq(Seq(Byte)) /\ \A i \in DOMAIN Tail(queue) : Tail(queue)[i] # <<>>
    BY <1>1, <2>1
  <2> QED
    BY <1>1, <2>1, <2>2 DEF TypeInv, PeekTypeOK
<1>7. CASE Close
  BY <1>1, <1>7 DEF Close, TypeInv, PeekTypeOK
<1>8. CASE Crash
  <2>1. srv' = "down" /\ queue' = <<>> /\ refused' = refused
    BY <1>8 DEF Crash
  <2>2. PICK n \in 0..Len(stream) : stream' = SubSeq(stream, 1, n)
    BY <1>8 DEF Crash
  <2>3. stream' \in Seq(Byte) /\ Len(stream') = n /\ Len(stream) \in Nat
    BY <1>1, <2>2, Parts DEF PartsOf
  <2>4. Len(stream') <= Capacity
    BY <1>1, <2>2, <2>3
  <2> QED
    BY <2>1, <2>3, <2>4 DEF TypeInv, PeekTypeOK
<1> QED
  BY <1>4, <1>5, <1>6, <1>7, <1>8 DEF Server

(* What a step of recv has taken. *)
LEMMA RecvTakes ==
  ASSUME TypeInv, cl \in {"header", "body"}, Len(got) <= Wanted, Wanted \in Nat,
         NEW k \in 1..Min({Wanted - Len(got), Len(stream)})
  PROVE  /\ k \in Nat /\ k >= 1 /\ k <= Wanted - Len(got) /\ k \in 0..Len(stream)
         /\ SubSeq(stream, 1, k) \in Seq(Byte) /\ Len(SubSeq(stream, 1, k)) = k
         /\ SubSeq(stream, k + 1, Len(stream)) \in Seq(Byte)
         /\ Len(SubSeq(stream, k + 1, Len(stream))) = Len(stream) - k
<1>1. stream \in Seq(Byte) /\ got \in Seq(Byte)
  BY DEF TypeInv, PeekTypeOK
<1> DEFINE a == Wanted - Len(got)
           b == Len(stream)
           m == Min({a, b})
<1>2. a \in Int /\ b \in Int /\ b \in Nat
  BY <1>1
<1>3. m \in {a, b} /\ m <= a /\ m <= b
  <2> HIDE DEF a, b
  <2> QED
    BY <1>2, MinOfTwo, Zenon
<1>4. k \in 1..m
  OBVIOUS
<1>5. k \in Nat /\ k >= 1 /\ k <= a /\ k <= b
  <2> HIDE DEF a, b, m
  <2> QED
    BY <1>2, <1>3, <1>4
<1>6. k \in 0..Len(stream)
  BY <1>2, <1>5
<1> QED
  BY <1>1, <1>5, <1>6, Parts DEF PartsOf

(* What the client waits for is no less than what it has. *)
LEMMA WantedType ==
  ASSUME TypeInv, cl \in {"header", "body"}
  PROVE  Wanted \in Nat /\ Len(got) <= Wanted
BY SMTT(30) DEF TypeInv, PeekTypeOK, Wanted, END_OF_REQUEST

(* What array_add copies are bytes. *)
LEMMA CopiedType ==
  ASSUME TypeInv
  PROVE  Copied \in Seq(Byte)
<1> DEFINE zeros == {i \in DOMAIN got : got[i] = 0}
<1>1. got \in Seq(Byte)
  BY DEF TypeInv
<1>2. CASE zeros # {}
  <2>1. zeros \in SUBSET Nat
    BY <1>1
  <2> HIDE DEF zeros
  <2>2. \E x \in zeros : \A y \in zeros : x <= y
    BY <1>2, <2>1, LeastOf
  <2>3. Min(zeros) \in zeros
    BY <2>2 DEF Min
  <2>4. Min(zeros) \in 1..Len(got)
    BY <1>1, <2>3 DEF zeros
  <2>5. Min(zeros) - 1 \in 0..Len(got)
    BY <2>4
  <2>6. SubSeq(got, 1, Min(zeros) - 1) \in Seq(Byte)
    BY <1>1, <2>5, Parts
  <2> QED
    BY <1>1, <2>6, EmptySeq DEF Copied, zeros
<1>3. CASE zeros = {}
  BY <1>1, <1>3, EmptySeq DEF Copied
<1> QED
  BY <1>2, <1>3

(* The types after a step of the client. *)
LEMMA ClientType ==
  ASSUME PeekConstants, TypeInv, Client
  PROVE  TypeInv'
<1>1. UNCHANGED srvVars
  BY DEF Client, SendRequest, Recv, ReadHeader, ReadBody
<1>2. SUFFICES /\ stream' \in Seq(Byte) /\ Len(stream') <= Capacity
               /\ cl' \in {"request", "header", "body", "done", "failed", "undefined"}
               /\ msgLen' \in 0..END_OF_REQUEST
               /\ cl' = "header" => Len(got') <= 2
               /\ cl' = "body" => Len(got') <= msgLen'
               /\ mixed' \in BOOLEAN
               /\ Len(listed') <= MaxListed /\ printed' \subseteq DOMAIN listed'
               /\ got' \in Seq(Byte) /\ listed' \in Seq(Seq(Byte))
               /\ cl' # "request"
  BY <1>1, <1>2 DEF TypeInv, PeekTypeOK, srvVars
<1>3. /\ stream \in Seq(Byte) /\ Len(stream) <= Capacity
      /\ msgLen \in 0..END_OF_REQUEST
      /\ cl = "header" => Len(got) <= 2
      /\ cl = "body" => Len(got) <= msgLen
      /\ mixed \in BOOLEAN
      /\ Len(listed) <= MaxListed /\ printed \subseteq DOMAIN listed
      /\ got \in Seq(Byte) /\ listed \in Seq(Seq(Byte))
  BY DEF TypeInv, PeekTypeOK
<1>4. Capacity \in Nat /\ MaxListed \in Nat /\ END_OF_REQUEST \in Nat
  BY Sizes
<1>5. <<>> \in Seq(Byte) /\ Len(<<>>) = 0
  OBVIOUS
<1>6. CASE SendRequest
  <2>1. cl = "request" /\ cl' \in {"header", "failed"} /\ UNCHANGED <<stream, msgLen, got, listed, printed, mixed>>
    BY <1>6 DEF SendRequest
  <2> QED
    BY <1>3, <1>5, <2>1 DEF TypeInv
<1>7. CASE Recv
  <2>1. cl \in {"header", "body"} /\ cl' \in {cl, "undefined"} /\ UNCHANGED <<msgLen, listed, printed, mixed>>
    BY <1>7 DEF Recv
  <2>2. PICK k \in 1..Min({Wanted - Len(got), Len(stream)}) :
               /\ got' = got \o SubSeq(stream, 1, k)
               /\ stream' = SubSeq(stream, k + 1, Len(stream))
    BY <1>7 DEF Recv, Asked
  <2>3. Wanted \in Nat /\ Len(got) <= Wanted
    BY <2>1, WantedType
  <2>4. /\ k \in Nat /\ k >= 1 /\ k <= Wanted - Len(got) /\ k \in 0..Len(stream)
        /\ SubSeq(stream, 1, k) \in Seq(Byte) /\ Len(SubSeq(stream, 1, k)) = k
        /\ SubSeq(stream, k + 1, Len(stream)) \in Seq(Byte)
        /\ Len(SubSeq(stream, k + 1, Len(stream))) = Len(stream) - k
    BY <2>1, <2>3, RecvTakes
  <2>5. got' \in Seq(Byte) /\ Len(got') = Len(got) + k
    BY <1>3, <2>2, <2>4, ConcatProperties
  <2>6. Len(stream) \in Nat /\ Len(got) \in Nat
    BY <1>3
  <2>7. Len(got') <= Wanted /\ Len(stream') <= Capacity /\ stream' \in Seq(Byte)
    BY <1>3, <1>4, <2>2, <2>3, <2>4, <2>5, <2>6
  <2>8. cl' = "header" => Len(got') <= 2
    BY <2>1, <2>7 DEF Wanted
  <2>9. cl' = "body" => Len(got') <= msgLen
    BY <2>1, <2>7 DEF Wanted
  <2> QED
    BY <1>3, <2>1, <2>5, <2>7, <2>8, <2>9
<1>8. CASE ReadHeader
  <2>1. msgLen' = Length /\ got' = <<>> /\ UNCHANGED <<stream, listed>>
    BY <1>8 DEF ReadHeader
  <2>2. IF Length = END_OF_REQUEST
        THEN PrintFiles
        ELSE cl' = "body" /\ UNCHANGED <<printed, mixed>>
    BY <1>8 DEF ReadHeader
  <2>3. Length \in 0..END_OF_REQUEST
    BY LengthType
  <2>4. printed' \subseteq DOMAIN listed /\ mixed' \in BOOLEAN
    BY <1>3, <2>2 DEF PrintFiles, Shown
  <2>5. cl' \in {"body", "done", "undefined"}
    BY <2>2 DEF PrintFiles
  <2>6. Length >= 0
    BY <2>3, <1>4
  <2> QED
    BY <1>3, <1>5, <2>1, <2>3, <2>4, <2>5, <2>6
<1>9. CASE ReadBody
  <2>1. cl' \in {"header", "undefined"} /\ got' = <<>> /\ UNCHANGED <<stream, msgLen, printed, mixed>>
        /\ listed' = IF Len(listed) < MaxListed THEN Append(listed, Copied) ELSE listed
    BY <1>9 DEF ReadBody
  <2>2. Copied \in Seq(Byte)
    BY CopiedType
  <2>3. Append(listed, Copied) \in Seq(Seq(Byte)) /\ Len(Append(listed, Copied)) = Len(listed) + 1
        /\ DOMAIN listed \subseteq DOMAIN Append(listed, Copied)
    BY <1>3, <2>2
  <2>4. Len(listed) \in Nat
    BY <1>3
  <2>5. Len(listed') <= MaxListed /\ printed \subseteq DOMAIN listed' /\ listed' \in Seq(Seq(Byte))
    BY <1>3, <1>4, <2>1, <2>3, <2>4
  <2> QED
    BY <1>3, <1>5, <2>1, <2>5
<1> QED
  BY <1>6, <1>7, <1>8, <1>9 DEF Client

(* No recv delivers more than its loop has asked for: a header is two bytes *)
(* and a body msg_len of them, whatever they say and whatever the server    *)
(* does; that they fit into the buffer is not said (network.c:217-233,      *)
(* cli.c:111-121).                                                          *)
THEOREM PeekTypeCorrect ==
  ASSUME PeekConstants
  PROVE  PeekSpec => []PeekTypeOK
<1>1. PeekInit => TypeInv
  BY InitType
<1>2. TypeInv /\ [PeekNext]_peekVars => TypeInv'
  <2> SUFFICES ASSUME TypeInv, [PeekNext]_peekVars PROVE TypeInv'
    OBVIOUS
  <2>1. CASE UNCHANGED peekVars
    BY <2>1 DEF peekVars, srvVars, cliVars, TypeInv, PeekTypeOK
  <2>2. CASE Server \/ Crash
    BY <2>2, ServerType
  <2>3. CASE Client
    BY <2>3, ClientType
  <2> QED
    BY <2>1, <2>2, <2>3 DEF PeekNext, Done
<1>3. TypeInv => PeekTypeOK
  BY DEF TypeInv
<1> QED
  BY <1>1, <1>2, <1>3, PTL DEF PeekSpec

(* What print_peeked_file shows. *)

(* A name has one word if and only if one word starts in it. *)
LEMMA OneStart ==
  ASSUME NEW n \in Seq(Int), NEW i \in Int, WordStarts(n) = {i}
  PROVE  OneWord(n)
<1> DEFINE NS == {k \in DOMAIN n : n[k] # Space}
<1>1. Len(n) \in Nat /\ DOMAIN n = 1..Len(n)
  OBVIOUS
<1>2. WordStarts(n) = {k \in DOMAIN n : n[k] # Space /\ (k = 1 \/ n[k - 1] = Space)}
  BY DEF WordStarts
<1>3. i \in NS
  BY <1>2
<1>4. ASSUME NEW k \in NS PROVE i <= k /\ \A x \in i..k : x \in NS
  <2> DEFINE Runs == {s \in 1..k : \A x \in s..k : x \in NS}
  <2>1. k \in 1..Len(n)
    BY <1>1, <1>4
  <2>2. Runs \in SUBSET Nat /\ k \in Runs
    BY <1>4, <2>1
  <2>3. PICK s \in Runs : \A y \in Runs : s <= y
    <3> HIDE DEF Runs
    <3> QED
      BY <2>2, LeastOf
  <2>4. s \in 1..k /\ s \in NS /\ \A x \in s..k : x \in NS
    BY <2>1
  <2>5. s = 1 \/ n[s - 1] = Space
    <3> SUFFICES ASSUME s # 1, n[s - 1] # Space PROVE FALSE
      OBVIOUS
    <3>1. s - 1 \in 1..k /\ s - 1 \in NS
      BY <1>1, <2>1, <2>4
    <3>2. \A x \in (s - 1)..k : x = s - 1 \/ x \in s..k
      BY <2>1, <2>4
    <3>3. s - 1 \in Runs
      BY <2>4, <3>1, <3>2
    <3> QED
      BY <2>3, <2>4, <3>3
  <2>6. s \in WordStarts(n)
    BY <1>2, <2>4, <2>5
  <2>7. s = i
    BY <2>6
  <2> QED
    BY <2>1, <2>4, <2>7
<1> DEFINE Bounds == {j \in 1..Len(n) : \A k \in NS : k <= j}
<1>5. Bounds \in SUBSET Nat /\ Len(n) \in Bounds
  BY <1>1, <1>3
<1>6. PICK j \in Bounds : \A y \in Bounds : j <= y
  <2> HIDE DEF Bounds
  <2> QED
    BY <1>5, LeastOf
<1>7. j \in 1..Len(n) /\ (\A k \in NS : k <= j)
  OBVIOUS
<1>8. j \in NS
  <2> SUFFICES ASSUME j \notin NS PROVE FALSE
    OBVIOUS
  <2>1. \A k \in NS : k \in 1..Len(n) /\ k <= j /\ k # j
    BY <1>1, <1>7
  <2>2. \A k \in NS : k <= j - 1
    BY <1>7, <2>1
  <2>3. j - 1 \in 1..Len(n)
    BY <1>1, <1>3, <1>7, <2>1
  <2>4. j - 1 \in Bounds
    BY <2>2, <2>3
  <2> QED
    BY <1>6, <1>7, <2>4
<1>9. i <= j /\ \A x \in i..j : x \in NS
  BY <1>4, <1>8
<1>10. \A k \in DOMAIN n : n[k] # Space <=> k \in i..j
  <2> SUFFICES ASSUME NEW k \in DOMAIN n PROVE n[k] # Space <=> k \in i..j
    OBVIOUS
  <2>1. n[k] # Space => k \in i..j
    <3> SUFFICES ASSUME n[k] # Space PROVE k \in i..j
      OBVIOUS
    <3>1. k \in NS
      OBVIOUS
    <3>2. i <= k /\ k <= j
      BY <1>4, <1>7, <3>1
    <3> QED
      BY <1>1, <3>2, <1>7
  <2>2. k \in i..j => n[k] # Space
    BY <1>9
  <2> QED
    BY <2>1, <2>2
<1>11. i \in DOMAIN n /\ j \in DOMAIN n
  BY <1>1, <1>3, <1>7
<1> QED
  BY <1>9, <1>10, <1>11 DEF OneWord

(* The other way round. *)
LEMMA OneWordStarts ==
  ASSUME NEW n \in Seq(Int), OneWord(n)
  PROVE  \E i \in DOMAIN n : WordStarts(n) = {i}
<1>1. Len(n) \in Nat /\ DOMAIN n = 1..Len(n)
  OBVIOUS
<1>2. PICK i, j \in DOMAIN n : i <= j /\ \A k \in DOMAIN n : n[k] # Space <=> k \in i..j
  BY DEF OneWord
<1>3. n[i] # Space /\ (i = 1 \/ n[i - 1] = Space)
  <2>1. n[i] # Space
    BY <1>1, <1>2
  <2>2. i # 1 => i - 1 \in DOMAIN n /\ i - 1 \notin i..j
    BY <1>1, <1>2
  <2> QED
    BY <1>2, <2>1, <2>2
<1>4. ASSUME NEW x \in DOMAIN n, n[x] # Space, x = 1 \/ n[x - 1] = Space
      PROVE  x = i
  <2>1. x \in i..j
    BY <1>2, <1>4
  <2>2. SUFFICES ASSUME x # i PROVE FALSE
    OBVIOUS
  <2>3. x # 1 /\ x - 1 \in DOMAIN n /\ x - 1 \in i..j
    BY <1>1, <1>2, <2>1, <2>2
  <2> QED
    BY <1>2, <1>4, <2>3
<1> QED
  BY <1>3, <1>4 DEF WordStarts

(* A file is shown if and only if its name is one word: the size is the     *)
(* other one.                                                               *)
LEMMA ShownBody ==
  ASSUME PeekConstants, NEW f \in Files
  PROVE  Cardinality(WordStarts(Body(f))) = 2 <=> OneWord(f.name)
<1> DEFINE s == f.name
           z == f.size
           b == Body(f)
           n == Len(s)
<1>1. s \in Seq(Int) /\ n \in Nat /\ n >= 1 /\ z \in Seq(Int) /\ Len(z) \in Nat /\ Len(z) >= 1
      /\ \A i \in 1..Len(z) : z[i] # 32
  <2>1. s \in Seq(1..255) /\ s # <<>> /\ z \in Seq(48..57) /\ z # <<>>
    BY DEF PeekConstants
  <2>2. \A q \in Seq(Int) : q # <<>> => Len(q) >= 1 /\ Len(q) \in Nat
    BY EmptySeq
  <2>3. 1..255 \subseteq Int /\ 48..57 \subseteq Int
    <3>1. ASSUME NEW x \in Int, NEW y \in Int PROVE x..y \subseteq Int
      OBVIOUS
    <3>2. 1 \in Int /\ 255 \in Int /\ 48 \in Int /\ 57 \in Int
      OBVIOUS
    <3> QED
      BY <3>1, <3>2, Zenon
  <2>4. s \in Seq(Int) /\ z \in Seq(Int)
    <3>1. ASSUME NEW S, S \subseteq Int, NEW q \in Seq(S) PROVE q \in Seq(Int)
      BY <3>1, SeqMonotonic
    <3> QED
      BY <2>1, <2>3, <3>1, Zenon
  <2>5. \A i \in 1..Len(z) : z[i] \in 48..57
    BY <2>1
  <2>6. \A x \in 48..57 : x # 32
    OBVIOUS
  <2>7. Len(s) >= 1 /\ Len(s) \in Nat /\ Len(z) >= 1 /\ Len(z) \in Nat
    BY <2>1, <2>2, <2>4, Zenon
  <2>8. \A i \in 1..Len(z) : z[i] # 32
    BY <2>5, <2>6, Zenon
  <2> QED
    BY <2>4, <2>7, <2>8
<1>2. b = s \o <<32>> \o z
  BY DEF Body, Space
<1> HIDE DEF b, z
<1> DEFINE s2 == s \o <<32>>
<1>3. s2 \in Seq(Int) /\ Len(s2) = n + 1 /\ s2[n + 1] = 32 /\ \A i \in 1..n : s2[i] = s[i]
  BY <1>1
<1>4. b = s2 \o z
  BY <1>2
<1> HIDE DEF s2
<1>5. /\ b \in Seq(Int) /\ Len(b) = n + 1 + Len(z)
      /\ \A i \in 1..(n + 1) : b[i] = s2[i]
      /\ \A i \in (n + 2)..(n + 1 + Len(z)) : b[i] = z[i - (n + 1)]
  <2> HIDE DEF n
  <2>1. /\ b \in Seq(Int) /\ Len(b) = Len(s2) + Len(z)
        /\ \A i \in 1..(Len(s2) + Len(z)) : b[i] = IF i <= Len(s2) THEN s2[i] ELSE z[i - Len(s2)]
    <3> HIDE DEF s
    <3>1. s2 \in Seq(Int) /\ z \in Seq(Int)
      BY <1>1, <1>3
    <3> QED
      BY <1>4, <3>1, ConcatProperties, Zenon
  <2>2. \A i \in 1..(n + 1) : i \in 1..(Len(s2) + Len(z)) /\ i <= Len(s2)
    BY <1>1, <1>3
  <2>3. \A i \in (n + 2)..(n + 1 + Len(z)) : i \in 1..(Len(s2) + Len(z)) /\ ~ (i <= Len(s2))
    BY <1>1, <1>3
  <2> QED
    BY <1>3, <2>1, <2>2, <2>3
<1>6. /\ \A i \in 1..n : b[i] = s[i]
      /\ b[n + 1] = 32
      /\ \A i \in (n + 2)..(n + 1 + Len(z)) : b[i] # 32
  <2>1. ASSUME NEW i \in 1..n PROVE b[i] = s[i]
    <3> HIDE DEF n
    <3>1. i \in 1..(n + 1)
      BY <1>1
    <3> QED
      BY <1>3, <1>5, <3>1
  <2>2. b[n + 1] = 32
    <3> HIDE DEF n
    <3>1. n + 1 \in 1..(n + 1)
      BY <1>1
    <3> QED
      BY <1>3, <1>5, <3>1
  <2>3. ASSUME NEW i \in (n + 2)..(n + 1 + Len(z)) PROVE b[i] # 32
    <3>1. i - (n + 1) \in 1..Len(z)
      BY <1>1, <2>3
    <3> QED
      BY <1>1, <1>5, <3>1
  <2> QED
    BY <2>1, <2>2, <2>3
<1>7. WordStarts(b) = WordStarts(s) \cup {n + 2}
  <2>1. DOMAIN b = 1..(n + 1 + Len(z)) /\ DOMAIN s = 1..n
    BY <1>1, <1>5
  <2>2. ASSUME NEW i \in WordStarts(b) PROVE i \in WordStarts(s) \cup {n + 2}
    <3>1. i \in DOMAIN b /\ b[i] # 32 /\ (i = 1 \/ b[i - 1] = 32)
      BY <2>2 DEF WordStarts, Space
    <3>2. CASE i \in 1..n
      <4>1. i = 1 \/ i - 1 \in 1..n
        BY <3>2, <1>1
      <4> QED
        BY <1>6, <2>1, <3>1, <3>2, <4>1 DEF WordStarts, Space
    <3>3. CASE i \notin 1..n
      <4>1. i # n + 1
        BY <1>6, <3>1
      <4>2. i \in (n + 2)..(n + 1 + Len(z))
        BY <1>1, <2>1, <3>1, <3>3, <4>1
      <4>3. i # n + 2 => i - 1 \in (n + 2)..(n + 1 + Len(z)) /\ i # 1
        BY <1>1, <4>2
      <4> QED
        BY <1>6, <3>1, <4>2, <4>3
    <3> QED
      BY <3>2, <3>3
  <2>3. ASSUME NEW i \in WordStarts(s) PROVE i \in WordStarts(b)
    <3>1. i \in 1..n /\ s[i] # 32 /\ (i = 1 \/ s[i - 1] = 32)
      BY <2>1, <2>3 DEF WordStarts, Space
    <3>2. i \in DOMAIN b /\ (i = 1 \/ i - 1 \in 1..n)
      BY <1>1, <2>1, <3>1
    <3>3. b[i] # 32 /\ (i = 1 \/ b[i - 1] = 32)
      BY <1>6, <3>1, <3>2
    <3> QED
      BY <3>2, <3>3 DEF WordStarts, Space
  <2>4. n + 2 \in WordStarts(b)
    <3>1. n + 2 \in DOMAIN b /\ n + 2 \in (n + 2)..(n + 1 + Len(z)) /\ (n + 2) - 1 = n + 1
      BY <1>1, <2>1
    <3> QED
      BY <1>6, <3>1 DEF WordStarts, Space
  <2> QED
    BY <2>2, <2>3, <2>4
<1>8. WordStarts(s) \subseteq 1..n /\ n + 2 \notin WordStarts(s)
  BY <1>1 DEF WordStarts
<1>9. IsFiniteSet(WordStarts(s)) /\ Cardinality(WordStarts(b)) = Cardinality(WordStarts(s)) + 1
      /\ Cardinality(WordStarts(s)) \in Nat
  <2>1. IsFiniteSet(1..n)
    BY <1>1, FS_Interval
  <2>2. IsFiniteSet(WordStarts(s))
    BY <1>8, <2>1, FS_Subset
  <2>3. Cardinality(WordStarts(s) \cup {n + 2}) = Cardinality(WordStarts(s)) + 1
    BY <1>8, <2>2, FS_AddElement
  <2> QED
    BY <1>7, <2>2, <2>3, FS_CardinalityType
<1>10. Cardinality(WordStarts(b)) = 2 <=> Cardinality(WordStarts(s)) = 1
  BY <1>9
<1>11. Cardinality(WordStarts(s)) = 1 <=> \E i : WordStarts(s) = {i}
  BY <1>9, FS_Singleton
<1>12. (\E i : WordStarts(s) = {i}) <=> OneWord(s)
  <2>1. ASSUME NEW i, WordStarts(s) = {i} PROVE OneWord(s)
    <3>1. i \in Int
      BY <1>1, <1>8, <2>1
    <3> QED
      BY <1>1, <2>1, <3>1, OneStart
  <2>2. OneWord(s) => \E i : WordStarts(s) = {i}
    BY <1>1, OneWordStarts
  <2> QED
    BY <2>1, <2>2
<1> QED
  BY <1>10, <1>11, <1>12 DEF b

(* The client is where the server is. *)

(* Which message of the answer the client reads. *)
Position == 2 * Len(listed) + (IF cl = "body" THEN 2 ELSE 1)

(* The messages A before the m-th end at off[1], off[2], ...                *)
Offsets(A, m, off) ==
  /\ m \in 1..(Len(A) + 1)
  /\ off \in [0..(m - 1) -> Nat] /\ off[0] = 0
  /\ \A x \in 1..(m - 1) : off[x] = off[x - 1] + Len(A[x])
  /\ \A x, y \in 0..(m - 1) : x <= y => off[x] <= off[y]

(* v is made of their bytes, and of the first ones of the m-th. *)
BytesOf(A, m, off, v) ==
  \A x \in 1..Len(A) : \A i \in 1..Len(A[x]) :
    x <= m /\ off[x - 1] + i <= Len(v) => v[off[x - 1] + i] = A[x][i]

(* w is what the server has sent: m - 1 messages and a part of the m-th. *)
Sent(A, m, off, w) ==
  /\ Offsets(A, m, off)
  /\ w \in Seq(Byte) /\ off[m - 1] <= Len(w)
  /\ BytesOf(A, m, off, w)
  /\ m <= Len(A) => Len(w) < off[m - 1] + Len(A[m])
  /\ m = Len(A) + 1 => Len(w) = off[m - 1]

(* The queue is what is left. *)
Left(A, m, off, w) ==
  /\ Len(queue) = Len(A) - (m - 1)
  /\ queue # <<>> =>
       /\ Len(queue[1]) = Len(A[m]) - (Len(w) - off[m - 1])
       /\ \A i \in 1..Len(queue[1]) : queue[1][i] = A[m][(Len(w) - off[m - 1]) + i]
  /\ \A i \in 2..Len(queue) : queue[i] = A[m + i - 1]

(* What the queue has to do with it, in each state of the server. *)
ToSend(A, m, off, w) ==
  /\ srv \in {"sending", "closed"} => Left(A, m, off, w)
  /\ srv = "closed" => queue = <<>>
  /\ srv = "request" => m = 1 /\ w = <<>>

(* The client has got a part of the j-th message, and what is on its way    *)
(* comes after it.  When the server fails the end of it is lost.            *)
Received(A, m, off, w, j) ==
  /\ j \in 1..Len(A) /\ j <= m
  /\ Len(got) <= Len(A[j])
  /\ off[j - 1] + Len(got) + Len(stream) <= Len(w)
  /\ srv # "down" => off[j - 1] + Len(got) + Len(stream) = Len(w)
  /\ \A i \in 1..Len(got) : got[i] = A[j][i]
  /\ \A i \in 1..Len(stream) : stream[i] = w[off[j - 1] + Len(got) + i]

(* The client has listed the first files, and what it reads next comes      *)
(* next.                                                                    *)
InSync ==
  /\ msgLen < BUFFER
  /\ \A i \in DOMAIN listed : listed[i] = Body(files[i])
  /\ \E A, m, off, w, j :
       /\ A = Answer(files) /\ j = Position
       /\ cl = "body" => msgLen = Len(A[j])
       /\ Sent(A, m, off, w)
       /\ ToSend(A, m, off, w)
       /\ Received(A, m, off, w, j)

(* The server has failed, and the client reads the same header for ever. *)
OutOfSync ==
  /\ srv = "down" /\ stream = <<>> /\ got = <<>>
  /\ cl \in {"header", "body"}
  /\ msgLen # END_OF_REQUEST

(* The inductive invariant. *)
PeekInv ==
  /\ TypeInv
  /\ RightUnlessRefused
  /\ ~refused /\ cl \in {"request", "header", "body"} => InSync \/ OutOfSync

(* The messages of a sequence, one by one. *)
LEMMA Elements ==
  ASSUME NEW q \in Seq(Seq(Byte)), \A k \in DOMAIN q : q[k] # <<>>
  PROVE  /\ DOMAIN q = 1..Len(q) /\ Len(q) \in Nat
         /\ \A k \in 1..Len(q) : q[k] \in Seq(Byte) /\ q[k] # <<>> /\ Len(q[k]) \in Nat /\ Len(q[k]) > 0
<1>1. DOMAIN q = 1..Len(q) /\ Len(q) \in Nat
  OBVIOUS
<1>2. ASSUME NEW k \in 1..Len(q) PROVE q[k] \in Seq(Byte) /\ q[k] # <<>> /\ Len(q[k]) \in Nat /\ Len(q[k]) > 0
  <2>1. q[k] \in Seq(Byte) /\ q[k] # <<>>
    BY <1>1, ElementOfSeq, Zenon
  <2>2. \A r \in Seq(Byte) : r # <<>> => Len(r) \in Nat /\ Len(r) > 0
    BY EmptySeq
  <2> QED
    BY <2>1, <2>2, Zenon
<1> QED
  BY <1>1, <1>2

(* Nothing is sent, and the client will read the first header. *)
LEMMA InitInv ==
  ASSUME PeekConstants, PeekInit
  PROVE  PeekInv
<1>1. TypeInv
  BY InitType
<1>2. RightUnlessRefused
  BY DEF PeekInit, RightUnlessRefused
<1>3. InSync
  <2> DEFINE A == Answer(files)
             off == [k \in {0} |-> 0]
  <2>1. files \in Seq(Files)
    BY FilesSeq DEF PeekInit
  <2>2. A \in Seq(Seq(Byte)) /\ Len(A) = 2 * Len(files) + 1 /\ \A k \in DOMAIN A : A[k] # <<>>
    BY <2>1, AnswerMessages
  <2>3. Len(A) \in Nat /\ Len(A) >= 1 /\ 1 \in DOMAIN A
    BY <2>1, <2>2
  <2> HIDE DEF A
  <2>4. A[1] \in Seq(Byte) /\ A[1] # <<>> /\ Len(A[1]) \in Nat /\ Len(A[1]) > 0
    <3>1. 1 \in 1..Len(A)
      BY <2>3
    <3> QED
      BY <2>2, <3>1, Elements, Zenon
  <2>5. <<>> \in Seq(Byte) /\ Len(<<>>) = 0
    OBVIOUS
  <2>6. off \in [0..(1 - 1) -> Nat] /\ off[0] = 0 /\ 0..(1 - 1) = {0}
    OBVIOUS
  <2>7. Offsets(A, 1, off) /\ Sent(A, 1, off, <<>>)
    <3> HIDE DEF off
    <3>1. \A k \in 1..Len(A) : \A i \in 1..Len(A[k]) :
            k <= 1 /\ off[k - 1] + i <= Len(<<>>) => <<>>[off[k - 1] + i] = A[k][i]
      BY <2>3, <2>4, <2>5, <2>6
    <3>2. off[1 - 1] = 0 /\ 1..(1 - 1) = {} /\ 1 \in 1..(Len(A) + 1) /\ 1 # Len(A) + 1
      BY <2>3, <2>6
    <3>3. \A a, b \in 0..(1 - 1) : a = 0 /\ b = 0
      OBVIOUS
    <3> QED
      BY <2>3, <2>4, <2>5, <2>6, <3>1, <3>2, <3>3 DEF Sent, Offsets, BytesOf
  <2>8. ToSend(A, 1, off, <<>>)
    BY DEF ToSend, PeekInit
  <2>9. Position = 1
    BY DEF Position, PeekInit
  <2>10. Received(A, 1, off, <<>>, 1)
    <3> HIDE DEF off
    <3>1. off[1 - 1] = 0
      BY <2>6
    <3>2. got = <<>> /\ stream = <<>>
      BY DEF PeekInit
    <3> QED
      BY <2>3, <2>4, <2>5, <3>1, <3>2 DEF Received
  <2>11. cl = "request" /\ msgLen < BUFFER /\ DOMAIN listed = {}
    BY Sizes DEF PeekInit
  <2> HIDE DEF off
  <2> QED
    BY <2>7, <2>8, <2>9, <2>10, <2>11 DEF InSync, A
<1> QED
  BY <1>1, <1>2, <1>3 DEF PeekInv

(* What the client has of the answer, if it is in step. *)
LEMMA AnswerFacts ==
  ASSUME PeekConstants, TypeInv
  PROVE  /\ files \in Seq(Files) /\ Len(files) \in Nat /\ Len(files) <= MaxListed
         /\ Answer(files) \in Seq(Seq(Byte))
         /\ Len(Answer(files)) = 2 * Len(files) + 1 /\ Len(Answer(files)) \in Nat
         /\ \A k \in 1..Len(Answer(files)) :
              /\ Answer(files)[k] \in Seq(Byte) /\ Answer(files)[k] # <<>>
              /\ Len(Answer(files)[k]) \in Nat /\ Len(Answer(files)[k]) > 0
<1> DEFINE A == Answer(files)
<1>1. files \in Seq(Files) /\ Len(files) \in 0..MaxFiles
  BY FilesSeq DEF TypeInv, PeekTypeOK
<1>2. A \in Seq(Seq(Byte)) /\ Len(A) = 2 * Len(files) + 1 /\ \A k \in DOMAIN A : A[k] # <<>>
  BY <1>1, AnswerMessages
<1> HIDE DEF A
<1>3. \A k \in 1..Len(A) : A[k] \in Seq(Byte) /\ A[k] # <<>> /\ Len(A[k]) \in Nat /\ Len(A[k]) > 0
  BY <1>2, Elements, Zenon
<1>5. Len(files) \in Nat /\ Len(files) <= MaxListed
  BY <1>1, Sizes
<1>6. Len(A) \in Nat
  BY <1>2
<1> QED
  BY <1>1, <1>2, <1>3, <1>5, <1>6 DEF A

(* The pieces of the answer: what Sent, Left and Received say of numbers. *)
LEMMA SentFacts ==
  ASSUME NEW A \in Seq(Seq(Byte)), NEW m, NEW off, NEW w, Sent(A, m, off, w)
  PROVE  /\ m \in Nat /\ m >= 1 /\ m <= Len(A) + 1 /\ Len(A) \in Nat
         /\ \A k \in 0..(m - 1) : off[k] \in Nat /\ off[k] <= off[m - 1]
         /\ off[m - 1] \in Nat /\ w \in Seq(Byte) /\ Len(w) \in Nat /\ off[m - 1] <= Len(w)
         /\ \A k \in 1..(m - 1) : off[k - 1] \in Nat /\ off[k] = off[k - 1] + Len(A[k])
<1>1. /\ m \in 1..(Len(A) + 1) /\ off \in [0..(m - 1) -> Nat]
      /\ \A a, b \in 0..(m - 1) : a <= b => off[a] <= off[b]
  BY DEF Sent, Offsets
<1>6. \A x \in 1..(m - 1) : off[x] = off[x - 1] + Len(A[x])
  BY DEF Sent, Offsets
<1>7. w \in Seq(Byte) /\ off[m - 1] <= Len(w)
  BY DEF Sent
<1>2. Len(A) \in Nat /\ Len(w) \in Nat
  BY <1>7
<1>3. m \in Nat /\ m >= 1 /\ m <= Len(A) + 1 /\ m - 1 \in 0..(m - 1)
  BY <1>1, <1>2
<1>4. \A k \in 0..(m - 1) : off[k] \in Nat /\ off[k] <= off[m - 1]
  BY <1>1, <1>3
<1>5. \A k \in 1..(m - 1) : k - 1 \in 0..(m - 1)
  BY <1>3
<1>8. off[m - 1] \in Nat
  BY <1>3, <1>4
<1>9. \A k \in 1..(m - 1) : off[k - 1] \in Nat /\ off[k] = off[k - 1] + Len(A[k])
  BY <1>4, <1>5, <1>6
<1> QED
  BY <1>2, <1>3, <1>4, <1>7, <1>8, <1>9

(* p comes next in the answer. *)
Follows(A, m, off, w, p) ==
  /\ m <= Len(A) /\ p \in Seq(Byte)
  /\ Len(p) <= Len(A[m]) - (Len(w) - off[m - 1])
  /\ \A i \in 1..Len(p) : p[i] = A[m][(Len(w) - off[m - 1]) + i]

(* The bytes sent are those of the messages with p as without. *)
LEMMA NextBytes ==
  ASSUME NEW A \in Seq(Seq(Byte)), NEW m, NEW off, NEW w, Sent(A, m, off, w),
         NEW p, Follows(A, m, off, w, p), NEW v, v = w \o p
  PROVE  v \in Seq(Byte) /\ JoinOf(v, w, p) /\ BytesOf(A, m, off, v)
<1> DEFINE L == Len(w)
           base == off[m - 1]
           k == Len(p)
<1>1. /\ m \in Nat /\ m >= 1 /\ Len(A) \in Nat
      /\ base \in Nat /\ w \in Seq(Byte) /\ L \in Nat /\ base <= L
  BY SentFacts
<1>2. \A x \in 1..(m - 1) : off[x] = off[x - 1] + Len(A[x])
  BY DEF Sent, Offsets
<1>3. \A x \in 0..(m - 1) : off[x] \in Nat /\ off[x] <= base
  BY SentFacts
<1>13. p \in Seq(Byte)
  BY DEF Follows
<1>14. k \in Nat
  BY <1>13
<1>4. v \in Seq(Byte) /\ JoinOf(v, w, p)
  BY <1>1, <1>13, Joined
<1>5. Len(v) = L + k
  BY <1>4 DEF JoinOf
<1>6. \A i \in 1..L : v[i] = w[i]
  BY <1>4 DEF JoinOf
<1>7. \A i \in 1..k : v[L + i] = p[i]
  BY <1>4 DEF JoinOf
<1>8. \A i \in 1..k : p[i] = A[m][(L - base) + i]
  BY DEF Follows
<1>9. \A x \in 1..Len(A) : \A i \in 1..Len(A[x]) :
           x <= m /\ off[x - 1] + i <= L => w[off[x - 1] + i] = A[x][i]
  BY DEF Sent, BytesOf
<1>15. off[m - 1] = base
  OBVIOUS
<1> HIDE DEF L, base, k
<1>10. ASSUME NEW x \in 1..Len(A), NEW i \in 1..Len(A[x]), x <= m, off[x - 1] + i <= L + k
       PROVE  v[off[x - 1] + i] = A[x][i]
  <2> DEFINE z == off[x - 1]
             lx == Len(A[x])
  <2>1. x \in Nat /\ x >= 1 /\ x - 1 \in 0..(m - 1)
    BY <1>1, <1>10
  <2>2. lx \in Nat
    <3>1. A[x] \in Seq(Byte)
      BY ElementOfSeq, Zenon
    <3> QED
      BY <3>1
  <2>6. i \in Nat /\ i >= 1 /\ i <= lx /\ i \in 1..Len(A[x])
    BY <2>2
  <2>3. z \in Nat /\ z <= base
    BY <1>3, <2>1
  <2>7. z + i <= L + k
    BY <1>10
  <2>8. z + i <= L => w[z + i] = A[x][i]
    BY <1>9, <1>10
  <2>9. x # m => z + lx <= base
    <3> SUFFICES ASSUME x # m PROVE z + lx <= base
      OBVIOUS
    <3>1. x \in 1..(m - 1) /\ x \in 0..(m - 1)
      BY <1>1, <1>10, <2>1
    <3>2. off[x] = z + lx
      BY <1>2, <3>1
    <3>3. off[x] <= base
      BY <1>3, <3>1
    <3> QED
      BY <3>2, <3>3
  <2>10. x = m => z = base
    BY <1>15
  <2>11. SUFFICES v[z + i] = A[x][i]
    OBVIOUS
  <2> HIDE DEF z, lx
  <2>4. CASE z + i <= L
    <3>1. z + i \in 1..L
      BY <1>1, <2>6, <2>3, <2>4
    <3> QED
      BY <1>6, <2>4, <2>8, <3>1
  <2>5. CASE z + i > L
    <3>1. x = m
      BY <1>1, <2>2, <2>3, <2>5, <2>6, <2>9
    <3> DEFINE e == (base + i) - L
    <3>3. e \in 1..k /\ (L - base) + e = i /\ L + e = z + i
      BY <1>1, <1>14, <2>3, <2>5, <2>6, <2>7, <2>10, <3>1
    <3> HIDE DEF e
    <3>4. v[L + e] = p[e]
      BY <1>7, <3>3
    <3>5. p[e] = A[m][(L - base) + e]
      BY <1>8, <3>3
    <3> QED
      BY <3>1, <3>3, <3>4, <3>5
  <2>12. z + i <= L \/ z + i > L
    BY <1>1, <2>3, <2>6
  <2> QED
    BY <2>4, <2>5, <2>12
<1>11. BytesOf(A, m, off, v)
  BY <1>5, <1>10 DEF BytesOf
<1> QED
  BY <1>4, <1>11

(* A part of the message more, which is not all of it. *)
LEMMA SentMore ==
  ASSUME NEW A \in Seq(Seq(Byte)), NEW m, NEW off, NEW w, Sent(A, m, off, w),
         NEW p, Follows(A, m, off, w, p), Len(p) # Len(A[m]) - (Len(w) - off[m - 1]),
         A[m] \in Seq(Byte),
         NEW v, v = w \o p
  PROVE  Sent(A, m, off, v)
<1> DEFINE L == Len(w)
           base == off[m - 1]
           k == Len(p)
           l == Len(A[m])
           n == Len(A)
<1>1. /\ m \in Nat /\ m >= 1 /\ n \in Nat /\ l \in Nat
      /\ base \in Nat /\ w \in Seq(Byte) /\ L \in Nat /\ base <= L
  BY SentFacts
<1>2. m <= n /\ k <= l - (L - base) /\ p \in Seq(Byte)
  BY DEF Follows
<1>3. k \in Nat
  BY <1>2
<1>7. v \in Seq(Byte) /\ JoinOf(v, w, p) /\ BytesOf(A, m, off, v)
  BY NextBytes
<1>4. v \in Seq(Byte) /\ Len(v) = L + k /\ BytesOf(A, m, off, v)
  BY <1>7 DEF JoinOf
<1>6. k # l - (L - base)
  OBVIOUS
<1>5. base <= Len(v) /\ Len(v) < base + l /\ m # n + 1
  <2>1. Len(v) = L + k
    BY <1>4
  <2> HIDE DEF L, base, k, l, n
  <2> QED
    BY <1>1, <1>2, <1>3, <1>6, <2>1
<1> QED
  BY <1>4, <1>5 DEF Sent

(* With v the server has sent the m-th message too. *)
WholeSent(A, m, off, v, o) ==
  /\ Sent(A, m + 1, o, v)
  /\ o[m] = Len(v) /\ \A x \in 0..(m - 1) : o[x] = off[x]

(* The rest of the message. *)
LEMMA SentWhole ==
  ASSUME NEW A \in Seq(Seq(Byte)), \A x \in DOMAIN A : A[x] # <<>>,
         NEW m, NEW off, NEW w, Sent(A, m, off, w),
         NEW p, Follows(A, m, off, w, p), Len(p) = Len(A[m]) - (Len(w) - off[m - 1]),
         NEW v, v = w \o p
  PROVE  \E o : WholeSent(A, m, off, v, o)
<1> DEFINE L == Len(w)
           base == off[m - 1]
           k == Len(p)
           l == Len(A[m])
           n == Len(A)
           o == [x \in 0..m |-> IF x = m THEN L + k ELSE off[x]]
<1>1. /\ m \in Nat /\ m >= 1 /\ n \in Nat
      /\ base \in Nat /\ w \in Seq(Byte) /\ L \in Nat /\ base <= L
  BY SentFacts
<1>26. m <= n /\ p \in Seq(Byte)
  BY DEF Follows
<1>27. k \in Nat
  BY <1>26
<1>2. m \in 1..n
  <2> HIDE DEF n
  <2> QED
    BY <1>1, <1>26
<1>3. \A x \in 1..n : A[x] \in Seq(Byte) /\ Len(A[x]) \in Nat /\ Len(A[x]) > 0
  BY Elements, Zenon
<1>4. l \in Nat /\ k = l - (L - base)
  BY <1>2, <1>3
<1>5. L + k = base + l
  <2> HIDE DEF L, base, k, l
  <2> QED
    BY <1>1, <1>4
<1>28. v \in Seq(Byte) /\ JoinOf(v, w, p) /\ BytesOf(A, m, off, v)
  BY NextBytes
<1>7. v \in Seq(Byte) /\ Len(v) = L + k
  BY <1>28 DEF JoinOf
<1>8. \A x \in 1..n : \A i \in 1..Len(A[x]) :
           x <= m /\ off[x - 1] + i <= Len(v) => v[off[x - 1] + i] = A[x][i]
  BY <1>28 DEF BytesOf
<1>9. \A x \in 0..(m - 1) : off[x] \in Nat /\ off[x] <= base
  BY SentFacts
<1>10. \A x \in 1..(m - 1) : off[x] = off[x - 1] + Len(A[x])
  BY DEF Sent, Offsets
<1>11. \A a, b \in 0..(m - 1) : a <= b => off[a] <= off[b]
  BY DEF Sent, Offsets
<1>12. off[0] = 0
  BY DEF Sent, Offsets
<1>13. off[m - 1] = base /\ Len(A[m]) = l
  OBVIOUS
<1> HIDE DEF L, base, k, l, n
<1>14. L + k \in Nat /\ 0..(m - 1) \subseteq 0..m /\ m \in 0..m
  BY <1>1, <1>27
<1>15. o[m] = L + k
  BY <1>1, <1>14
<1>16. \A x \in 0..(m - 1) : o[x] = off[x]
  <2> SUFFICES ASSUME NEW x \in 0..(m - 1) PROVE o[x] = off[x]
    OBVIOUS
  <2>1. x \in 0..m /\ x # m
    BY <1>1
  <2> QED
    BY <2>1
<1>17. o \in [0..m -> Nat]
  <2> SUFFICES ASSUME NEW x \in 0..m PROVE (IF x = m THEN L + k ELSE off[x]) \in Nat
    OBVIOUS
  <2>1. x # m => x \in 0..(m - 1)
    BY <1>1
  <2> QED
    BY <1>9, <1>14, <2>1
<1> HIDE DEF o
<1>18. (m + 1) - 1 = m /\ m + 1 \in 1..(n + 1)
  BY <1>1, <1>2
<1>19. ASSUME NEW x \in 1..m PROVE o[x] = o[x - 1] + Len(A[x])
  <2>1. x - 1 \in 0..(m - 1)
    BY <1>1
  <2>2. o[x - 1] = off[x - 1]
    BY <1>16, <2>1
  <2>3. CASE x = m
    <3>1. o[x] = L + k /\ o[x - 1] = base /\ Len(A[x]) = l
      BY <1>13, <1>15, <2>2, <2>3
    <3> QED
      BY <1>5, <3>1
  <2>4. CASE x # m
    <3>1. x \in 1..(m - 1) /\ x \in 0..(m - 1)
      BY <1>1, <2>4
    <3>2. o[x] = off[x] /\ off[x] = off[x - 1] + Len(A[x])
      BY <1>10, <1>16, <3>1
    <3> QED
      BY <2>2, <3>2
  <2> QED
    BY <2>3, <2>4
<1>20. ASSUME NEW a \in 0..m, NEW b \in 0..m, a <= b PROVE o[a] <= o[b]
  <2>1. CASE a = m
    <3>1. b = m
      BY <1>1, <1>20, <2>1
    <3> QED
      BY <1>14, <1>15, <2>1, <3>1
  <2>2. CASE a # m
    <3>1. a \in 0..(m - 1)
      BY <1>1, <2>2
    <3>2. o[a] = off[a] /\ off[a] \in Nat /\ off[a] <= base
      BY <1>9, <1>16, <3>1
    <3>3. CASE b = m
      <4>1. o[b] = L + k
        BY <1>15, <3>3
      <4> QED
        BY <1>1, <1>27, <3>2, <4>1
    <3>4. CASE b # m
      <4>1. b \in 0..(m - 1)
        BY <1>1, <3>4
      <4> QED
        BY <1>11, <1>16, <1>20, <3>1, <4>1
    <3> QED
      BY <3>3, <3>4
  <2> QED
    BY <2>1, <2>2
<1>21. ASSUME NEW x \in 1..n, NEW i \in 1..Len(A[x]), x <= m + 1, o[x - 1] + i <= Len(v)
       PROVE  v[o[x - 1] + i] = A[x][i]
  <2>1. x \in Nat /\ x >= 1
    BY <1>1
  <2>4. i \in Nat /\ i >= 1
    BY <1>3
  <2>2. CASE x <= m
    <3>1. x - 1 \in 0..(m - 1)
      BY <1>1, <2>1, <2>2, SMTT(30)
    <3>2. o[x - 1] = off[x - 1]
      BY <1>16, <3>1
    <3> QED
      BY <1>8, <1>21, <2>2, <3>2
  <2>3. CASE x > m
    <3>1. x - 1 = m
      BY <1>1, <1>21, <2>1, <2>3
    <3>2. o[x - 1] = L + k
      BY <1>15, <3>1
    <3>3. L + k + i <= L + k
      BY <1>7, <1>21, <3>2
    <3> QED
      BY <1>14, <2>4, <3>3
  <2>5. x <= m \/ x > m
    BY <1>1, <2>1
  <2> QED
    BY <2>2, <2>3, <2>5
<1>22. o[0] = 0
  <2>1. 0 \in 0..(m - 1)
    BY <1>1
  <2> QED
    BY <1>12, <1>16, <2>1
<1>23. m + 1 <= n => Len(v) < o[m] + Len(A[m + 1])
  <2> SUFFICES ASSUME m + 1 <= n PROVE Len(v) < o[m] + Len(A[m + 1])
    OBVIOUS
  <2>1. m + 1 \in 1..n
    BY <1>1
  <2>2. Len(A[m + 1]) \in Nat /\ Len(A[m + 1]) > 0
    BY <1>3, <2>1
  <2> QED
    BY <1>7, <1>14, <1>15, <2>2
<1>24. o[m] <= Len(v) /\ Len(v) = o[m]
  BY <1>7, <1>14, <1>15
<1>29. Offsets(A, m + 1, o)
  BY <1>17, <1>18, <1>19, <1>20, <1>22 DEF Offsets, n
<1>30. BytesOf(A, m + 1, o, v)
  BY <1>21 DEF BytesOf, n
<1>25. Sent(A, m + 1, o, v)
  BY <1>7, <1>18, <1>23, <1>24, <1>29, <1>30 DEF Sent, n
<1> QED
  BY <1>16, <1>24, <1>25 DEF WholeSent

(* What is on its way when p has been sent. *)
LEMMA StreamGrows ==
  ASSUME NEW A \in Seq(Seq(Byte)), NEW m, NEW off, NEW w, Sent(A, m, off, w),
         NEW j, Received(A, m, off, w, j), TypeInv, srv # "down",
         NEW k, NEW p, NEW r, SendTook(k, p, r), UNCHANGED <<srv, got>>,
         NEW v, v \in Seq(Byte), JoinOf(v, w, p),
         NEW n \in Nat, m <= n, NEW o, \A x \in 0..(m - 1) : o[x] = off[x]
  PROVE  Received(A, n, o, v, j)'
<1> DEFINE z == off[j - 1]
           g == Len(got)
           s == Len(stream)
           L == Len(w)
<1>1. j \in 1..Len(A) /\ j <= m /\ m \in Nat /\ Len(A) \in Nat
  BY SentFacts DEF Received
<1>2. j - 1 \in 0..(m - 1)
  BY <1>1
<1>3. z \in Nat /\ L \in Nat /\ g \in Nat /\ s \in Nat /\ o[j - 1] = z
  <2>1. got \in Seq(Byte) /\ stream \in Seq(Byte)
    BY DEF TypeInv, PeekTypeOK
  <2>2. z \in Nat /\ L \in Nat
    BY <1>2, SentFacts
  <2> QED
    BY <1>2, <2>1, <2>2
<1>4. /\ g <= Len(A[j]) /\ z + g + s = L
      /\ \A i \in 1..g : got[i] = A[j][i]
      /\ \A i \in 1..s : stream[i] = w[z + g + i]
  BY DEF Received
<1>5. /\ k \in Nat /\ Len(stream') = s + k /\ Len(p) = k
      /\ \A i \in 1..s : stream'[i] = stream[i]
      /\ \A i \in 1..k : stream'[s + i] = p[i]
  BY DEF SendTook
<1>6. /\ Len(v) = L + k
      /\ \A i \in 1..L : v[i] = w[i]
      /\ \A i \in 1..k : v[L + i] = p[i]
  BY <1>5 DEF JoinOf
<1>7. j <= n
  BY <1>1
<1> HIDE DEF z, g, s, L
<1>8. z + g + (s + k) = L + k
  BY <1>3, <1>4, <1>5
<1>9. ASSUME NEW i \in 1..(s + k) PROVE stream'[i] = v[z + g + i]
  <2>1. CASE i <= s
    <3>1. i \in 1..s /\ z + g + i \in 1..L
      BY <1>3, <1>4, <1>5, <2>1, SMTT(30)
    <3> QED
      BY <1>4, <1>5, <1>6, <3>1
  <2>2. CASE i > s
    <3> DEFINE e == i - s
    <3>1. e \in 1..k /\ s + e = i /\ L + e = z + g + i
      BY <1>3, <1>4, <1>5, <2>2
    <3> HIDE DEF e
    <3> QED
      BY <1>5, <1>6, <3>1
  <2>3. i <= s \/ i > s
    BY <1>3, <1>5
  <2> QED
    BY <2>1, <2>2, <2>3
<1>10. got' = got /\ Len(got') = g
  BY DEF g
<1>11. z + g + (s + k) <= L + k
  BY <1>3, <1>5, <1>8
<1> QED
  BY <1>1, <1>3, <1>4, <1>5, <1>6, <1>7, <1>8, <1>9, <1>10, <1>11 DEF Received

(* send takes a part of the first message of the queue or the rest of it. *)
LEMMA SendSync ==
  ASSUME PeekConstants, TypeInv,
         NEW A \in Seq(Seq(Byte)), \A x \in DOMAIN A : A[x] # <<>>,
         NEW m, NEW off, NEW w, Sent(A, m, off, w), ToSend(A, m, off, w),
         NEW j, Received(A, m, off, w, j), Send
  PROVE  \E n, o, v : Sent(A, n, o, v) /\ ToSend(A, n, o, v)' /\ Received(A, n, o, v, j)'
<1> DEFINE L == Len(w)
           base == off[m - 1]
           l == Len(A[m])
           q == Len(queue)
           h == Len(queue[1])
           N == Len(A)
<1>1. srv = "sending" /\ srv' = "sending" /\ UNCHANGED <<srv, got>>
  BY DEF Send, cliVars
<1>2. PICK k, p, r : SendTook(k, p, r)
  BY SendTakes
<1>3. Left(A, m, off, w)
  BY <1>1 DEF ToSend
<1>4. /\ m \in Nat /\ m >= 1 /\ N \in Nat
      /\ base \in Nat /\ w \in Seq(Byte) /\ L \in Nat /\ base <= L
  BY SentFacts
<1>5. /\ queue # <<>> /\ q \in Nat /\ q >= 1 /\ h \in Nat
      /\ k \in Nat /\ k >= 1 /\ k <= h
      /\ p \in Seq(Byte) /\ Len(p) = k /\ \A i \in 1..k : p[i] = queue[1][i]
      /\ r \in Seq(Byte) /\ Len(r) = h - k /\ \A i \in 1..Len(r) : r[i] = queue[1][k + i]
      /\ queue' \in Seq(Seq(Byte))
  BY <1>2 DEF SendTook
<1>6. /\ q = N - (m - 1)
      /\ h = l - (L - base)
      /\ \A i \in 1..h : queue[1][i] = A[m][(L - base) + i]
      /\ \A i \in 2..q : queue[i] = A[m + i - 1]
  BY <1>3, <1>5 DEF Left
<1>7. /\ k = h => Len(queue') = q - 1 /\ \A i \in 1..Len(queue') : queue'[i] = queue[i + 1]
      /\ k # h => Len(queue') = q /\ queue'[1] = r /\ \A i \in 2..Len(queue') : queue'[i] = queue[i]
  BY <1>2 DEF SendTook
<1>8. m <= N
  <2> HIDE DEF N, q
  <2> QED
    BY <1>4, <1>5, <1>6
<1>9. A[m] \in Seq(Byte)
  <2>1. m \in 1..N
    BY <1>4, <1>8
  <2> QED
    BY <2>1
<1>10. l \in Nat
  BY <1>9
<1>11. Follows(A, m, off, w, p)
  <2>1. \A i \in 1..k : p[i] = A[m][(L - base) + i]
    <3> HIDE DEF h, L, base
    <3>1. \A i \in 1..k : i \in 1..h
      BY <1>5
    <3> QED
      BY <1>5, <1>6, <3>1
  <2>2. k <= l - (L - base)
    BY <1>5, <1>6
  <2> QED
    BY <1>5, <1>8, <2>1, <2>2 DEF Follows
<1> DEFINE v == w \o p
<1>12. v = w \o p
  OBVIOUS
<1> HIDE DEF v
<1>13. v \in Seq(Byte) /\ JoinOf(v, w, p)
  BY <1>11, <1>12, NextBytes
<1>14. Len(v) = L + k
  BY <1>5, <1>13 DEF JoinOf
<1>15. CASE k = h
  <2>1. Len(p) = Len(A[m]) - (Len(w) - off[m - 1])
    BY <1>5, <1>6, <1>15
  <2>10. PICK o : WholeSent(A, m, off, v, o)
    BY <1>11, <1>12, <2>1, SentWhole
  <2>2. Sent(A, m + 1, o, v) /\ o[m] = Len(v) /\ \A x \in 0..(m - 1) : o[x] = off[x]
    BY <2>10 DEF WholeSent
  <2>3. m + 1 \in Nat /\ m <= m + 1
    BY <1>4
  <2>4. Received(A, m + 1, o, v, j)'
    BY <1>1, <1>2, <1>13, <2>2, <2>3, StreamGrows
  <2> DEFINE c == Len(queue')
  <2>5. c = q - 1 /\ c \in Nat /\ \A i \in 1..c : queue'[i] = queue[i + 1]
    BY <1>5, <1>7, <1>15
  <2>6. \A i \in 1..c : queue'[i] = A[m + i]
    <3> SUFFICES ASSUME NEW i \in 1..c PROVE queue'[i] = A[m + i]
      OBVIOUS
    <3> HIDE DEF c, q
    <3>1. i + 1 \in 2..q /\ m + (i + 1) - 1 = m + i
      BY <1>4, <1>5, <2>5
    <3>2. queue'[i] = queue[i + 1]
      BY <2>5
    <3>3. queue[i + 1] = A[m + (i + 1) - 1]
      BY <1>6, <3>1
    <3> QED
      BY <3>1, <3>2, <3>3
  <2>7. Left(A, m + 1, o, v)'
    <3>1. Len(queue') = N - ((m + 1) - 1)
      <4> HIDE DEF c, q, N
      <4>1. c = N - ((m + 1) - 1)
        BY <1>4, <1>5, <1>6, <2>5
      <4> QED
        BY <4>1 DEF c
    <3>2. (m + 1) - 1 = m
      BY <1>4
    <3>3. Len(v) - o[(m + 1) - 1] = 0
      BY <1>4, <1>5, <1>14, <2>2, <3>2
    <3>4. ASSUME queue' # <<>>
          PROVE  /\ Len(queue'[1]) = Len(A[m + 1]) - (Len(v) - o[(m + 1) - 1])
                 /\ \A i \in 1..Len(queue'[1]) : queue'[1][i] = A[m + 1][(Len(v) - o[(m + 1) - 1]) + i]
      <4>1. c >= 1
        BY <1>5, <3>4, EmptySeq
      <4>2. 1 \in 1..c
        BY <2>5, <4>1
      <4>3. queue'[1] = A[m + 1]
        BY <2>6, <4>2
      <4>4. queue'[1] \in Seq(Byte)
        BY <1>5, <4>2
      <4>5. Len(queue'[1]) \in Nat /\ \A i \in 1..Len(queue'[1]) : 0 + i = i
        BY <4>4
      <4>6. Len(A[m + 1]) - 0 = Len(A[m + 1])
        BY <4>3, <4>5
      <4> QED
        BY <3>3, <4>3, <4>5, <4>6
    <3>5. ASSUME NEW i \in 2..Len(queue') PROVE queue'[i] = A[(m + 1) + i - 1]
      <4>1. i \in 1..c /\ (m + 1) + i - 1 = m + i
        BY <1>4, <2>5
      <4> QED
        BY <2>6, <4>1
    <3> QED
      BY <3>1, <3>4, <3>5 DEF Left
  <2>8. ToSend(A, m + 1, o, v)'
    BY <1>1, <2>7 DEF ToSend
  <2> QED
    BY <2>2, <2>4, <2>8
<1>16. CASE k # h
  <2>1. Len(p) # Len(A[m]) - (Len(w) - off[m - 1])
    BY <1>5, <1>6, <1>16
  <2>2. Sent(A, m, off, v)
    BY <1>9, <1>11, <1>12, <2>1, SentMore
  <2>4. Received(A, m, off, v, j)'
    <3>1. m <= m /\ \A x \in 0..(m - 1) : off[x] = off[x]
      BY <1>4
    <3> QED
      BY <1>1, <1>2, <1>4, <1>13, <3>1, StreamGrows
  <2>5. Len(queue') = q /\ queue'[1] = r /\ \A i \in 2..Len(queue') : queue'[i] = queue[i]
    BY <1>7, <1>16
  <2>6. Len(r) = l - (Len(v) - base)
    <3> HIDE DEF l, base, L, h
    <3> QED
      BY <1>4, <1>5, <1>6, <1>10, <1>14
  <2>7. ASSUME NEW i \in 1..Len(r) PROVE r[i] = A[m][(Len(v) - base) + i]
    <3> HIDE DEF l, base, L, h
    <3>1. k + i \in 1..h /\ (L - base) + (k + i) = (Len(v) - base) + i
      BY <1>4, <1>5, <1>14
    <3>2. r[i] = queue[1][k + i]
      BY <1>5
    <3>3. queue[1][k + i] = A[m][(L - base) + (k + i)]
      BY <1>6, <3>1
    <3> QED
      BY <3>1, <3>2, <3>3
  <2>8. Left(A, m, off, v)'
    <3>1. Len(queue') = Len(A) - (m - 1) /\ \A i \in 2..Len(queue') : queue'[i] = A[m + i - 1]
      BY <1>6, <2>5
    <3> QED
      BY <2>5, <2>6, <2>7, <3>1 DEF Left
  <2>9. ToSend(A, m, off, v)'
    BY <1>1, <2>8 DEF ToSend
  <2> QED
    BY <2>2, <2>4, <2>9
<1> QED
  BY <1>15, <1>16

(* InSync with its witnesses. *)
InStep(A, m, off, w, j) ==
  /\ A = Answer(files) /\ j = Position
  /\ cl = "body" => msgLen = Len(A[j])
  /\ Sent(A, m, off, w)
  /\ ToSend(A, m, off, w)
  /\ Received(A, m, off, w, j)

(* The server's steps keep the client in step, unless a send is refused. *)
LEMMA ServerSync ==
  ASSUME PeekConstants, TypeInv, InSync, ReceiveRequest \/ Send \/ Close \/ Crash
  PROVE  InSync'
<1>1. UNCHANGED <<files, cl, msgLen, got, listed>>
  BY DEF ReceiveRequest, Send, Close, Crash, cliVars
<1>2. PICK A, m, off, w, j : InStep(A, m, off, w, j)
  BY DEF InSync, InStep
<1>3. /\ A = Answer(files) /\ j = Position
      /\ cl = "body" => msgLen = Len(A[j])
      /\ Sent(A, m, off, w) /\ ToSend(A, m, off, w) /\ Received(A, m, off, w, j)
  BY <1>2 DEF InStep
<1>4. /\ A \in Seq(Seq(Byte)) /\ Len(A) \in Nat /\ Len(A) >= 1
      /\ \A x \in 1..Len(A) : A[x] \in Seq(Byte) /\ A[x] # <<>> /\ Len(A[x]) \in Nat
  BY <1>3, AnswerFacts
<1>5. \A x \in DOMAIN A : A[x] # <<>>
  <2>1. DOMAIN A = 1..Len(A)
    BY <1>4
  <2> QED
    BY <1>4, <2>1
<1>6. SUFFICES \E n, o, v : Sent(A, n, o, v) /\ ToSend(A, n, o, v)' /\ Received(A, n, o, v, j)'
  <2>1. PICK n, o, v : Sent(A, n, o, v) /\ ToSend(A, n, o, v)' /\ Received(A, n, o, v, j)'
    BY <1>6
  <2>2. A = Answer(files') /\ j = Position' /\ (cl' = "body" => msgLen' = Len(A[j]))
    BY <1>1, <1>3 DEF Position
  <2>3. InStep(A, n, o, v, j)'
    BY <2>1, <2>2 DEF InStep
  <2>4. msgLen < BUFFER /\ \A i \in DOMAIN listed : listed[i] = Body(files[i])
    BY DEF InSync
  <2>5. msgLen' < BUFFER /\ \A i \in DOMAIN listed' : listed'[i] = Body(files'[i])
    BY <1>1, <2>4
  <2> QED
    BY <2>3, <2>5 DEF InSync, InStep
<1>7. CASE Send
  BY <1>3, <1>4, <1>5, <1>7, SendSync
<1>8. CASE ReceiveRequest
  <2>1. srv = "request" /\ srv' = "sending" /\ queue' = A /\ stream' = stream
    BY <1>3, <1>8 DEF ReceiveRequest
  <2>2. m = 1 /\ w = <<>> /\ Len(w) = 0 /\ off[0] = 0
    BY <1>3, <2>1 DEF ToSend, Sent, Offsets
  <2>3. Received(A, m, off, w, j)'
    BY <1>1, <1>3, <2>1 DEF Received
  <2>4. Left(A, 1, off, w)'
    <3>1. 1 - 1 = 0 /\ Len(A) - 0 = Len(A) /\ Len(w) - off[1 - 1] = 0
      BY <1>4, <2>2
    <3>2. Len(A[1]) \in Nat
      BY <1>4
    <3>3. Len(A[1]) - 0 = Len(A[1]) /\ \A i \in 1..Len(A[1]) : 0 + i = i
      BY <3>2
    <3>4. \A i \in 2..Len(A) : 1 + i - 1 = i
      BY <1>4
    <3> QED
      BY <2>1, <3>1, <3>3, <3>4 DEF Left
  <2>5. ToSend(A, m, off, w)'
    BY <2>1, <2>2, <2>4 DEF ToSend
  <2> QED
    BY <1>3, <2>3, <2>5
<1>9. CASE Close
  <2>1. srv = "sending" /\ srv' = "closed" /\ queue = <<>> /\ queue' = queue /\ stream' = stream
    BY <1>9 DEF Close
  <2>2. Received(A, m, off, w, j)'
    BY <1>1, <1>3, <2>1 DEF Received
  <2>3. ToSend(A, m, off, w)'
    BY <1>3, <2>1 DEF ToSend, Left
  <2> QED
    BY <1>3, <2>2, <2>3
<1>10. CASE Crash
  <2>1. srv # "down" /\ srv' = "down"
    BY <1>10 DEF Crash
  <2>2. PICK n \in 0..Len(stream) : stream' = SubSeq(stream, 1, n)
    BY <1>10 DEF Crash
  <2>3. stream \in Seq(Byte) /\ got \in Seq(Byte)
    BY DEF TypeInv, PeekTypeOK
  <2>4. Len(stream') = n /\ n <= Len(stream) /\ \A i \in 1..n : stream'[i] = stream[i]
    BY <2>2, <2>3, Parts DEF PartsOf
  <2>5. ToSend(A, m, off, w)'
    BY <2>1 DEF ToSend
  <2>6. j - 1 \in 0..(m - 1)
    BY <1>3, <1>4, SentFacts, SMTT(30) DEF Received
  <2>7. off[j - 1] \in Nat /\ Len(w) \in Nat /\ Len(got) \in Nat /\ Len(stream) \in Nat
    BY <1>3, <1>4, <2>3, <2>6, SentFacts
  <2>8. off[j - 1] + Len(got) + n <= Len(w)
    <3>1. off[j - 1] + Len(got) + Len(stream) <= Len(w)
      BY <1>3 DEF Received
    <3> DEFINE z == off[j - 1]
               g == Len(got)
    <3>2. z + g + Len(stream) <= Len(w) /\ z \in Nat /\ g \in Nat
      BY <2>7, <3>1
    <3> HIDE DEF z, g
    <3>3. z + g + n <= Len(w)
      BY <2>4, <2>7, <3>2
    <3> QED
      BY <3>3 DEF z, g
  <2>9. \A i \in 1..n : i \in 1..Len(stream)
    BY <2>7
  <2>10. \A i \in 1..n : stream'[i] = w[off[j - 1] + Len(got) + i]
    BY <1>3, <2>4, <2>9 DEF Received
  <2>11. Received(A, m, off, w, j)'
    BY <1>1, <1>3, <2>1, <2>4, <2>8, <2>10 DEF Received
  <2> QED
    BY <1>3, <2>5, <2>11
<1> QED
  BY <1>7, <1>8, <1>9, <1>10

(* The invariant after a step of the server. *)
LEMMA ServerInv ==
  ASSUME PeekConstants, PeekInv, Server \/ Crash
  PROVE  PeekInv'
<1>1. TypeInv /\ RightUnlessRefused /\ (~refused /\ cl \in {"request", "header", "body"} => InSync \/ OutOfSync)
  BY DEF PeekInv
<1>2. TypeInv'
  BY <1>1, ServerType
<1>3. UNCHANGED <<files, cl, listed, printed, mixed>> /\ (srv' = "down" \/ srv # "down")
  BY DEF Server, Crash, ReceiveRequest, Send, Refuse, Close, cliVars
<1>4. CASE Refuse
  <2>1. refused'
    BY <1>4 DEF Refuse
  <2> QED
    BY <1>2, <2>1 DEF PeekInv, RightUnlessRefused
<1>5. CASE ReceiveRequest \/ Send \/ Close \/ Crash
  <2>1. refused' = refused /\ srv \in {"request", "sending"}
    BY <1>5 DEF ReceiveRequest, Send, Close, Crash
  <2>2. RightUnlessRefused'
    BY <1>1, <1>3, <2>1 DEF RightUnlessRefused
  <2>3. ~ OutOfSync
    BY <2>1 DEF OutOfSync
  <2>4. InSync => InSync'
    BY <1>1, <1>5, ServerSync
  <2> QED
    BY <1>1, <1>2, <1>3, <2>1, <2>2, <2>3, <2>4 DEF PeekInv
<1> QED
  BY <1>4, <1>5 DEF Server

(* What the client reads, if it is in step: the header of a file, its body, *)
(* or the end.                                                              *)
Reading(A, j) ==
  LET n == Len(listed)
      b == Body(files[n + 1])
  IN  /\ cl = "body" =>
           /\ n < Len(files) /\ A[j] = b
           /\ j = 2 * n + 2 /\ j + 1 <= Len(A)
      /\ cl # "body" /\ n < Len(files) =>
           /\ A[j] = Header(Len(b)) /\ A[j + 1] = b
           /\ j = 2 * n + 1 /\ j + 1 <= Len(A)
      /\ cl # "body" /\ ~ (n < Len(files)) => n = Len(files) /\ A[j] = Header(END_OF_REQUEST)

(* It follows from the position. *)
LEMMA ReadingAt ==
  ASSUME PeekConstants, TypeInv, NEW A, A = Answer(files), NEW j, j = Position, j \in 1..Len(A)
  PROVE  Reading(A, j)
<1> DEFINE n == Len(listed)
           N == Len(files)
<1>1. files \in Seq(Files) /\ N \in Nat /\ Len(A) = 2 * N + 1
  BY AnswerFacts
<1>2. n \in Nat
  BY DEF TypeInv
<1>3. /\ \A k \in 1..N : A[2 * k - 1] = Header(Len(Body(files[k]))) /\ A[2 * k] = Body(files[k])
      /\ A[2 * N + 1] = Header(END_OF_REQUEST)
  BY <1>1, AnswerMessages
<1> HIDE DEF n, N
<1>4. j = 2 * n + (IF cl = "body" THEN 2 ELSE 1)
  BY DEF Position, n
<1>5. CASE cl = "body"
  <2>1. n < N /\ j = 2 * n + 2 /\ j + 1 <= Len(A) /\ n + 1 \in 1..N /\ 2 * (n + 1) = j
    BY <1>1, <1>2, <1>4, <1>5
  <2>2. A[j] = Body(files[n + 1])
    BY <1>3, <2>1
  <2> QED
    BY <1>5, <2>1, <2>2 DEF Reading, n, N
<1>6. CASE cl # "body" /\ n < N
  <2>1. j = 2 * n + 1 /\ j + 1 <= Len(A) /\ n + 1 \in 1..N /\ 2 * (n + 1) = j + 1 /\ 2 * (n + 1) - 1 = j
    BY <1>1, <1>2, <1>4, <1>6
  <2>2. A[j] = Header(Len(Body(files[n + 1]))) /\ A[j + 1] = Body(files[n + 1])
    BY <1>3, <2>1
  <2> QED
    BY <1>6, <2>1, <2>2 DEF Reading, n, N
<1>7. CASE cl # "body" /\ ~ (n < N)
  <2>1. n = N /\ j = 2 * N + 1
    BY <1>1, <1>2, <1>4, <1>7
  <2> QED
    BY <1>3, <1>7, <2>1 DEF Reading, n, N
<1> QED
  BY <1>5, <1>6, <1>7

(* recv keeps what has come and what is to come in the same order. *)
LEMMA RecvSync ==
  ASSUME TypeInv, NEW A \in Seq(Seq(Byte)), NEW m, NEW off, NEW w, NEW j,
         Sent(A, m, off, w), Received(A, m, off, w, j), Wanted = Len(A[j]), Recv
  PROVE  Received(A, m, off, w, j)'
<1> DEFINE z == off[j - 1]
           g == Len(got)
           s == Len(stream)
           L == Len(w)
<1>1. j \in 1..Len(A) /\ j <= m /\ m \in Nat /\ Len(A) \in Nat
  BY SentFacts DEF Received
<1>2. j - 1 \in 0..(m - 1)
  BY <1>1
<1>3. z \in Nat /\ L \in Nat /\ g \in Nat /\ s \in Nat /\ stream \in Seq(Byte) /\ got \in Seq(Byte)
  <2>1. got \in Seq(Byte) /\ stream \in Seq(Byte)
    BY DEF TypeInv, PeekTypeOK
  <2>2. z \in Nat /\ L \in Nat
    BY <1>2, SentFacts
  <2> QED
    BY <2>1, <2>2
<1>4. /\ z + g + s <= L /\ (srv # "down" => z + g + s = L)
      /\ \A i \in 1..g : got[i] = A[j][i]
      /\ \A i \in 1..s : stream[i] = w[z + g + i]
  BY DEF Received
<1>5. cl \in {"header", "body"} /\ srv' = srv
  BY DEF Recv, srvVars
<1>6. PICK k \in 1..Min({Wanted - Len(got), Len(stream)}) :
             /\ got' = got \o SubSeq(stream, 1, k)
             /\ stream' = SubSeq(stream, k + 1, Len(stream))
  BY DEF Recv, Asked
<1>7. Wanted \in Nat /\ Len(got) <= Wanted
  BY <1>5, WantedType
<1>8. k \in Nat /\ k >= 1 /\ k <= Wanted - Len(got) /\ k \in 0..Len(stream)
  BY <1>5, <1>7, RecvTakes
<1> DEFINE p == SubSeq(stream, 1, k)
           r == SubSeq(stream, k + 1, Len(stream))
<1>9. p \in Seq(Byte) /\ PartsOf(stream, k, p, r)
  BY <1>3, <1>8, Parts
<1>10. got' = got \o p /\ stream' = r
  BY <1>6
<1> HIDE DEF p, r
<1>11. /\ Len(p) = k /\ \A i \in 1..k : p[i] = stream[i]
       /\ Len(r) = s - k /\ \A i \in 1..(s - k) : r[i] = stream[k + i]
  BY <1>9 DEF PartsOf
<1>12. JoinOf(got', got, p)
  BY <1>3, <1>9, <1>10, Joined
<1>13. /\ Len(got') = g + k
       /\ \A i \in 1..g : got'[i] = got[i]
       /\ \A i \in 1..k : got'[g + i] = stream[i]
  BY <1>11, <1>12 DEF JoinOf
(* The part of the stream that comes belongs to the j-th message. *)
<1>14. ASSUME NEW i \in 1..k PROVE stream[i] = A[j][g + i]
  <2>1. A[j] \in Seq(Byte)
    BY <1>1
  <2> DEFINE l == Len(A[j])
  <2>2. l = Wanted /\ l \in Nat
    BY <2>1
  <2>3. \A x \in 1..Len(A) : \A y \in 1..Len(A[x]) :
          x <= m /\ off[x - 1] + y <= Len(w) => w[off[x - 1] + y] = A[x][y]
    BY DEF Sent, BytesOf
  <2>4. \A y \in 1..l : z + y <= L => w[z + y] = A[j][y]
    BY <1>1, <2>3
  <2> HIDE DEF l, z, g, s, L
  <2>5. i \in 1..s /\ g + i \in 1..l /\ z + (g + i) <= L /\ z + g + i = z + (g + i)
    <3>1. Len(stream) = s /\ Len(got) = g
      BY DEF s, g
    <3> QED
      BY <1>3, <1>4, <1>8, <2>2, <3>1
  <2>6. stream[i] = w[z + g + i]
    BY <1>4, <2>5
  <2> QED
    BY <2>4, <2>5, <2>6
<1>15. Wanted = Len(A[j]) /\ Len(got) = g /\ Len(stream) = s /\ off[j - 1] = z /\ Len(w) = L
  OBVIOUS
<1> HIDE DEF z, g, s, L
<1>16. g + k <= Len(A[j]) /\ z + (g + k) + (s - k) = z + g + s
  BY <1>3, <1>7, <1>8, <1>15
<1>17. ASSUME NEW i \in 1..(g + k) PROVE got'[i] = A[j][i]
  <2>1. CASE i <= g
    <3>1. i \in 1..g
      BY <1>3, <2>1
    <3> QED
      BY <1>4, <1>13, <3>1
  <2>2. CASE i > g
    <3> DEFINE e == i - g
    <3>1. e \in 1..k /\ g + e = i
      BY <1>3, <1>8, <2>2
    <3> HIDE DEF e
    <3> QED
      BY <1>13, <1>14, <3>1
  <2>3. i <= g \/ i > g
    BY <1>3, <1>8
  <2> QED
    BY <2>1, <2>2, <2>3
<1>18. ASSUME NEW i \in 1..(s - k) PROVE stream'[i] = w[z + (g + k) + i]
  <2>1. k + i \in 1..s /\ z + g + (k + i) = z + (g + k) + i
    BY <1>3, <1>8, <1>15
  <2> QED
    BY <1>4, <1>10, <1>11, <2>1
<1>19. Len(stream') = s - k
  BY <1>10, <1>11
<1> QED
  BY <1>1, <1>4, <1>5, <1>13, <1>15, <1>16, <1>17, <1>18, <1>19 DEF Received

(* The whole message has come. *)
LEMMA GotIsMessage ==
  ASSUME TypeInv, NEW A \in Seq(Seq(Byte)), NEW m, NEW off, NEW w, NEW j,
         Received(A, m, off, w, j), Len(got) = Len(A[j])
  PROVE  got = A[j]
<1>1. got \in Seq(Byte) /\ A[j] \in Seq(Byte)
  BY DEF TypeInv, Received
<1>2. \A i \in 1..Len(got) : got[i] = A[j][i]
  BY DEF Received
<1> QED
  BY <1>1, <1>2, SeqEqual

(* The client goes on to the next. *)
LEMMA NextMessage ==
  ASSUME TypeInv, NEW A \in Seq(Seq(Byte)), NEW m, NEW off, NEW w, NEW j,
         Sent(A, m, off, w), Received(A, m, off, w, j), Len(got) = Len(A[j]), j + 1 <= Len(A),
         got' = <<>>, UNCHANGED <<srv, stream>>
  PROVE  Received(A, m, off, w, j + 1)'
<1> DEFINE z == off[j - 1]
           l == Len(A[j])
           s == Len(stream)
           L == Len(w)
           N == Len(A)
<1>1. j \in 1..N /\ j <= m /\ m \in Nat /\ N \in Nat /\ m <= N + 1
  BY SentFacts DEF Received
<1>2. j - 1 \in 0..(m - 1)
  BY <1>1
<1>3. A[j] \in Seq(Byte) /\ A[j + 1] \in Seq(Byte)
  <2>1. j + 1 \in 1..N
    BY <1>1
  <2> QED
    BY <1>1, <2>1
<1>4. z \in Nat /\ L \in Nat /\ l \in Nat /\ s \in Nat /\ Len(A[j + 1]) \in Nat
  <2>1. stream \in Seq(Byte)
    BY DEF TypeInv, PeekTypeOK
  <2>2. z \in Nat /\ L \in Nat
    BY <1>2, SentFacts
  <2> QED
    BY <1>3, <2>1, <2>2
<1>5. /\ z + l + s <= L /\ (srv # "down" => z + l + s = L)
      /\ \A i \in 1..s : stream[i] = w[z + l + i]
  BY DEF Received
<1>6. (m <= N => L < off[m - 1] + Len(A[m])) /\ \A x \in 1..(m - 1) : off[x] = off[x - 1] + Len(A[x])
  BY DEF Sent, Offsets
<1>8. Len(<<>>) = 0 /\ j + 1 <= N /\ off[j - 1] = z /\ Len(A[j]) = l
  OBVIOUS
<1> HIDE DEF z, l, s, L, N
<1>7. j # m
  <2> SUFFICES ASSUME j = m PROVE FALSE
    OBVIOUS
  <2>1. L < z + l
    BY <1>1, <1>6, <1>8
  <2> QED
    BY <1>4, <1>5, <2>1
<1>9. j \in 1..(m - 1) /\ j + 1 <= m /\ j + 1 \in 1..N /\ (j + 1) - 1 = j
  BY <1>1, <1>7, <1>8
<1>10. off[j] = z + l
  BY <1>6, <1>8, <1>9
<1>11. off[j] + 0 + s <= L /\ (srv # "down" => off[j] + 0 + s = L)
  BY <1>4, <1>5, <1>10
<1>12. \A i \in 1..s : stream[i] = w[off[j] + 0 + i]
  BY <1>4, <1>5, <1>10
<1>13. 0 <= Len(A[j + 1]) /\ 1..0 = {}
  BY <1>4
<1> QED
  BY <1>8, <1>9, <1>11, <1>12, <1>13 DEF Received, s, L, N

(* A message that stays short was not sent: the server has failed. *)
LEMMA ShortIsDown ==
  ASSUME TypeInv, NEW A \in Seq(Seq(Byte)), NEW m, NEW off, NEW w, NEW j,
         Sent(A, m, off, w), ToSend(A, m, off, w), Received(A, m, off, w, j),
         Len(got) < Len(A[j]), EndOfStream
  PROVE  srv = "down"
<1> SUFFICES ASSUME srv # "down" PROVE FALSE
  OBVIOUS
<1> DEFINE z == off[j - 1]
           l == Len(A[j])
           g == Len(got)
           L == Len(w)
           N == Len(A)
<1>1. srv = "closed" /\ stream = <<>> /\ Len(stream) = 0
  BY DEF EndOfStream
<1>2. j \in 1..N /\ j <= m /\ m \in Nat /\ N \in Nat /\ m >= 1
  BY SentFacts DEF Received
<1>3. queue = <<>> /\ Len(queue) = 0 /\ Len(queue) = N - (m - 1)
  BY <1>1 DEF ToSend, Left
<1>4. m = N + 1 /\ j - 1 \in 0..(m - 1) /\ j \in 0..(m - 1) /\ j \in 1..(m - 1)
  <2> HIDE DEF N
  <2>1. 0 = N - (m - 1)
    BY <1>3
  <2> QED
    BY <1>2, <2>1
<1>5. z \in Nat /\ L \in Nat /\ g \in Nat /\ l \in Nat
  <2>1. got \in Seq(Byte)
    BY DEF TypeInv
  <2>2. A[j] \in Seq(Byte)
    BY <1>2
  <2> QED
    BY <1>4, <2>1, <2>2, SentFacts
<1>6. L = off[m - 1] /\ \A x \in 1..(m - 1) : off[x] = off[x - 1] + Len(A[x])
  BY <1>4 DEF Sent, Offsets
<1>7. off[j] \in Nat /\ off[j] <= off[m - 1]
  BY <1>4, SentFacts
<1>8. z + g + 0 = L /\ g < l
  BY <1>1 DEF Received
<1>9. off[j] = z + l
  BY <1>4, <1>6
<1> HIDE DEF z, l, g, L, N
<1> QED
  BY <1>5, <1>6, <1>7, <1>8, <1>9

(* A client that has listed every file shows those whose names are one word. *)
LEMMA PrintedRight ==
  ASSUME PeekConstants, TypeInv, Len(listed) = Len(files),
         \A i \in DOMAIN listed : listed[i] = Body(files[i]),
         PrintFiles, UNCHANGED <<files, listed>>
  PROVE  RightUnlessRefused'
<1>1. files \in Seq(Files) /\ listed \in Seq(Seq(Byte))
  BY AnswerFacts DEF TypeInv
<1>2. DOMAIN listed = DOMAIN files
  BY <1>1
<1>3. \A i \in DOMAIN files : files[i] \in Files
  BY <1>1
<1>4. \A i \in DOMAIN listed : Cardinality(WordStarts(listed[i])) = 2 <=> OneWord(files[i].name)
  BY <1>2, <1>3, ShownBody
<1>5. Shown = {i \in DOMAIN files : OneWord(files[i].name)}
  BY <1>2, <1>4 DEF Shown
<1>6. listed = [i \in DOMAIN files |-> Body(files[i])]
  <2>1. listed = [i \in DOMAIN listed |-> listed[i]]
    BY <1>1
  <2> QED
    BY <1>2, <2>1
<1>7. \/ /\ cl' = IF \E i \in Shown : Overruns(listed[i]) THEN "undefined" ELSE "done"
         /\ printed' = Shown
      \/ mixed' = TRUE
  BY DEF PrintFiles
<1>8. ASSUME NEW i \in Shown, Overruns(listed[i])
      PROVE  \E f \in Range(files) : OneWord(f.name) /\ Overruns(Body(f))
  <2>1. i \in DOMAIN files /\ OneWord(files[i].name) /\ listed[i] = Body(files[i])
    BY <1>2, <1>5
  <2>2. files[i] \in Range(files)
    BY <2>1 DEF Range
  <2>3. Overruns(Body(files[i]))
    BY <1>8, <2>1
  <2> QED
    BY <2>1, <2>2, <2>3
<1>9. files' = files /\ listed' = listed
  OBVIOUS
<1>10. cl' = "done" => listed' = [i \in DOMAIN files' |-> Body(files'[i])]
                       /\ (mixed' \/ printed' = {i \in DOMAIN files' : OneWord(files'[i].name)})
  BY <1>5, <1>6, <1>7, <1>9
<1>11. cl' = "undefined" => mixed' \/ \E f \in Range(files') : OneWord(f.name) /\ Overruns(Body(f))
  BY <1>7, <1>8, <1>9
<1> QED
  BY <1>10, <1>11 DEF RightUnlessRefused

(* recv has returned nothing: the length is what it was. *)
LEMMA LengthOfNothing ==
  ASSUME TypeInv, got = <<>>
  PROVE  Length = msgLen
<1>1. Len(got) = 0 /\ msgLen \in 0..END_OF_REQUEST
  BY DEF TypeInv, PeekTypeOK
<1>2. Length = 256 * Header(msgLen)[1] + Header(msgLen)[2]
  BY <1>1 DEF Length
<1> QED
  BY <1>1, <1>2, HeaderBytes

(* The whole header has come. *)
LEMMA LengthOfHeader ==
  ASSUME NEW n \in 0..END_OF_REQUEST, got = Header(n)
  PROVE  Length = n
<1>1. Len(got) = 2
  BY HeaderBytes
<1>2. Length = 256 * got[1] + got[2]
  BY <1>1 DEF Length
<1> QED
  BY <1>2, HeaderBytes

(* Below it the first byte of a header is not that of END_OF_REQUEST. *)
Limit == 65280

(* One byte of it, of a length that is no END_OF_REQUEST. *)
LEMMA LengthOfHalf ==
  ASSUME TypeInv, NEW n \in Nat, n < Limit, Len(got) = 1, got[1] = Header(n)[1]
  PROVE  Length # END_OF_REQUEST
<1>1. n \in 0..END_OF_REQUEST /\ msgLen \in 0..END_OF_REQUEST
  <2>1. msgLen \in 0..END_OF_REQUEST
    BY DEF TypeInv, PeekTypeOK
  <2>2. END_OF_REQUEST \in Nat /\ n <= END_OF_REQUEST
    BY DEF END_OF_REQUEST, Limit
  <2> QED
    BY <2>1, <2>2
<1> DEFINE a == Header(n)[1]
           b == Header(msgLen)[2]
<1>2. Length = (256 * a) + b
  BY DEF Length
<1>3. a = n \div 256 /\ a \in Nat /\ b \in Nat /\ b <= 255
  BY <1>1, HeaderBytes, Bytes
<1> HIDE DEF a, b
<1>4. a <= 254
  BY <1>3 DEF Limit
<1>5. (256 * a) + b < 65535
  BY <1>3, <1>4
<1>6. Length < 65535
  BY <1>2, <1>5
<1> QED
  BY <1>2, <1>3, <1>6 DEF END_OF_REQUEST

(* InSync, with its witnesses as constants. *)
LEMMA InStepFacts ==
  ASSUME PeekConstants, TypeInv, NEW A, NEW m, NEW off, NEW w, NEW j, InStep(A, m, off, w, j),
         cl \in {"request", "header", "body"}
  PROVE  /\ A = Answer(files) /\ j = Position
         /\ Sent(A, m, off, w) /\ ToSend(A, m, off, w) /\ Received(A, m, off, w, j)
         /\ A \in Seq(Seq(Byte)) /\ j \in 1..Len(A) /\ Len(A[j]) \in Nat
         /\ Reading(A, j)
         /\ cl # "request" => Wanted = Len(A[j])
         /\ cl # "body" => \E x \in 0..END_OF_REQUEST : A[j] = Header(x)
<1>1. /\ A = Answer(files) /\ j = Position /\ (cl = "body" => msgLen = Len(A[j]))
      /\ Sent(A, m, off, w) /\ ToSend(A, m, off, w) /\ Received(A, m, off, w, j)
  BY DEF InStep
<1>2. A \in Seq(Seq(Byte)) /\ j \in 1..Len(A) /\ Len(A[j]) \in Nat
  BY <1>1, AnswerFacts DEF Received
<1>3. Reading(A, j)
  BY <1>1, <1>2, ReadingAt
<1>4. cl # "body" => \E x \in 0..END_OF_REQUEST : A[j] = Header(x)
  <2> SUFFICES ASSUME cl # "body" PROVE \E x \in 0..END_OF_REQUEST : A[j] = Header(x)
    OBVIOUS
  <2> DEFINE n == Len(listed)
             b == Body(files[n + 1])
  <2>1. CASE n < Len(files)
    <3>1. A[j] = Header(Len(b))
      BY <1>3, <2>1 DEF Reading
    <3>2. files \in Seq(Files) /\ Len(files) \in Nat /\ n \in Nat
      BY AnswerFacts DEF TypeInv
    <3>3. n + 1 \in 1..Len(files)
      BY <2>1, <3>2
    <3>4. files[n + 1] \in Files
      BY <3>2, <3>3
    <3>5. Len(b) \in 1..(BUFFER - 1)
      BY <3>4, BodyBytes
    <3> HIDE DEF b
    <3>6. Len(b) \in 0..END_OF_REQUEST
      BY <3>5, Sizes
    <3> QED
      BY <3>1, <3>6
  <2>2. CASE ~ (n < Len(files))
    <3>1. A[j] = Header(END_OF_REQUEST)
      BY <1>3, <2>2 DEF Reading
    <3>2. END_OF_REQUEST \in 0..END_OF_REQUEST
      BY DEF END_OF_REQUEST
    <3> QED
      BY <3>1, <3>2
  <2> QED
    BY <2>1, <2>2
<1>5. cl # "request" => Wanted = Len(A[j])
  <2>1. CASE cl = "body"
    BY <1>1, <2>1 DEF Wanted
  <2>2. CASE cl = "header"
    BY <1>4, <2>2, HeaderBytes DEF Wanted
  <2> QED
    BY <2>1, <2>2
<1> QED
  BY <1>1, <1>2, <1>3, <1>4, <1>5

(* The length of a body is not END_OF_REQUEST. *)
LEMMA BodyLength ==
  ASSUME PeekConstants
  PROVE  /\ END_OF_REQUEST \in Nat /\ BUFFER \in Nat /\ BUFFER < END_OF_REQUEST
         /\ \A x \in 1..(BUFFER - 1) : /\ x \in Nat /\ x < BUFFER /\ x < Limit
                                       /\ x # END_OF_REQUEST /\ x \in 0..END_OF_REQUEST
<1>1. BUFFER \in Nat /\ BUFFER <= Limit
  BY Sizes DEF Limit
<1>2. Limit \in Nat /\ END_OF_REQUEST \in Nat /\ Limit < END_OF_REQUEST
  BY DEF END_OF_REQUEST, Limit
<1>3. ASSUME NEW x \in 1..(BUFFER - 1)
      PROVE  /\ x \in Nat /\ x < BUFFER /\ x < Limit
             /\ x # END_OF_REQUEST /\ x \in 0..END_OF_REQUEST
  BY <1>1, <1>2
<1> QED
  BY <1>1, <1>2, <1>3

(* The client's steps keep it in step, or it stops, or it goes on for ever  *)
(* after the server has failed.                                             *)
LEMMA RequestSync ==
  ASSUME InSync, SendRequest, cl' = "header"
  PROVE  InSync'
<1>1. cl = "request" /\ UNCHANGED <<srvVars, stream, msgLen, got, listed>>
  BY DEF SendRequest
<1>2. UNCHANGED <<files, srv, queue, stream, msgLen, got, listed>>
  BY <1>1 DEF srvVars
<1>3. PICK A, m, off, w, j : InStep(A, m, off, w, j)
  BY DEF InSync, InStep
<1>4. Position' = Position
  BY <1>1, <1>2 DEF Position
<1>5. ToSend(A, m, off, w)' /\ Received(A, m, off, w, j)'
  BY <1>2, <1>3 DEF InStep, ToSend, Left, Received
<1>6. InStep(A, m, off, w, j)'
  BY <1>2, <1>3, <1>4, <1>5 DEF InStep
<1>7. msgLen' < BUFFER /\ \A i \in DOMAIN listed' : listed'[i] = Body(files'[i])
  BY <1>1, <1>2 DEF InSync
<1> QED
  BY <1>6, <1>7 DEF InSync, InStep

(* recv does not leave the message. *)
LEMMA RecvInSync ==
  ASSUME PeekConstants, TypeInv, InSync, Recv
  PROVE  InSync' /\ cl' = cl
<1>1. cl \in {"header", "body"} /\ UNCHANGED <<files, srv, queue, msgLen, listed>>
      /\ cl' = (IF cl = "body" /\ Len(got') > BUFFER THEN "undefined" ELSE cl)
  BY DEF Recv, srvVars
<1>2. PICK A, m, off, w, j : InStep(A, m, off, w, j)
  BY DEF InSync, InStep
<1>3. /\ Sent(A, m, off, w) /\ ToSend(A, m, off, w) /\ Received(A, m, off, w, j)
      /\ A \in Seq(Seq(Byte)) /\ Wanted = Len(A[j])
  BY <1>1, <1>2, InStepFacts
<1>4. Received(A, m, off, w, j)'
  BY <1>3, RecvSync
<1>5. ToSend(A, m, off, w)'
  BY <1>1, <1>3 DEF ToSend, Left
<1>9. cl' = cl
  <2>1. CASE cl = "body"
    <3>1. msgLen = Len(A[j]) /\ msgLen < BUFFER
      BY <1>2, <2>1 DEF InStep, InSync
    <3>2. Len(got') <= Len(A[j])
      BY <1>4 DEF Received
    <3>3. got' \in Seq(Byte)
      BY <1>1, ClientType DEF Client, TypeInv
    <3> DEFINE g == Len(got')
    <3>4. g \in Nat /\ BUFFER \in Nat /\ Len(A[j]) \in Nat
      <4>1. g \in Nat
        BY <3>3
      <4> QED
        BY <1>2, <1>1, <4>1, InStepFacts, BodyLength
    <3>5. g <= Len(A[j])
      BY <3>2
    <3> HIDE DEF g
    <3>6. ~ (g > BUFFER)
      BY <3>1, <3>4, <3>5
    <3> QED
      BY <1>1, <3>6 DEF g
  <2> QED
    BY <1>1, <2>1
<1>6. Position' = Position
  BY <1>1, <1>9 DEF Position
<1>7. InStep(A, m, off, w, j)'
  BY <1>1, <1>2, <1>4, <1>5, <1>6, <1>9 DEF InStep
<1>8. msgLen' < BUFFER /\ \A i \in DOMAIN listed' : listed'[i] = Body(files'[i])
  BY <1>1 DEF InSync
<1> QED
  BY <1>7, <1>8, <1>9 DEF InSync, InStep

(* After a header the client reads the body of the file, or ends with the   *)
(* whole list; if the header stayed short the server has failed.            *)
LEMMA ReadHeaderRight ==
  ASSUME PeekConstants, TypeInv, InSync, ReadHeader
  PROVE  RightUnlessRefused' /\ (cl' = "body" => InSync' \/ OutOfSync')
<1>1. /\ cl = "header" /\ UNCHANGED <<files, srv, queue, stream, listed>>
      /\ msgLen' = Length /\ got' = <<>> /\ Returned
      /\ Length = END_OF_REQUEST => PrintFiles
      /\ Length # END_OF_REQUEST => cl' = "body"
  BY DEF ReadHeader, srvVars
<1>2. PICK A, m, off, w, j : InStep(A, m, off, w, j)
  BY DEF InSync, InStep
<1>3. /\ Sent(A, m, off, w) /\ ToSend(A, m, off, w) /\ Received(A, m, off, w, j)
      /\ A \in Seq(Seq(Byte)) /\ j \in 1..Len(A) /\ Reading(A, j)
      /\ A = Answer(files) /\ j = Position
  BY <1>1, <1>2, InStepFacts
<1>4. PICK x \in 0..END_OF_REQUEST : A[j] = Header(x)
  BY <1>1, <1>2, InStepFacts
<1>5. Len(A[j]) = 2 /\ Wanted = 2
  BY <1>1, <1>4, HeaderBytes DEF Wanted
<1>6. msgLen < BUFFER /\ \A i \in DOMAIN listed : listed[i] = Body(files[i])
  BY <1>1 DEF InSync
<1>7. /\ files \in Seq(Files) /\ Len(files) \in Nat /\ Len(listed) \in Nat
      /\ got \in Seq(Byte) /\ Len(got) \in Nat /\ Len(got) <= 2
  <2>1. got \in Seq(Byte) /\ listed \in Seq(Seq(Byte)) /\ Len(got) <= 2
    BY <1>1 DEF TypeInv, PeekTypeOK
  <2> QED
    BY <2>1, AnswerFacts
<1> DEFINE n == Len(listed)
           b == Body(files[n + 1])
<1>8. ASSUME n < Len(files)
      PROVE  /\ Len(b) \in Nat /\ Len(b) < BUFFER /\ Len(b) < Limit /\ Len(b) # END_OF_REQUEST
             /\ Len(b) \in 0..END_OF_REQUEST
             /\ A[j] = Header(Len(b)) /\ A[j + 1] = b /\ j = 2 * n + 1 /\ j + 1 <= Len(A)
  <2>1. A[j] = Header(Len(b)) /\ A[j + 1] = b /\ j = 2 * n + 1 /\ j + 1 <= Len(A)
    BY <1>1, <1>3, <1>8 DEF Reading
  <2>2. n + 1 \in 1..Len(files)
    BY <1>7, <1>8
  <2>3. files[n + 1] \in Files
    BY <1>7, <2>2
  <2>4. Len(b) \in 1..(BUFFER - 1)
    BY <2>3, BodyBytes
  <2> HIDE DEF b
  <2>5. /\ Len(b) \in Nat /\ Len(b) < BUFFER /\ Len(b) < Limit /\ Len(b) # END_OF_REQUEST
        /\ Len(b) \in 0..END_OF_REQUEST
    <3>1. \A y \in 1..(BUFFER - 1) : /\ y \in Nat /\ y < BUFFER /\ y < Limit
                                     /\ y # END_OF_REQUEST /\ y \in 0..END_OF_REQUEST
      BY BodyLength
    <3> DEFINE l == Len(b)
    <3>2. l \in 1..(BUFFER - 1)
      BY <2>4
    <3> HIDE DEF l
    <3>3. /\ l \in Nat /\ l < BUFFER /\ l < Limit
          /\ l # END_OF_REQUEST /\ l \in 0..END_OF_REQUEST
      BY <3>1, <3>2, Zenon
    <3> QED
      BY <3>3 DEF l
  <2> QED
    BY <2>1, <2>5
<1>9. ~ (n < Len(files)) => n = Len(files) /\ A[j] = Header(END_OF_REQUEST)
  BY <1>1, <1>3 DEF Reading
<1>10. END_OF_REQUEST \in 0..END_OF_REQUEST
  BY DEF END_OF_REQUEST
<1>13. BUFFER \in Nat /\ END_OF_REQUEST \in Nat /\ BUFFER < END_OF_REQUEST
  BY BodyLength
<1>14. got = <<>> \/ Len(got) = 1 \/ Len(got) = 2
  <2> DEFINE g == Len(got)
  <2>1. g \in Nat /\ g <= 2
    BY <1>7
  <2>2. g = 0 => got = <<>>
    BY <1>7, EmptySeq
  <2> HIDE DEF g
  <2>3. g = 0 \/ g = 1 \/ g = 2
    BY <2>1
  <2> QED
    BY <2>2, <2>3 DEF g
<1>11. CASE Len(got) = 2
  <2>1. got = A[j]
    BY <1>3, <1>5, <1>11, GotIsMessage
  <2>2. CASE n < Len(files)
    <3>1. Length = Len(b)
      BY <1>8, <2>1, <2>2, LengthOfHeader
    <3>2. Length < BUFFER /\ Length # END_OF_REQUEST
      <4>1. Len(b) < BUFFER /\ Len(b) # END_OF_REQUEST
        BY <1>8, <2>2
      <4> QED
        BY <3>1, <4>1
    <3>3. cl' = "body" /\ msgLen' = Len(b)
      BY <1>1, <3>1, <3>2
    <3>4. RightUnlessRefused'
      BY <3>3 DEF RightUnlessRefused
    <3>5. Received(A, m, off, w, j + 1)'
      <4>1. Len(got) = Len(A[j])
        BY <1>5, <1>11
      <4>2. j + 1 <= Len(A)
        BY <1>8, <2>2
      <4>3. got' = <<>> /\ UNCHANGED <<srv, stream>>
        BY <1>1
      <4> QED
        BY <1>3, <4>1, <4>2, <4>3, NextMessage
    <3>6. ToSend(A, m, off, w)'
      BY <1>1, <1>3 DEF ToSend, Left
    <3>7. Position' = j + 1
      <4>1. Position' = 2 * n + 2
        BY <1>1, <3>3 DEF Position
      <4>2. j = 2 * n + 1
        BY <1>8, <2>2
      <4> QED
        BY <1>7, <4>1, <4>2
    <3>8. InStep(A, m, off, w, j + 1)'
      BY <1>1, <1>3, <1>8, <2>2, <3>3, <3>5, <3>6, <3>7 DEF InStep
    <3>9. InSync'
      <4>1. msgLen' < BUFFER
        <5>1. Len(b) < BUFFER
          BY <1>8, <2>2
        <5> QED
          BY <3>3, <5>1
      <4>2. \A i \in DOMAIN listed' : listed'[i] = Body(files'[i])
        BY <1>1, <1>6
      <4> HIDE DEF b
      <4> QED
        BY <3>8, <4>1, <4>2 DEF InSync, InStep
    <3> QED
      BY <3>4, <3>9
  <2>3. CASE ~ (n < Len(files))
    <3>1. n = Len(files) /\ got = Header(END_OF_REQUEST)
      BY <1>9, <2>1, <2>3
    <3>2. Length = END_OF_REQUEST
      BY <1>10, <3>1, LengthOfHeader, Zenon
    <3>3. PrintFiles
      BY <1>1, <3>2
    <3>4. RightUnlessRefused'
      BY <1>1, <1>6, <3>1, <3>3, PrintedRight
    <3>5. cl' # "body"
      BY <3>3 DEF PrintFiles
    <3> QED
      BY <3>4, <3>5
  <2> QED
    BY <2>2, <2>3
<1>12. CASE Len(got) # 2
  <2>1. EndOfStream
    BY <1>1, <1>5, <1>12 DEF Returned
  <2>2. Len(got) < Len(A[j])
    <3>1. Len(got) < 2
      <4> DEFINE g == Len(got)
      <4>1. g \in Nat /\ g <= 2 /\ g # 2
        BY <1>7, <1>12
      <4> HIDE DEF g
      <4>2. g < 2
        BY <4>1
      <4> QED
        BY <4>2 DEF g
    <3> QED
      BY <1>5, <3>1
  <2>3. srv = "down" /\ srv' = "down" /\ stream' = <<>>
    <3>1. srv = "down"
      BY <1>3, <2>1, <2>2, ShortIsDown
    <3> QED
      BY <1>1, <2>1, <3>1 DEF EndOfStream
  <2>4. CASE Length = END_OF_REQUEST
    <3>1. n = Len(files)
      <4> SUFFICES ASSUME n # Len(files) PROVE FALSE
        OBVIOUS
      <4>1. n < Len(files)
        BY <1>9
      <4>2. got # <<>>
        <5> SUFFICES ASSUME got = <<>> PROVE FALSE
          OBVIOUS
        <5>1. Length = msgLen
          BY LengthOfNothing
        <5> QED
          BY <1>6, <1>13, <2>4, <5>1
      <4>3. Len(got) = 1
        BY <1>12, <1>14, <4>2
      <4>4. got[1] = A[j][1]
        <5>1. 1 \in 1..Len(got)
          BY <4>3
        <5> QED
          BY <1>3, <5>1 DEF Received
      <4>5. /\ Len(b) \in Nat /\ Len(b) < Limit /\ A[j] = Header(Len(b))
        BY <1>8, <4>1
      <4>6. got[1] = Header(Len(b))[1]
        BY <4>4, <4>5
      <4> HIDE DEF b
      <4>7. Length # END_OF_REQUEST
        BY <4>3, <4>5, <4>6, LengthOfHalf
      <4> QED
        BY <2>4, <4>7
    <3>2. PrintFiles
      BY <1>1, <2>4
    <3>3. RightUnlessRefused'
      BY <1>1, <1>6, <3>1, <3>2, PrintedRight
    <3>4. cl' # "body"
      BY <3>2 DEF PrintFiles
    <3> QED
      BY <3>3, <3>4
  <2>5. CASE Length # END_OF_REQUEST
    <3>1. cl' = "body" /\ msgLen' # END_OF_REQUEST
      BY <1>1, <2>5
    <3>2. RightUnlessRefused'
      BY <2>3, <3>1 DEF RightUnlessRefused
    <3>3. cl' = "body" => OutOfSync'
      BY <1>1, <2>3, <3>1 DEF OutOfSync
    <3> QED
      BY <3>2, <3>3
  <2> QED
    BY <2>4, <2>5
<1> QED
  BY <1>11, <1>12

(* A body has no 0: the whole of it is copied. *)
LEMMA WholeCopied ==
  ASSUME PeekConstants, NEW f \in Files, got = Body(f), msgLen = Len(got)
  PROVE  Copied = Body(f)
<1> DEFINE S == 1..255
<1>5. got \in Seq(S)
  BY BodyBytes, Zenon
<1>6. \A b \in S : b # 0
  <2>1. \A m \in Nat : \A b \in 1..m : b # 0
    OBVIOUS
  <2>2. 255 \in Nat
    OBVIOUS
  <2> QED
    BY <2>1, <2>2, Zenon
<1> HIDE DEF S
<1>1. got \in Seq(S) /\ Len(got) \in Nat
  BY <1>5
<1>2. \A i \in DOMAIN got : got[i] # 0
  BY <1>1, <1>6
<1>3. {i \in DOMAIN got : got[i] = 0} = {}
  BY <1>2
<1>4. ~ (Len(got) < msgLen)
  BY <1>1
<1> QED
  BY <1>3, <1>4 DEF Copied

(* After a body it has listed one file more; if the body stayed short the   *)
(* server has failed.                                                       *)
LEMMA ReadBodyInv ==
  ASSUME PeekConstants, TypeInv, InSync, ReadBody
  PROVE  InSync' \/ OutOfSync'
<1>1. /\ cl = "body" /\ cl' = (IF msgLen < BUFFER THEN "header" ELSE "undefined") /\ got' = <<>> /\ Returned
      /\ UNCHANGED <<files, srv, queue, stream, msgLen>>
      /\ listed' = IF Len(listed) < MaxListed THEN Append(listed, Copied) ELSE listed
  BY DEF ReadBody, srvVars
<1>10. cl' = "header"
  BY <1>1 DEF InSync
<1>2. PICK A, m, off, w, j : InStep(A, m, off, w, j)
  BY DEF InSync, InStep
<1>3. /\ Sent(A, m, off, w) /\ ToSend(A, m, off, w) /\ Received(A, m, off, w, j)
      /\ A \in Seq(Seq(Byte)) /\ Len(A[j]) \in Nat /\ Reading(A, j) /\ Wanted = Len(A[j])
      /\ A = Answer(files) /\ j = Position
  BY <1>1, <1>2, InStepFacts
<1> DEFINE n == Len(listed)
           b == Body(files[n + 1])
<1>4. n < Len(files) /\ A[j] = b /\ j = 2 * n + 2 /\ j + 1 <= Len(A)
  BY <1>1, <1>3 DEF Reading
<1>5. /\ files \in Seq(Files) /\ Len(files) \in Nat /\ Len(files) <= MaxListed /\ MaxListed \in Nat
      /\ n \in Nat /\ listed \in Seq(Seq(Byte))
      /\ got \in Seq(Byte) /\ Len(got) \in Nat /\ msgLen < BUFFER
      /\ \A i \in DOMAIN listed : listed[i] = Body(files[i])
  BY <1>1, AnswerFacts, Sizes, SMTT(30) DEF TypeInv, PeekTypeOK, InSync
<1>6. msgLen = Len(A[j])
  BY <1>1, <1>3 DEF Wanted
<1>7. Len(got) <= Len(A[j])
  BY <1>3 DEF Received
<1>8. CASE Len(got) = Len(A[j])
  <2>1. got = b
    BY <1>3, <1>4, <1>8, GotIsMessage
  <2>2. n + 1 \in 1..Len(files)
    BY <1>4, <1>5
  <2>3. files[n + 1] \in Files
    BY <1>5, <2>2
  <2>4. msgLen = Len(got)
    BY <1>6, <1>8
  <2>5. Copied = b
    BY <2>1, <2>3, <2>4, WholeCopied
  <2>6. b \in Seq(Byte)
    BY <1>5, <2>1
  <2>7. n < MaxListed
    BY <1>4, <1>5
  <2> HIDE DEF b
  <2>8. listed' = Append(listed, b)
    BY <1>1, <2>5, <2>7
  <2>9. Len(listed') = n + 1 /\ DOMAIN listed' = 1..(n + 1)
        /\ listed'[n + 1] = b /\ \A i \in 1..n : listed'[i] = listed[i]
    BY <1>5, <2>6, <2>8
  <2>10. ASSUME NEW i \in DOMAIN listed' PROVE listed'[i] = Body(files'[i])
    <3>1. files' = files
      BY <1>1
    <3>2. CASE i = n + 1
      BY <2>9, <3>1, <3>2 DEF b
    <3>3. CASE i # n + 1
      <4>1. i \in 1..n /\ i \in DOMAIN listed
        BY <1>5, <2>9, <3>3
      <4> QED
        BY <1>5, <2>9, <3>1, <4>1
    <3> QED
      BY <3>2, <3>3
  <2>11. Position' = j + 1
    <3>1. Position' = 2 * (n + 1) + 1
      BY <1>1, <1>10, <2>9 DEF Position
    <3> QED
      BY <1>4, <1>5, <3>1
  <2>12. Received(A, m, off, w, j + 1)'
    <3>1. got' = <<>> /\ UNCHANGED <<srv, stream>> /\ j + 1 <= Len(A)
      BY <1>1, <1>4
    <3> QED
      BY <1>3, <1>8, <3>1, NextMessage
  <2>13. ToSend(A, m, off, w)'
    BY <1>1, <1>3 DEF ToSend, Left
  <2>14. InStep(A, m, off, w, j + 1)'
    BY <1>1, <1>3, <1>10, <2>11, <2>12, <2>13 DEF InStep
  <2>15. InSync'
    BY <1>1, <1>5, <1>10, <2>10, <2>14 DEF InSync, InStep
  <2> QED
    BY <2>15
<1>9. CASE Len(got) # Len(A[j])
  <2>1. EndOfStream /\ Len(got) < Len(A[j])
    BY <1>1, <1>3, <1>5, <1>7, <1>9 DEF Returned
  <2>2. srv = "down"
    BY <1>3, <2>1, ShortIsDown
  <2>3. msgLen # END_OF_REQUEST
    <3>1. BUFFER \in Nat /\ END_OF_REQUEST \in Nat /\ BUFFER < END_OF_REQUEST
      BY BodyLength
    <3> QED
      BY <1>5, <3>1
  <2>4. OutOfSync'
    BY <1>1, <1>10, <2>1, <2>2, <2>3 DEF OutOfSync, EndOfStream
  <2> QED
    BY <2>4
<1> QED
  BY <1>8, <1>9

(* A client that is out of step has nothing more to read. *)
LEMMA OutOfSyncStep ==
  ASSUME TypeInv, OutOfSync, Client
  PROVE  RightUnlessRefused' /\ (OutOfSync' \/ cl' = "undefined")
<1>1. srv = "down" /\ stream = <<>> /\ got = <<>> /\ cl \in {"header", "body"} /\ msgLen # END_OF_REQUEST
  BY DEF OutOfSync
<1>2. UNCHANGED srv
  BY DEF Client, SendRequest, Recv, ReadHeader, ReadBody, srvVars
<1>3. ~ Recv
  <2> SUFFICES ASSUME Recv PROVE FALSE
    OBVIOUS
  <2>1. PICK k \in 1..Min({Wanted - Len(got), Len(stream)}) : TRUE
    BY DEF Recv, Asked
  <2>2. k \in Nat /\ k >= 1 /\ k \in 0..Len(stream)
    BY <1>1, WantedType, RecvTakes
  <2>3. Len(stream) = 0
    BY <1>1
  <2> QED
    BY <2>2, <2>3
<1>4. CASE ReadHeader
  <2>1. Length = msgLen
    BY <1>1, LengthOfNothing
  <2>2. cl' = "body" /\ msgLen' = msgLen /\ got' = <<>> /\ stream' = stream
    BY <1>1, <1>4, <2>1 DEF ReadHeader
  <2>3. RightUnlessRefused'
    BY <1>1, <1>2, <2>2 DEF RightUnlessRefused
  <2>4. cl' = "body" => OutOfSync'
    BY <1>1, <1>2, <2>2 DEF OutOfSync
  <2> QED
    BY <2>2, <2>3, <2>4
<1>5. CASE ReadBody
  <2>1. cl' \in {"header", "undefined"} /\ msgLen' = msgLen /\ got' = <<>> /\ stream' = stream
    BY <1>5 DEF ReadBody
  <2>2. RightUnlessRefused'
    BY <1>1, <1>2, <2>1 DEF RightUnlessRefused
  <2>3. cl' = "header" => OutOfSync'
    BY <1>1, <1>2, <2>1 DEF OutOfSync
  <2> QED
    BY <2>1, <2>2, <2>3
<1>6. ~ SendRequest
  BY <1>1 DEF SendRequest
<1> QED
  BY <1>3, <1>4, <1>5, <1>6 DEF Client

(* The invariant after a step of the client. *)
LEMMA ClientInv ==
  ASSUME PeekConstants, PeekInv, Client
  PROVE  PeekInv'
<1>1. TypeInv /\ (~refused /\ cl \in {"request", "header", "body"} => InSync \/ OutOfSync)
  BY DEF PeekInv
<1>2. TypeInv'
  BY <1>1, ClientType
<1>3. UNCHANGED <<srv, refused>> /\ cl \in {"request", "header", "body"}
  BY DEF Client, SendRequest, Recv, ReadHeader, ReadBody, srvVars
<1>4. CASE refused
  <2>1. refused'
    BY <1>3, <1>4
  <2> QED
    BY <1>2, <2>1 DEF PeekInv, RightUnlessRefused
<1>5. CASE ~refused /\ OutOfSync
  BY <1>1, <1>2, <1>5, OutOfSyncStep DEF PeekInv
<1>6. CASE ~refused /\ InSync
  <2>1. CASE SendRequest
    <3>1. cl' \in {"header", "failed"}
      BY <2>1 DEF SendRequest
    <3>2. RightUnlessRefused'
      BY <3>1 DEF RightUnlessRefused
    <3>3. cl' = "header" => InSync'
      BY <1>6, <2>1, RequestSync
    <3> QED
      BY <1>2, <3>1, <3>2, <3>3 DEF PeekInv
  <2>2. CASE Recv
    <3>1. InSync' /\ cl' = cl
      BY <1>1, <1>6, <2>2, RecvInSync
    <3>2. cl' \in {"header", "body"}
      BY <2>2, <3>1 DEF Recv
    <3>3. RightUnlessRefused'
      BY <3>2 DEF RightUnlessRefused
    <3> QED
      BY <1>2, <3>1, <3>3 DEF PeekInv
  <2>3. CASE ReadHeader
    <3>1. RightUnlessRefused' /\ (cl' = "body" => InSync' \/ OutOfSync')
      BY <1>1, <1>6, <2>3, ReadHeaderRight
    <3>2. cl' \in {"body", "done", "undefined"}
      BY <2>3 DEF ReadHeader, PrintFiles
    <3> QED
      BY <1>2, <3>1, <3>2 DEF PeekInv
  <2>4. CASE ReadBody
    <3>1. InSync' \/ OutOfSync'
      BY <1>1, <1>6, <2>4, ReadBodyInv
    <3>2. cl' = "header"
      BY <1>6, <2>4 DEF ReadBody, InSync
    <3>3. RightUnlessRefused'
      BY <3>2 DEF RightUnlessRefused
    <3> QED
      BY <1>2, <3>1, <3>3 DEF PeekInv
  <2> QED
    BY <2>1, <2>2, <2>3, <2>4 DEF Client
<1> QED
  BY <1>1, <1>3, <1>4, <1>5, <1>6

(* However sends and receives are split, a completed peek without a refused *)
(* send has listed every file, in order, and shown those whose names are    *)
(* one word, if no worker parsed a message meanwhile; the client leaves its *)
(* buffers only after a refused send, a failure of the server, to show a    *)
(* name that its column has no room for, or with words mixed up with those  *)
(* of a message (server.c:67-85, cli.c:50-65, 111-142).                     *)
THEOREM ListsRight ==
  ASSUME PeekConstants
  PROVE  PeekSpec => []RightUnlessRefused
<1>1. PeekInit => PeekInv
  BY InitInv
<1>2. PeekInv /\ [PeekNext]_peekVars => PeekInv'
  <2> SUFFICES ASSUME PeekInv, [PeekNext]_peekVars PROVE PeekInv'
    OBVIOUS
  <2>1. CASE UNCHANGED peekVars
    <3>1. UNCHANGED <<files, srv, queue, refused, stream, cl, msgLen, got, listed, printed, mixed>>
      BY <2>1 DEF peekVars, srvVars, cliVars
    <3>2. TypeInv => TypeInv'
      BY <3>1 DEF TypeInv, PeekTypeOK
    <3>3. RightUnlessRefused => RightUnlessRefused'
      BY <3>1 DEF RightUnlessRefused
    <3>4. OutOfSync => OutOfSync'
      BY <3>1 DEF OutOfSync
    <3>5. InSync => InSync'
      <4> SUFFICES ASSUME InSync PROVE InSync'
        OBVIOUS
      <4>1. PICK A, m, off, w, j : InStep(A, m, off, w, j)
        BY DEF InSync, InStep
      <4>2. ToSend(A, m, off, w)' /\ Received(A, m, off, w, j)' /\ Position' = Position
        BY <3>1, <4>1 DEF InStep, ToSend, Left, Received, Position
      <4>3. InStep(A, m, off, w, j)'
        BY <3>1, <4>1, <4>2 DEF InStep
      <4> QED
        BY <3>1, <4>3 DEF InSync, InStep
    <3> QED
      BY <3>1, <3>2, <3>3, <3>4, <3>5 DEF PeekInv
  <2>2. CASE Server \/ Crash
    BY <2>2, ServerInv
  <2>3. CASE Client
    BY <2>3, ClientInv
  <2> QED
    BY <2>1, <2>2, <2>3 DEF PeekNext, Done
<1>3. PeekInv => RightUnlessRefused
  BY DEF PeekInv
<1> QED
  BY <1>1, <1>2, <1>3, PTL DEF PeekSpec

=============================================================================
