----------------------------- MODULE ShareProofs -----------------------------
(***************************************************************************)
(* Proofs about Share, for any files, versions and number of connections.  *)
(*                                                                         *)
(* What is listed and what is served agree with the disk because of one    *)
(* fact about each side: while a download is open the file is exactly what *)
(* has been received of it (DownloadIsOnDisk), and a transfer nobody has   *)
(* marked as touched is of a file that no download has open or has left    *)
(* incomplete (Untouched).  IInv adds what makes both inductive.           *)
(***************************************************************************)
EXTENDS Share, TLAPS

(* The file that is being downloaded is what has been received of it, and   *)
(* a download is received when all has been (cli.c:193-215).                *)
DownloadIsOnDisk ==
  /\ dl.phase # "idle" => disk[dl.name] = [ver |-> dl.ver, len |-> dl.got] /\ dl.got <= SizeOf[dl.ver]
  /\ dl.phase = "received" => dl.got = SizeOf[dl.ver]

(* A file is whole unless a download of it runs or has failed. *)
Whole ==
  \A f \in Names :
    /\ disk[f] # None /\ ~(Busy(f) /\ dl.phase = "receiving")
    /\ f \notin broken /\ f \notin partial
    => disk[f].len = SizeOf[disk[f].ver]

(* A file that is listed has the size in its file_info. *)
Listed ==
  \A f \in Names : tree[f] # None =>
    /\ disk[f] # None
    /\ ~Busy(f) /\ f \notin broken => tree[f] = disk[f].len

(* What is being sent is in the tree, and nothing was sent before the size. *)
Present ==
  \A c \in Conns : conn[c].phase # "waiting" =>
    /\ tree[conn[c].name] # None
    /\ conn[c].phase \in {"found", "answered"} => conn[c].sent = 0 /\ conn[c].vers = {}

(* A transfer of a file nobody has opened for writing. *)
UntouchedTransfer(c) ==
  /\ ~Busy(conn[c].name) /\ conn[c].name \notin broken
  /\ conn[c].phase \in {"found", "answered"} => conn[c].info
  /\ conn[c].phase \in {"answered", "sending", "ended"} =>
       /\ conn[c].announced = disk[conn[c].name].len
       /\ conn[c].sent <= conn[c].announced
       /\ conn[c].vers \subseteq {disk[conn[c].name].ver}
  /\ conn[c].phase = "ended" => conn[c].sent = conn[c].announced

Untouched ==
  \A c \in Conns : conn[c].phase # "waiting" /\ ~conn[c].touched => UntouchedTransfer(c)

(* A node that is down serves nobody. *)
Down == ~up => \A c \in Conns : conn[c] = Waiting

IInv == TypeOK /\ DownloadIsOnDisk /\ Whole /\ Listed /\ Present /\ Untouched /\ Down

-----------------------------------------------------------------------------
(* Lengths, and what the type invariant says of one connection or file.     *)

LEMMA LengthFacts ==
  /\ Lengths \subseteq Nat
  /\ None \notin Lengths /\ None \notin Names
  /\ 0 \in Lengths \/ Versions = {}
  /\ \A v \in Versions : SizeOf[v] \in Nat /\ 0..SizeOf[v] \subseteq Lengths
  /\ \A v \in Versions, n \in Nat : [ver |-> v, len |-> n] # None
BY ShareAssumption DEF Lengths

LEMMA NextLength ==
  ASSUME NEW m \in Lengths, NEW k \in Nat, k < m
  PROVE  k + 1 \in Lengths
<1>1. PICK v \in Versions : m \in 0..SizeOf[v]
  BY DEF Lengths
<1>2. k + 1 \in 0..SizeOf[v]
  BY <1>1, ShareAssumption
<1> QED
  BY <1>2 DEF Lengths

LEMMA ConnType ==
  ASSUME TypeOK, NEW c \in Conns
  PROVE  \/ conn[c] = Waiting /\ conn[c].phase = "waiting" /\ conn[c].name = None
         \/ /\ conn[c] \in Active
            /\ conn[c].phase \in {"found", "answered", "sending", "ended"} /\ conn[c].name \in Names
            /\ conn[c].announced \in Nat /\ conn[c].sent \in Nat
<1>1. Waiting.phase = "waiting" /\ Waiting.name = None
  BY DEF Waiting
<1>2. \A r \in Active :
        /\ r.phase \in {"found", "answered", "sending", "ended"} /\ r.name \in Names
        /\ r.announced \in Nat /\ r.sent \in Nat
  BY LengthFacts DEF Active
<1>3. conn[c] = Waiting \/ conn[c] \in Active
  BY DEF TypeOK, Transfers
<1> QED
  BY <1>1, <1>2, <1>3

LEMMA DownloadType ==
  ASSUME TypeOK
  PROVE  \/ dl = Idle /\ dl.phase = "idle" /\ dl.name = None
         \/ /\ dl.phase \in {"receiving", "received"}
            /\ dl \in Running
            /\ dl.name \in Names /\ dl.ver \in Versions /\ dl.got \in Lengths
<1>1. Idle.phase = "idle" /\ Idle.name = None
  BY DEF Idle
<1>2. dl = Idle \/ dl \in Running
  BY DEF TypeOK, Downloads
<1> QED
  BY <1>1, <1>2 DEF Running

LEMMA InitInvariant == Init => IInv
<1> SUFFICES ASSUME Init PROVE IInv
  OBVIOUS
<1>1. TypeOK
  <2>1. \A v \in Versions : [ver |-> v, len |-> SizeOf[v]] \in Contents
    BY LengthFacts DEF Contents
  <2>2. disk \in [Names -> Contents \cup {None}]
    BY <2>1 DEF Init
  <2> QED
    BY <2>2 DEF Init, TypeOK, Downloads, Transfers
<1>2. DownloadIsOnDisk /\ Whole /\ Listed
  BY DEF Init, DownloadIsOnDisk, Whole, Listed, Idle
<1>3. Present /\ Untouched /\ Down
  BY DEF Init, Present, Untouched, Down, Waiting
<1> QED
  BY <1>1, <1>2, <1>3 DEF IInv

-----------------------------------------------------------------------------
(* Start and stop. *)

LEMMA StartStep == IInv /\ StartNode => IInv'
<1> SUFFICES ASSUME IInv, StartNode PROVE IInv'
  OBVIOUS
<1> USE DEF IInv
<1>1. /\ UNCHANGED <<disk, dl, conn, broken, partial>> /\ up' = TRUE
      /\ \A c \in Conns : conn[c] = Waiting
  BY DEF StartNode, Down
<1>2. PICK seen \in SUBSET {f \in Names : disk[f] # None} :
        tree' = [f \in Names |-> IF f \in seen THEN disk[f].len ELSE None]
  BY DEF StartNode
<1>3. TypeOK'
  <2>1. tree' \in [Names -> Lengths \cup {None}]
    BY <1>2 DEF TypeOK, Contents
  <2> QED
    BY <1>1, <2>1 DEF TypeOK
<1>4. DownloadIsOnDisk' /\ Whole'
  BY <1>1 DEF DownloadIsOnDisk, Whole, Busy
<1>5. Listed'
  BY <1>1, <1>2 DEF Listed, Busy
<1>6. Present' /\ Untouched' /\ Down'
  BY <1>1 DEF Present, Untouched, Down, Waiting
<1> QED
  BY <1>3, <1>4, <1>5, <1>6

LEMMA StopStep == IInv /\ StopNode => IInv'
<1> SUFFICES ASSUME IInv, StopNode PROVE IInv'
  OBVIOUS
<1> USE DEF IInv
<1>1. /\ tree' = [f \in Names |-> None] /\ dl' = Idle /\ up' = FALSE
      /\ conn' = [c \in Conns |-> Waiting] /\ broken' = {} /\ disk' = disk
      /\ partial' = partial \cup broken \cup {f \in Names : Busy(f) /\ dl.phase = "receiving"}
  BY DEF StopNode
<1>2. TypeOK'
  BY <1>1 DEF TypeOK, Downloads, Transfers
<1>3. DownloadIsOnDisk' /\ Listed'
  BY <1>1 DEF DownloadIsOnDisk, Listed, Idle
<1>4. Whole'
  BY <1>1 DEF Whole
<1>5. Present' /\ Untouched' /\ Down'
  BY <1>1 DEF Present, Untouched, Down, Waiting
<1> QED
  BY <1>2, <1>3, <1>4, <1>5

-----------------------------------------------------------------------------
(* The download. *)

LEMMA StartDownloadStep ==
  ASSUME IInv, NEW f \in Names, NEW v \in Versions, StartDownload(f, v)
  PROVE  IInv'
<1> USE DEF IInv
<1>1. /\ up /\ dl = Idle
      /\ disk' = [disk EXCEPT ![f] = [ver |-> v, len |-> 0]]
      /\ dl' = [phase |-> "receiving", name |-> f, ver |-> v, got |-> 0]
      /\ UNCHANGED <<up, tree, broken, partial>>
  BY DEF StartDownload, Opened
<1>2. conn' = [c \in Conns |-> IF conn[c].name = f THEN [conn[c] EXCEPT !.touched = TRUE] ELSE conn[c]]
  BY DEF StartDownload, Touch
<1>4. \A c \in Conns :
        /\ conn'[c].phase = conn[c].phase /\ conn'[c].name = conn[c].name
        /\ conn[c].name # f => conn'[c] = conn[c]
        /\ conn[c].name = f => conn'[c] = [conn[c] EXCEPT !.touched = TRUE]
  BY <1>2, ConnType DEF Waiting
<1>5. TypeOK'
  <2>1. disk' \in [Names -> Contents \cup {None}]
    BY <1>1, LengthFacts DEF TypeOK, Contents
  <2>2. dl' \in Downloads
    BY <1>1, LengthFacts DEF Downloads, Running
  <2>3. conn' \in [Conns -> Transfers]
    <3>1. ASSUME NEW c \in Conns, conn[c].name = f
          PROVE  [conn[c] EXCEPT !.touched = TRUE] \in Transfers
      <4>1. conn[c] \in Active
        BY <3>1, LengthFacts, ConnType
      <4> QED
        BY <4>1 DEF Active, Transfers
    <3> QED
      BY <1>2, <3>1 DEF TypeOK
  <2> QED
    BY <1>1, <2>1, <2>2, <2>3 DEF TypeOK
<1>6. DownloadIsOnDisk'
  BY <1>1, LengthFacts DEF DownloadIsOnDisk, TypeOK
<1>7. Whole'
  BY <1>1, LengthFacts DEF Whole, TypeOK, Busy, Idle
<1>8. Listed'
  <2>1. /\ \A g \in Names : ~Busy(g) /\ (Busy(g)' <=> g = f)
        /\ disk'[f] # None
    BY <1>1, LengthFacts DEF Busy, Idle, TypeOK
  <2> QED
    BY <1>1, <2>1 DEF Listed, TypeOK
<1>9. Present' /\ Down'
  <2>1. \A c \in Conns : conn'[c].sent = conn[c].sent /\ conn'[c].vers = conn[c].vers
    BY <1>2, ConnType DEF Waiting, Active
  <2> QED
    BY <1>1, <1>4, <2>1 DEF Present, Down
<1>10. Untouched'
  <2> SUFFICES ASSUME NEW c \in Conns, conn'[c].phase # "waiting", ~conn'[c].touched
               PROVE  UntouchedTransfer(c)'
    BY DEF Untouched
  <2>1. conn[c].phase # "waiting" /\ conn[c].name \in Names
    BY <1>4, ConnType
  <2>2. conn[c].name # f /\ conn'[c] = conn[c]
    <3>1. ASSUME conn[c].name = f PROVE conn'[c].touched = TRUE
      <4>1. conn[c] \in Active
        BY <2>1, ConnType
      <4> QED
        BY <1>4, <3>1, <4>1 DEF Active
    <3> QED
      BY <1>4, <3>1
  <2>3. UntouchedTransfer(c)
    BY <2>1, <2>2 DEF Untouched
  <2> QED
    BY <1>1, <2>1, <2>2, <2>3 DEF UntouchedTransfer, Busy, TypeOK
<1> QED
  BY <1>5, <1>6, <1>7, <1>8, <1>9, <1>10

LEMMA WriteChunkStep == IInv /\ WriteChunk => IInv'
<1> SUFFICES ASSUME IInv, WriteChunk PROVE IInv'
  OBVIOUS
<1> USE DEF IInv
<1>1. /\ dl.phase = "receiving" /\ dl.got < SizeOf[dl.ver]
      /\ dl' = [dl EXCEPT !.got = @ + 1]
      /\ UNCHANGED <<up, tree, conn, broken, partial>>
  BY DEF WriteChunk, MoreToCome
<1>2. /\ dl.name \in Names /\ dl.ver \in Versions /\ dl.got \in Nat
      /\ dl.got + 1 \in 0..SizeOf[dl.ver]
      /\ dl' = [phase |-> "receiving", name |-> dl.name, ver |-> dl.ver, got |-> dl.got + 1]
  <2>1. dl \in Running /\ dl.name \in Names /\ dl.ver \in Versions /\ dl.got \in Nat
    BY <1>1, DownloadType, LengthFacts
  <2>2. SizeOf[dl.ver] \in Nat
    BY <2>1, LengthFacts
  <2> QED
    BY <1>1, <2>1, <2>2 DEF Running
<1>3. disk' = [disk EXCEPT ![dl.name] = [ver |-> dl.ver, len |-> dl.got + 1]]
  <2>1. disk[dl.name] = [ver |-> dl.ver, len |-> dl.got]
    BY <1>1 DEF DownloadIsOnDisk
  <2>2. disk' = [disk EXCEPT ![dl.name].len =
                   IF dl.got + 1 > disk[dl.name].len THEN dl.got + 1 ELSE disk[dl.name].len]
    BY DEF WriteChunk
  <2>3. (IF dl.got + 1 > disk[dl.name].len THEN dl.got + 1 ELSE disk[dl.name].len) = dl.got + 1
    BY <1>2, <2>1
  <2>4. disk' = [disk EXCEPT ![dl.name] = [disk[dl.name] EXCEPT !.len = dl.got + 1]]
    BY <2>2, <2>3
  <2>5. [disk[dl.name] EXCEPT !.len = dl.got + 1] = [ver |-> dl.ver, len |-> dl.got + 1]
    BY <2>1
  <2> QED
    BY <2>4, <2>5
<1>4. TypeOK'
  <2>1. dl.got + 1 \in Lengths
    BY <1>2, LengthFacts
  <2> QED
    BY <1>1, <1>2, <1>3, <2>1 DEF TypeOK, Contents, Downloads, Running
<1>5. DownloadIsOnDisk'
  BY <1>2, <1>3 DEF DownloadIsOnDisk, TypeOK
<1>6. Whole'
  BY <1>1, <1>2, <1>3 DEF Whole, TypeOK, Busy
<1>7. Listed'
  <2>1. disk'[dl.name] # None /\ \A g \in Names \ {dl.name} : disk'[g] = disk[g]
    BY <1>2, <1>3, LengthFacts DEF TypeOK
  <2>2. \A g \in Names : Busy(g)' <=> Busy(g)
    BY <1>2 DEF Busy
  <2> QED
    BY <1>1, <2>1, <2>2 DEF Listed, Busy
<1>8. Present' /\ Down'
  BY <1>1 DEF Present, Down
<1>9. Untouched'
  <2> SUFFICES ASSUME NEW c \in Conns, conn[c].phase # "waiting", ~conn[c].touched
               PROVE  UntouchedTransfer(c)'
    BY <1>1 DEF Untouched
  <2>1. conn[c].name \in Names /\ UntouchedTransfer(c)
    BY ConnType DEF Untouched, Waiting
  <2> QED
    BY <1>1, <1>2, <1>3, <2>1 DEF UntouchedTransfer, Busy, TypeOK
<1> QED
  BY <1>4, <1>5, <1>6, <1>7, <1>8, <1>9

LEMMA FailDownloadStep == IInv /\ FailDownload => IInv'
<1> SUFFICES ASSUME IInv, FailDownload PROVE IInv'
  OBVIOUS
<1> USE DEF IInv
<1>1. /\ dl.phase = "receiving" /\ dl' = Idle /\ broken' = broken \cup {dl.name}
      /\ UNCHANGED <<up, disk, tree, conn, partial>>
      /\ dl.name \in Names
  BY DownloadType DEF FailDownload, Idle
<1>2. TypeOK'
  BY <1>1 DEF TypeOK, Downloads
<1>3. DownloadIsOnDisk' /\ Whole' /\ Listed'
  BY <1>1 DEF DownloadIsOnDisk, Whole, Listed, Busy, Idle
<1>4. Present' /\ Down'
  BY <1>1 DEF Present, Down
<1>5. Untouched'
  BY <1>1, ConnType, LengthFacts DEF Untouched, UntouchedTransfer, Busy, Idle, Waiting
<1> QED
  BY <1>2, <1>3, <1>4, <1>5

LEMMA CloseFileStep == IInv /\ CloseFile => IInv'
<1> SUFFICES ASSUME IInv, CloseFile PROVE IInv'
  OBVIOUS
<1> USE DEF IInv
<1>1. /\ dl.phase = "receiving" /\ ~(dl.got < SizeOf[dl.ver])
      /\ dl' = [dl EXCEPT !.phase = "received"]
      /\ UNCHANGED <<up, disk, tree, conn, broken, partial>>
  BY DEF CloseFile, MoreToCome
<1>2. /\ dl.name \in Names /\ dl.ver \in Versions /\ dl.got \in Lengths /\ dl.got = SizeOf[dl.ver]
      /\ dl' = [phase |-> "received", name |-> dl.name, ver |-> dl.ver, got |-> dl.got]
  <2>1. dl \in Running /\ dl.name \in Names /\ dl.ver \in Versions /\ dl.got \in Lengths
    BY <1>1, DownloadType
  <2>2. dl.got <= SizeOf[dl.ver] /\ SizeOf[dl.ver] \in Nat /\ dl.got \in Nat
    BY <1>1, <2>1, LengthFacts DEF DownloadIsOnDisk
  <2> QED
    BY <1>1, <2>1, <2>2 DEF Running
<1>3. TypeOK'
  BY <1>1, <1>2 DEF TypeOK, Downloads, Running
<1>4. DownloadIsOnDisk' /\ Whole' /\ Listed'
  BY <1>1, <1>2 DEF DownloadIsOnDisk, Whole, Listed, Busy
<1>5. Present' /\ Down'
  BY <1>1 DEF Present, Down
<1>6. Untouched'
  BY <1>1, <1>2 DEF Untouched, UntouchedTransfer, Busy
<1> QED
  BY <1>3, <1>4, <1>5, <1>6

LEMMA InsertStep == IInv /\ Insert => IInv'
<1> SUFFICES ASSUME IInv, Insert PROVE IInv'
  OBVIOUS
<1> USE DEF IInv
<1>1. /\ dl.phase = "received" /\ dl' = Idle
      /\ tree' = [tree EXCEPT ![dl.name] = dl.got]
      /\ broken' = broken \ {dl.name} /\ partial' = partial \ {dl.name}
      /\ UNCHANGED <<up, disk>>
  BY DEF Insert
<1>2. /\ dl.name \in Names /\ dl.ver \in Versions /\ dl.got \in Lengths /\ dl.got # None
      /\ dl.got = SizeOf[dl.ver] /\ disk[dl.name] = [ver |-> dl.ver, len |-> dl.got]
  BY <1>1, DownloadType, LengthFacts DEF DownloadIsOnDisk, Idle
<1>3. conn' = [c \in Conns |-> IF conn[c].name = dl.name THEN [conn[c] EXCEPT !.info = FALSE] ELSE conn[c]]
  BY DEF Insert, Freed
<1>4. \A c \in Conns :
        /\ conn'[c].phase = conn[c].phase /\ conn'[c].name = conn[c].name
        /\ conn'[c].touched = conn[c].touched
        /\ conn'[c].sent = conn[c].sent /\ conn'[c].vers = conn[c].vers
        /\ conn[c].name # dl.name => conn'[c] = conn[c]
  BY <1>3, ConnType DEF Waiting
<1>5. TypeOK'
  <2>1. ASSUME NEW c \in Conns, conn[c].name = dl.name
        PROVE  [conn[c] EXCEPT !.info = FALSE] \in Transfers
    <3>1. conn[c] \in Active
      BY <1>2, <2>1, LengthFacts, ConnType
    <3> QED
      BY <3>1 DEF Active, Transfers
  <2>2. conn' \in [Conns -> Transfers]
    BY <1>3, <2>1 DEF TypeOK
  <2> QED
    BY <1>1, <1>2, <2>2 DEF TypeOK, Downloads
<1>6. DownloadIsOnDisk'
  BY <1>1 DEF DownloadIsOnDisk, Idle
<1>7. Whole'
  BY <1>1, <1>2 DEF Whole, Busy
<1>8. Listed'
  <2> SUFFICES ASSUME NEW f \in Names, tree'[f] # None
               PROVE  disk[f] # None /\ (~Busy(f)' /\ f \notin broken' => tree'[f] = disk[f].len)
    BY <1>1 DEF Listed
  <2>1. CASE f = dl.name
    <3>1. disk[f] # None /\ disk[f].len = dl.got
      BY <1>2, <2>1, LengthFacts
    <3> QED
      BY <1>1, <2>1, <3>1 DEF TypeOK
  <2>2. CASE f # dl.name
    BY <1>1, <2>2 DEF TypeOK, Listed, Busy
  <2> QED
    BY <2>1, <2>2
<1>9. Present' /\ Down'
  <2>1. \A c \in Conns : conn[c] = Waiting => conn'[c] = conn[c]
    BY <1>2, <1>4, LengthFacts, ConnType DEF Waiting
  <2>2. \A f \in Names : tree[f] # None => tree'[f] # None
    BY <1>1, <1>2 DEF TypeOK
  <2> QED
    BY <1>1, <1>4, <2>1, <2>2, ConnType DEF Present, Down
<1>10. Untouched'
  <2> SUFFICES ASSUME NEW c \in Conns, conn'[c].phase # "waiting", ~conn'[c].touched
               PROVE  UntouchedTransfer(c)'
    BY DEF Untouched
  <2>1. UntouchedTransfer(c) /\ conn[c].name # dl.name /\ conn'[c] = conn[c] /\ conn[c].name \in Names
    BY <1>4, ConnType DEF Untouched, UntouchedTransfer, Busy, Waiting
  <2> QED
    BY <1>1, <2>1, LengthFacts DEF UntouchedTransfer, Busy, Idle
<1> QED
  BY <1>5, <1>6, <1>7, <1>8, <1>9, <1>10

-----------------------------------------------------------------------------
(* The workers: one connection changes, and nothing else. *)

LEMMA ConnStep ==
  ASSUME IInv, NEW c \in Conns, NEW r \in Transfers,
         conn' = [conn EXCEPT ![c] = r],
         UNCHANGED <<up, disk, tree, dl, broken, partial>>,
         up \/ r = Waiting,
         r.phase # "waiting" =>
           /\ tree[r.name] # None
           /\ r.phase \in {"found", "answered"} => r.sent = 0 /\ r.vers = {},
         r.phase # "waiting" /\ ~r.touched =>
           /\ ~Busy(r.name) /\ r.name \notin broken
           /\ r.phase \in {"found", "answered"} => r.info
           /\ r.phase \in {"answered", "sending", "ended"} =>
                /\ r.announced = disk[r.name].len
                /\ r.sent <= r.announced
                /\ r.vers \subseteq {disk[r.name].ver}
           /\ r.phase = "ended" => r.sent = r.announced
  PROVE  IInv'
<1> USE DEF IInv
<1>1. conn'[c] = r /\ \A d \in Conns \ {c} : conn'[d] = conn[d]
  BY DEF TypeOK
<1>2. TypeOK'
  BY DEF TypeOK
<1>3. DownloadIsOnDisk' /\ Whole' /\ Listed'
  BY DEF DownloadIsOnDisk, Whole, Listed, Busy
<1>4. Present' /\ Down'
  BY <1>1 DEF Present, Down
<1>5. Untouched'
  <2> SUFFICES ASSUME NEW d \in Conns, conn'[d].phase # "waiting", ~conn'[d].touched
               PROVE  UntouchedTransfer(d)'
    BY DEF Untouched
  <2>1. CASE d = c
    BY <1>1, <2>1 DEF UntouchedTransfer, Busy
  <2>2. CASE d # c
    BY <1>1, <2>2 DEF Untouched, UntouchedTransfer, Busy
  <2> QED
    BY <2>1, <2>2
<1> QED
  BY <1>2, <1>3, <1>4, <1>5

LEMMA SearchStep ==
  ASSUME IInv, NEW c \in Conns, NEW f \in Names, Search(c, f)
  PROVE  IInv'
<1>1. /\ up /\ tree[f] # None
      /\ UNCHANGED <<up, disk, tree, dl, broken, partial>>
      /\ conn' = [conn EXCEPT ![c] = Found(f)]
  BY DEF Search
<1>2. Found(f) \in Transfers
  <2>1. 0 \in Lengths
    BY <1>1, LengthFacts DEF IInv, TypeOK, Lengths
  <2>2. (Busy(f) \/ f \in broken) \in BOOLEAN
    OBVIOUS
  <2> QED
    BY <2>1, <2>2 DEF Found, Transfers, Active
<1>3. LET r == Found(f)
      IN  /\ r.phase = "found" /\ r.name = f /\ r.info /\ r.sent = 0 /\ r.vers = {}
          /\ ~r.touched => ~Busy(f) /\ f \notin broken
  BY DEF Found
<1> QED
  BY <1>1, <1>2, <1>3, ConnStep

LEMMA AnnounceStep ==
  ASSUME IInv, NEW c \in Conns, Announce(c)
  PROVE  IInv'
<1>1. PICK n \in InfoSizes(c) : conn' = [conn EXCEPT ![c].phase = "answered", ![c].announced = n]
  BY DEF Announce
<1> DEFINE r == [conn[c] EXCEPT !.phase = "answered", !.announced = n]
<1>2. /\ conn[c].phase = "found" /\ conn[c] \in Active /\ conn[c].name \in Names
      /\ UNCHANGED <<up, disk, tree, dl, broken, partial>>
  BY ConnType DEF IInv, Announce
<1>3. /\ tree[conn[c].name] # None /\ tree[conn[c].name] \in Lengths
      /\ conn[c].sent = 0 /\ conn[c].vers = {}
  BY <1>2 DEF IInv, Present, TypeOK
<1>4. n \in Lengths /\ (conn[c].info => n = tree[conn[c].name])
  BY <1>1, <1>3 DEF InfoSizes
<1>5. conn' = [conn EXCEPT ![c] = r]
  BY <1>1
<1>6. /\ r \in Active
      /\ r.phase = "answered" /\ r.info = conn[c].info /\ r.name = conn[c].name /\ r.touched = conn[c].touched
      /\ r.announced = n /\ r.sent = 0 /\ r.vers = {}
  BY <1>2, <1>3, <1>4 DEF Active
<1>7. ~r.touched => /\ ~Busy(r.name) /\ r.name \notin broken
                    /\ r.info /\ n = disk[r.name].len /\ 0 <= n
  BY <1>2, <1>3, <1>4, <1>6, LengthFacts DEF IInv, Untouched, UntouchedTransfer, Listed
<1>8. up
  BY <1>2, ConnType DEF IInv, Down, Waiting
<1> HIDE DEF r
<1> QED
  BY <1>2, <1>3, <1>5, <1>6, <1>7, <1>8, ConnStep DEF Transfers

LEMMA OpenFileStep ==
  ASSUME IInv, NEW c \in Conns, OpenFile(c)
  PROVE  IInv'
<1>1. /\ conn[c].phase = "answered" /\ conn[c] \in Active /\ conn[c].name \in Names
      /\ UNCHANGED <<up, disk, tree, dl, broken, partial>>
  BY ConnType DEF IInv, OpenFile
<1>2. tree[conn[c].name] # None /\ conn[c].sent = 0 /\ conn[c].vers = {}
  BY <1>1 DEF IInv, Present
<1>3. up
  BY <1>1, ConnType DEF IInv, Down, Waiting
<1>4. ~conn[c].touched => /\ ~Busy(conn[c].name) /\ conn[c].name \notin broken /\ conn[c].info
                          /\ conn[c].announced = disk[conn[c].name].len
                          /\ conn[c].sent <= conn[c].announced
  BY <1>1 DEF IInv, Untouched, UntouchedTransfer
<1>5. CASE conn' = [conn EXCEPT ![c].phase = "sending"]
  <2> DEFINE r == [conn[c] EXCEPT !.phase = "sending"]
  <2>1. conn' = [conn EXCEPT ![c] = r]
    BY <1>5
  <2>2. /\ r \in Active
        /\ r.phase = "sending" /\ r.name = conn[c].name /\ r.touched = conn[c].touched
        /\ r.announced = conn[c].announced /\ r.sent = conn[c].sent /\ r.vers = {}
    BY <1>1, <1>2 DEF Active
  <2> HIDE DEF r
  <2> QED
    BY <1>1, <1>2, <1>3, <1>4, <2>1, <2>2, ConnStep DEF Transfers
<1>6. ASSUME ~conn[c].info, NEW n \in Lengths, NEW vs \in SUBSET Versions,
             conn' = [conn EXCEPT ![c].phase = "ended", ![c].sent = n, ![c].vers = vs]
      PROVE  IInv'
  <2> DEFINE r == [conn[c] EXCEPT !.phase = "ended", !.sent = n, !.vers = vs]
  <2>1. conn' = [conn EXCEPT ![c] = r]
    BY <1>6
  <2>2. /\ r \in Active
        /\ r.phase = "ended" /\ r.name = conn[c].name /\ r.touched = conn[c].touched
    BY <1>1, <1>6 DEF Active
  <2>3. r.touched
    BY <1>4, <1>6, <2>2
  <2> HIDE DEF r
  <2> QED
    BY <1>1, <1>2, <1>3, <2>1, <2>2, <2>3, ConnStep DEF Transfers
<1> QED
  BY <1>5, <1>6 DEF OpenFile

LEMMA SendChunkStep ==
  ASSUME IInv, NEW c \in Conns, SendChunk(c)
  PROVE  IInv'
<1> DEFINE r == [conn[c] EXCEPT !.sent = @ + 1, !.vers = @ \cup {disk[conn[c].name].ver}]
<1>1. /\ conn[c].phase = "sending" /\ conn[c] \in Active /\ conn[c].name \in Names
      /\ conn[c].sent \in Nat /\ conn[c].announced \in Nat
      /\ UNCHANGED <<up, disk, tree, dl, broken, partial>>
      /\ ~(conn[c].sent >= disk[conn[c].name].len)
  BY ConnType DEF IInv, SendChunk, AtEnd
<1>2. conn' = [conn EXCEPT ![c] = r]
  BY DEF SendChunk
<1>3. tree[conn[c].name] # None /\ disk[conn[c].name] \in Contents
  BY <1>1 DEF IInv, Present, Listed, TypeOK
<1>4. /\ disk[conn[c].name].len \in Lengths /\ disk[conn[c].name].len \in Nat
      /\ disk[conn[c].name].ver \in Versions
  BY <1>3, LengthFacts DEF Contents
<1>5. conn[c].sent + 1 \in Lengths
  BY <1>1, <1>4, NextLength
<1>6. /\ r \in Active
      /\ r.phase = "sending" /\ r.name = conn[c].name /\ r.touched = conn[c].touched
      /\ r.announced = conn[c].announced /\ r.sent = conn[c].sent + 1
      /\ r.vers = conn[c].vers \cup {disk[conn[c].name].ver}
  BY <1>1, <1>4, <1>5 DEF Active
<1>7. ~r.touched => /\ ~Busy(r.name) /\ r.name \notin broken
                    /\ r.announced = disk[r.name].len /\ r.sent <= r.announced
                    /\ r.vers \subseteq {disk[r.name].ver}
  BY <1>1, <1>4, <1>6 DEF IInv, Untouched, UntouchedTransfer
<1>8. up
  BY <1>1, ConnType DEF IInv, Down, Waiting
<1> HIDE DEF r
<1> QED
  BY <1>1, <1>2, <1>3, <1>6, <1>7, <1>8, ConnStep DEF Transfers

LEMMA EndTransferStep ==
  ASSUME IInv, NEW c \in Conns, EndTransfer(c)
  PROVE  IInv'
<1> DEFINE r == [conn[c] EXCEPT !.phase = "ended"]
<1>1. /\ conn[c].phase = "sending" /\ conn[c] \in Active /\ conn[c].name \in Names
      /\ conn[c].sent \in Nat /\ conn[c].announced \in Nat
      /\ UNCHANGED <<up, disk, tree, dl, broken, partial>>
      /\ conn[c].sent >= disk[conn[c].name].len
  BY ConnType DEF IInv, EndTransfer, AtEnd
<1>2. conn' = [conn EXCEPT ![c] = r]
  BY DEF EndTransfer
<1>3. tree[conn[c].name] # None
  BY <1>1 DEF IInv, Present
<1>4. /\ r \in Active
      /\ r.phase = "ended" /\ r.name = conn[c].name /\ r.touched = conn[c].touched
      /\ r.announced = conn[c].announced /\ r.sent = conn[c].sent /\ r.vers = conn[c].vers
  BY <1>1 DEF Active
<1>5. ~r.touched => /\ ~Busy(r.name) /\ r.name \notin broken
                    /\ r.announced = disk[r.name].len /\ r.sent = r.announced
                    /\ r.vers \subseteq {disk[r.name].ver}
  BY <1>1, <1>4 DEF IInv, Untouched, UntouchedTransfer
<1>6. up
  BY <1>1, ConnType DEF IInv, Down, Waiting
<1> HIDE DEF r
<1> QED
  BY <1>1, <1>2, <1>3, <1>4, <1>5, <1>6, ConnStep DEF Transfers

LEMMA DisconnectStep ==
  ASSUME IInv, NEW c \in Conns, Disconnect(c)
  PROVE  IInv'
<1>1. /\ conn' = [conn EXCEPT ![c] = Waiting]
      /\ UNCHANGED <<up, disk, tree, dl, broken, partial>>
  BY DEF Disconnect
<1>2. Waiting \in Transfers /\ Waiting.phase = "waiting"
  BY DEF Transfers, Waiting
<1> QED
  BY <1>1, <1>2, ConnStep

-----------------------------------------------------------------------------
(* The invariant and what follows from it. *)

LEMMA NextInvariant == IInv /\ [Next]_vars => IInv'
<1> SUFFICES ASSUME IInv, [Next]_vars PROVE IInv'
  OBVIOUS
<1>1. CASE UNCHANGED vars
  BY <1>1 DEF vars, IInv, TypeOK, DownloadIsOnDisk, Whole, Listed, Present, Untouched,
              UntouchedTransfer, Down, Busy
<1>2. CASE StartNode \/ StopNode
  BY <1>2, StartStep, StopStep
<1>3. CASE Cli
  BY <1>3, StartDownloadStep, WriteChunkStep, FailDownloadStep, CloseFileStep, InsertStep DEF Cli
<1>4. ASSUME NEW c \in Conns, Worker(c) \/ Disconnect(c)
      PROVE  IInv'
  BY <1>4, AnnounceStep, OpenFileStep, SendChunkStep, EndTransferStep, DisconnectStep DEF Worker
<1>5. ASSUME NEW c \in Conns, NEW f \in Names, Search(c, f)
      PROVE  IInv'
  BY <1>5, SearchStep
<1> QED
  BY <1>1, <1>2, <1>3, <1>4, <1>5 DEF Next

LEMMA Invariance == Spec => []IInv
BY InitInvariant, NextInvariant, PTL DEF Spec

(* The disk, the tree, the download and the transfers keep their types: a   *)
(* chunk is never written or sent beyond the size of a version.             *)
THEOREM TypeCorrect == Spec => []TypeOK
<1>1. IInv => TypeOK
  BY DEF IInv
<1> QED
  BY <1>1, Invariance, PTL

(* For any number of files, versions and connections, and any order of      *)
(* downloads, failures and restarts: what is listed is on the disk.         *)
THEOREM ListedThere == Spec => []ListedIsOnDisk
<1>1. IInv => ListedIsOnDisk
  BY DEF IInv, Listed, Whole, ListedIsOnDisk
<1> QED
  BY <1>1, Invariance, PTL

(* A file_info that a worker holds was freed only for a newer download.     *)
THEOREM FreedForNewer == Spec => []FreedOnlyIfReplaced
<1>1. IInv => FreedOnlyIfReplaced
  BY DEF IInv, Untouched, UntouchedTransfer, FreedOnlyIfReplaced
<1> QED
  BY <1>1, Invariance, PTL

(* A transfer of a file that no download has opened sends what it announced.*)
THEOREM ServedWhole == Spec => []ServedAsAnnounced
<1>1. IInv => ServedAsAnnounced
  <2> SUFFICES ASSUME IInv, NEW c \in Conns, conn[c].phase = "ended", ~conn[c].touched
               PROVE  conn[c].sent = conn[c].announced /\ \A x, y \in conn[c].vers : x = y
    BY DEF ServedAsAnnounced
  <2> QED
    BY DEF IInv, Untouched, UntouchedTransfer
<1> QED
  BY <1>1, Invariance, PTL

=============================================================================
