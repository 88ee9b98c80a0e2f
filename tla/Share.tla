-------------------------------- MODULE Share --------------------------------
(***************************************************************************)
(* The files of a node: the directory share/, which outlives the process,  *)
(* the tree of file_infos, which get_files builds from it once             *)
(* (src/files.c), the workers that serve the files (src/server.c) and the  *)
(* cli that downloads into the same directory (src/cli.c).                 *)
(*                                                                         *)
(* The tree is locked for each search and insertion, and nothing else is:  *)
(* download_request uses the file_info it found after the lock is          *)
(* released, and download_file opens a file for writing that others are    *)
(* reading.  A file on disk is so many chunks of some version of it.  Two  *)
(* versions of one file are what two peers share under one name.           *)
(***************************************************************************)
EXTENDS Integers

CONSTANTS
  Names,      \* names of files
  Versions,   \* contents a file of some name may have
  SizeOf,     \* the size of each in chunks
  Conns,      \* connections of clients, each asking for one file
  None        \* no file

ASSUME ShareAssumption ==
  /\ SizeOf \in [Versions -> Nat]
  /\ None \notin Names \cup Versions \cup Nat
  /\ None \notin [ver : Versions, len : Nat]

VARIABLES
  up,        \* the process runs
  disk,      \* the content of each file in share/
  tree,      \* srv_info->files: the size in the file_info of each file
  dl,        \* what download_file is doing
  conn,      \* what download_request and file_transfer are doing
  broken,    \* files a download of which has failed since the start
  partial    \* those of which one was not complete when the node stopped

vars == <<up, disk, tree, dl, conn, broken, partial>>

Lengths == UNION {0..SizeOf[v] : v \in Versions}

Contents == [ver : Versions, len : Lengths]

Idle == [phase |-> "idle", name |-> None, ver |-> None, got |-> 0]

Running == [phase : {"receiving", "received"}, name : Names, ver : Versions, got : Lengths]

Downloads == {Idle} \cup Running

(* info says whether the file_info found is still allocated; touched, that  *)
(* the file has been, or is, open for writing, or what an earlier download  *)
(* that failed has left of it; vers are the versions sent.                  *)
Waiting == [phase |-> "waiting", name |-> None, info |-> FALSE, touched |-> FALSE,
            announced |-> 0, sent |-> 0, vers |-> {}]

Active ==
  [phase : {"found", "answered", "sending", "ended"}, name : Names, info : BOOLEAN, touched : BOOLEAN,
   announced : Lengths, sent : Lengths, vers : SUBSET Versions]

Transfers == {Waiting} \cup Active

Busy(f) == dl.name = f

TypeOK ==
  /\ up \in BOOLEAN
  /\ disk \in [Names -> Contents \cup {None}]
  /\ tree \in [Names -> Lengths \cup {None}]
  /\ dl \in Downloads
  /\ conn \in [Conns -> Transfers]
  /\ broken \subseteq Names /\ partial \subseteq Names

(* The files the user has put into share/ are whole. *)
Init ==
  /\ up = FALSE
  /\ disk \in [Names -> {[ver |-> v, len |-> SizeOf[v]] : v \in Versions} \cup {None}]
  /\ tree = [f \in Names |-> None]
  /\ dl = Idle
  /\ conn = [c \in Conns |-> Waiting]
  /\ broken = {} /\ partial = {}

-----------------------------------------------------------------------------
(* Start and stop. *)

(* get_files: readdir gives every file, and one whose stat fails is left    *)
(* out.  The size of a file is what is there of it.                         *)
StartNode ==
  /\ ~up
  /\ up' = TRUE
  /\ \E seen \in SUBSET {f \in Names : disk[f] # None} :
       tree' = [f \in Names |-> IF f \in seen THEN disk[f].len ELSE None]
  /\ UNCHANGED <<disk, dl, conn, broken, partial>>

(* The process ends, by a signal or a failure, between any two steps. *)
StopNode ==
  /\ up
  /\ up' = FALSE
  /\ tree' = [f \in Names |-> None]
  /\ dl' = Idle
  /\ conn' = [c \in Conns |-> Waiting]
  /\ partial' = partial \cup broken \cup {f \in Names : Busy(f) /\ dl.phase = "receiving"}
  /\ broken' = {}
  /\ UNCHANGED disk

-----------------------------------------------------------------------------
(* download_file of the cli, once the size has arrived. *)

(* The transfers of f, as its file is opened for writing. *)
Touch(f) == [c \in Conns |-> IF conn[c].name = f THEN [conn[c] EXCEPT !.touched = TRUE] ELSE conn[c]]

(* fopen with "wb" *)
Opened(f, v) == [ver |-> v, len |-> 0]

StartDownload(f, v) ==
  /\ up /\ dl = Idle
  /\ disk' = [disk EXCEPT ![f] = Opened(f, v)]
  /\ dl' = [phase |-> "receiving", name |-> f, ver |-> v, got |-> 0]
  /\ conn' = Touch(f)
  /\ UNCHANGED <<up, tree, broken, partial>>

(* Mutant: the loop is left one chunk late. *)
MoreToComeLate == dl.got <= SizeOf[dl.ver]

(* total < file_size *)
MoreToCome == dl.got < SizeOf[dl.ver]

(* A chunk arrives and is written at the end of what is there of it. *)
WriteChunk ==
  /\ dl.phase = "receiving" /\ MoreToCome
  /\ disk' = [disk EXCEPT ![dl.name].len = IF dl.got + 1 > @ THEN dl.got + 1 ELSE @]
  /\ dl' = [dl EXCEPT !.got = @ + 1]
  /\ UNCHANGED <<up, tree, conn, broken, partial>>

(* A chunk does not arrive: the file stays as it is, and its file_info, if  *)
(* there is one, too.                                                       *)
FailDownload ==
  /\ dl.phase = "receiving" /\ MoreToCome
  /\ dl' = Idle
  /\ broken' = broken \cup {dl.name}
  /\ UNCHANGED <<up, disk, tree, conn, partial>>

CloseFile ==
  /\ dl.phase = "receiving" /\ ~MoreToCome
  /\ dl' = [dl EXCEPT !.phase = "received"]
  /\ UNCHANGED <<up, disk, tree, conn, broken, partial>>

(* Mutant: a file that is in the tree keeps its file_info. *)
InsertOnce ==
  /\ dl.phase = "received"
  /\ tree' = IF tree[dl.name] = None THEN [tree EXCEPT ![dl.name] = dl.got] ELSE tree
  /\ dl' = Idle
  /\ broken' = broken \ {dl.name} /\ partial' = partial \ {dl.name}
  /\ UNCHANGED <<up, disk, conn>>

(* Mutant: an insertion frees what a rotation moves. *)
FreedAny(f) == Names

(* insert_aux frees the file_info of the file that is inserted. *)
Freed(f) == {f}

(* concurrent_avl_insert: the file_info of a file that is in the tree is    *)
(* freed for the new one.                                                   *)
Insert ==
  /\ dl.phase = "received"
  /\ tree' = [tree EXCEPT ![dl.name] = dl.got]
  /\ conn' = [c \in Conns |-> IF conn[c].name \in Freed(dl.name) THEN [conn[c] EXCEPT !.info = FALSE] ELSE conn[c]]
  /\ dl' = Idle
  /\ broken' = broken \ {dl.name} /\ partial' = partial \ {dl.name}
  /\ UNCHANGED <<up, disk>>

-----------------------------------------------------------------------------
(* The workers. *)

(* A transfer of f as its search has found it. *)
Found(f) == [phase |-> "found", name |-> f, info |-> TRUE, touched |-> Busy(f) \/ f \in broken,
             announced |-> 0, sent |-> 0, vers |-> {}]

(* The search of download_request. *)
Search(c, f) ==
  /\ up /\ conn[c] = Waiting /\ tree[f] # None
  /\ conn' = [conn EXCEPT ![c] = Found(f)]
  /\ UNCHANGED <<up, disk, tree, dl, broken, partial>>

(* file->size: if the file_info has been freed, whatever is there. *)
InfoSizes(c) == IF conn[c].info THEN {tree[conn[c].name]} ELSE Lengths

(* The size is sent. *)
Announce(c) ==
  /\ conn[c].phase = "found"
  /\ \E n \in InfoSizes(c) :
       conn' = [conn EXCEPT ![c].phase = "answered", ![c].announced = n]
  /\ UNCHANGED <<up, disk, tree, dl, broken, partial>>

(* file->path is copied and opened.  Of a file_info that was freed before   *)
(* it may be anything: some other file is sent, or none.                    *)
OpenFile(c) ==
  /\ conn[c].phase = "answered"
  /\ \/ conn' = [conn EXCEPT ![c].phase = "sending"]
     \/ /\ ~conn[c].info
        /\ \E n \in Lengths, vs \in SUBSET Versions :
             conn' = [conn EXCEPT ![c].phase = "ended", ![c].sent = n, ![c].vers = vs]
  /\ UNCHANGED <<up, disk, tree, dl, broken, partial>>

(* Mutant: the last chunk is taken for the end. *)
AtEndEarly(c) == conn[c].sent + 1 >= disk[conn[c].name].len

(* read returns 0: all of the file as it is now has been read. *)
AtEnd(c) == conn[c].sent >= disk[conn[c].name].len

(* Mutant: a chunk is sent again and again. *)
SendFirstChunk(c) ==
  /\ conn[c].phase = "sending" /\ ~AtEnd(c)
  /\ conn' = [conn EXCEPT ![c].sent = 1, ![c].vers = @ \cup {disk[conn[c].name].ver}]
  /\ UNCHANGED <<up, disk, tree, dl, broken, partial>>

(* file_transfer, with a chunk that is sent as a whole (see FileTransfer).  *)
SendChunk(c) ==
  /\ conn[c].phase = "sending" /\ ~AtEnd(c)
  /\ conn' = [conn EXCEPT ![c].sent = @ + 1, ![c].vers = @ \cup {disk[conn[c].name].ver}]
  /\ UNCHANGED <<up, disk, tree, dl, broken, partial>>

EndTransfer(c) ==
  /\ conn[c].phase = "sending" /\ AtEnd(c)
  /\ conn' = [conn EXCEPT ![c].phase = "ended"]
  /\ UNCHANGED <<up, disk, tree, dl, broken, partial>>

(* The client has what it asked for, or gave up, and another takes its place.*)
Disconnect(c) ==
  /\ conn[c].phase \in {"sending", "ended"}
  /\ conn' = [conn EXCEPT ![c] = Waiting]
  /\ UNCHANGED <<up, disk, tree, dl, broken, partial>>

-----------------------------------------------------------------------------
Cli == (\E f \in Names, v \in Versions : StartDownload(f, v))
         \/ WriteChunk \/ FailDownload \/ CloseFile \/ Insert

Worker(c) == Announce(c) \/ OpenFile(c) \/ SendChunk(c) \/ EndTransfer(c)

Next ==
  \/ StartNode \/ StopNode \/ Cli
  \/ \E c \in Conns : Worker(c) \/ Disconnect(c) \/ \E f \in Names : Search(c, f)

Spec == Init /\ [][Next]_vars

FairSpec == Spec /\ \A c \in Conns : WF_vars(Worker(c))

-----------------------------------------------------------------------------
(* Properties. *)

(* A file that is listed has the size its file_info says, unless it is      *)
(* being downloaded again or that has failed: also after a restart, in      *)
(* which a partial file is listed with the size it has.  It is a whole      *)
(* version of it unless a download of it failed, in this run of the node or *)
(* an earlier one (cli.c:204-221, files.c:57-66).                           *)
ListedIsOnDisk ==
  \A f \in Names : tree[f] # None /\ ~Busy(f) /\ f \notin broken =>
    /\ disk[f] # None /\ tree[f] = disk[f].len
    /\ f \notin partial => disk[f].len = SizeOf[disk[f].ver]

(* download_request uses a file_info after it was freed only if the file    *)
(* was downloaded again meanwhile: for its size (server.c:93-106) and for   *)
(* its path (110).                                                          *)
FreedOnlyIfReplaced ==
  \A c \in Conns : conn[c].phase \in {"found", "answered"} /\ ~conn[c].info => conn[c].touched

(* A transfer that ends has sent as many bytes as were announced, all of    *)
(* one version, unless the cli wrote to the file meanwhile: nothing is      *)
(* missing, and nothing is left for the next answer (server.c:100-122).     *)
ServedAsAnnounced ==
  \A c \in Conns : conn[c].phase = "ended" /\ ~conn[c].touched =>
    conn[c].sent = conn[c].announced /\ \A x, y \in conn[c].vers : x = y

(* download_request uses a file_info while it is in the tree                *)
(* (avl_concurrent.h:8, server.c:106-110).                                  *)
InfoAllocated == \A c \in Conns : conn[c].phase \in {"found", "answered"} => conn[c].info

(* A transfer that ends has sent as many bytes as were announced            *)
(* (server.c:100).                                                          *)
SentAsAnnounced == \A c \in Conns : conn[c].phase = "ended" => conn[c].sent = conn[c].announced

(* A client that waits gets what was announced, or is gone, or the node is. *)
AnnouncedArrives ==
  \A c \in Conns :
    conn[c].phase \in {"answered", "sending"} ~>
      conn[c] = Waiting \/ conn[c].touched \/ conn[c].sent = conn[c].announced

=============================================================================
