----------------------------- MODULE TftpServer -----------------------------
(* The TFTP server as a set of processes (src/MP3/src/tftpserver.c): the      *)
(* dispatcher of main takes request datagrams and forks a child for each, the *)
(* children read and write the files of one directory through stdio, and      *)
(* SIGCHLD lets the dispatcher reap them. What a child says to its client is  *)
(* TftpRead and TftpWrite; here it opens its file, goes through the blocks    *)
(* one after the other, and ends.                                             *)
EXTENDS Integers, Sequences, FiniteSets, FiniteSetsExt

CONSTANTS
  Requests,     \* request datagrams: records [id, op, name]; an op that is BAD
                \* stands for a frame that is too short or has no such opcode
  MaxChildren,  \* the process table: at most this many children at a time
  MaxCopies,    \* transfer -> times the network delivers its datagram
  FileLen,      \* blocks of an upload
  None          \* not a request

ASSUME ServerAssumption ==
  /\ \A r \in Requests : r.op \in {"RRQ", "WRQ", "BAD"}
  /\ MaxCopies \in [Requests -> Nat] /\ FileLen \in Nat \ {0} /\ MaxChildren \in Nat \ {0}
  /\ None \notin Requests

VARIABLES
  mainPc,       \* the dispatcher: "recv" or, in handle_zombie, "handler"
  sigchld,      \* a SIGCHLD is pending; a second one is not remembered
  stopped,      \* history: a child has been stopped or continued
  copies,       \* deliveries of each datagram so far
  answered,     \* requests whose client has heard of a child
  child,        \* the processes
  disk,         \* the files: sequences of blocks
  leftBy        \* the upload a file is the whole of, if one child wrote it alone,
                \* without a failure of the disk, and has ended

vars == <<mainPc, sigchld, stopped, copies, answered, child, disk, leftBy>>
files == <<disk, leftBy>>

Transfers == {r \in Requests : r.op # "BAD"}
Names == {r.name : r \in Requests}

(* Process ids. As any that is free will do, a child has one of those that    *)
(* are set aside for its request, one for each delivery: the first of them.   *)
PidsOf(r) == {r} \X (1 .. MaxCopies[r])
Pids == UNION {PidsOf(r) : r \in Transfers}

(* Block i of an upload, a block of an older file, and one that was skipped *)
Block(r, i) == <<r, i>>
OldBlock == <<0>>
Hole == <<>>
Blocks == {Block(r, i) : r \in Transfers, i \in 1 .. FileLen} \cup {OldBlock, Hole}

(* buffer: of an upload, the blocks in stdio's buffer; of a download, what is *)
(* read so far. pos: blocks the file has been read or written to. at_end: the *)
(* whole file is read, or the last block received. The others are history:    *)
(* lost: blocks of an upload that a failed write has dropped;                 *)
(* attached: the client of the request talks to this child, and no other;     *)
(* alone: no other child has had the file open for writing meanwhile;         *)
(* expects: leftBy of the file when it was opened.                            *)
Children == [state : {"starting", "serving"}, request : Transfers,
             pos : 0 .. FileLen, buffer : Seq(Blocks), at_end : BOOLEAN,
             lost : 0 .. FileLen, attached : BOOLEAN, alone : BOOLEAN,
             expects : Transfers \cup {None}]

NoChild == [state |-> "free"]
Zombie == [state |-> "zombie"]

NewChild(r) == [state |-> "starting", request |-> r, pos |-> 0, buffer |-> <<>>,
                at_end |-> FALSE, lost |-> 0, attached |-> FALSE, alone |-> FALSE,
                expects |-> None]

Init ==
  /\ mainPc = "recv" /\ sigchld = FALSE /\ stopped = FALSE
  /\ copies = [r \in Requests |-> 0]
  /\ answered = {}
  /\ child = [s \in Pids |-> NoChild]
  /\ disk = [n \in Names |-> <<OldBlock>>]
  /\ leftBy = [n \in Names |-> None]

------------------------------------------------------------------------------
(* The dispatcher. *)

IsTransfer(r) == r.op \in {"RRQ", "WRQ"}

Free == {s \in Pids : child[s].state = "free"}
NextPid(r) == {s \in PidsOf(r) \cap Free : \A t \in PidsOf(r) \cap Free : s[2] <= t[2]}
HasRoom == Cardinality(Pids \ Free) < MaxChildren
Zombies == {s \in Pids : child[s].state = "zombie"}
Serves(s, op) == child[s].state = "serving" /\ child[s].request.op = op

(* A request is taken from the socket. A transfer gets a child, unless fork   *)
(* fails: the code does not look, and the request is forgotten. Anything else *)
(* is answered with an ERROR, any number of times.                            *)
TakeRequest(r) ==
  /\ mainPc = "recv" /\ copies[r] < MaxCopies[r]
  /\ copies' = IF IsTransfer(r) THEN [copies EXCEPT ![r] = @ + 1] ELSE copies
  /\ IF IsTransfer(r) /\ HasRoom
       THEN \E s \in NextPid(r) : child' = [child EXCEPT ![s] = NewChild(r)]
       ELSE UNCHANGED child
  /\ UNCHANGED <<mainPc, sigchld, stopped, answered, files>>

(* The signal interrupts the dispatcher, which waits for one child in the     *)
(* handler. wait blocks as long as no child has ended, and returns at once    *)
(* (ECHILD) when there is none at all.                                        *)
EnterHandler ==
  /\ mainPc = "recv" /\ sigchld
  /\ mainPc' = "handler" /\ sigchld' = FALSE
  /\ UNCHANGED <<stopped, copies, answered, child, files>>

ReapTwo == {{s, t} : s, t \in Zombies}  \* variant: it waits twice
ReapNone == {{}}                       \* variant: it does not wait
Reap == IF Free = Pids THEN {{}} ELSE {{s} : s \in Zombies}

WaitForChild ==
  /\ mainPc = "handler"
  /\ \E z \in Reap :
       child' = [s \in Pids |-> IF s \in z THEN NoChild ELSE child[s]]
  /\ mainPc' = "recv"
  /\ UNCHANGED <<sigchld, stopped, copies, answered, files>>

------------------------------------------------------------------------------
(* The children. *)

Writers(n) == {s \in Pids : Serves(s, "WRQ") /\ child[s].request.name = n}
Users(n) == {s \in Pids : child[s].state = "serving" /\ child[s].request.name = n}

(* fopen: "w" empties the file. *)
OpenedKeeps(op, f) == f                \* variant: an existing file is kept
Opened(op, f) == IF op = "WRQ" THEN <<>> ELSE f

(* The child opens its file and answers. A client that has already heard of   *)
(* another child for the same request refuses this one's answer. (A file that *)
(* does not exist, or cannot be opened, is End.)                              *)
Open(s) ==
  /\ child[s].state = "starting"
  /\ LET r == child[s].request
         writes == r.op = "WRQ"
     IN /\ disk' = [disk EXCEPT ![r.name] = Opened(r.op, @)]
        /\ leftBy' = IF writes THEN [leftBy EXCEPT ![r.name] = None] ELSE leftBy
        /\ answered' = answered \cup {r}
        /\ child' = [t \in Pids |->
             IF t = s
               THEN [child[s] EXCEPT !.state = "serving", !.attached = r \notin answered,
                                     !.alone = Writers(r.name) = {},
                                     !.expects = leftBy[r.name]]
             ELSE IF writes /\ t \in Users(r.name)
               THEN [child[t] EXCEPT !.alone = FALSE]
             ELSE child[t]]
  /\ UNCHANGED <<mainPc, sigchld, stopped, copies>>

(* An upload: fwrite takes the next block, which is acknowledged before it    *)
(* is in the file; ...                                                        *)
Received(s) == child[s].pos + child[s].lost + Len(child[s].buffer)

TakeBlock(s) ==
  /\ Serves(s, "WRQ") /\ child[s].attached /\ ~child[s].at_end
  /\ LET k == Received(s) + 1
     IN child' = [child EXCEPT ![s].buffer = Append(@, Block(child[s].request, k)),
                               ![s].at_end = k = FileLen]
  /\ UNCHANGED <<mainPc, sigchld, stopped, copies, answered, files>>

(* ... stdio writes the first n blocks of its buffer. A file that has become  *)
(* shorter meanwhile gets a hole, unless there is nothing to write.           *)
Reach(f, at, blocks) ==
  IF blocks = <<>> THEN Len(f) ELSE Max({Len(f), at + Len(blocks)})

Put(f, at, blocks) ==
  [i \in 1 .. Reach(f, at, blocks) |->
     IF i \in at + 1 .. at + Len(blocks) THEN blocks[i - at]
     ELSE IF i <= Len(f) THEN f[i] ELSE Hole]

Written(s, n) ==
  [disk EXCEPT ![child[s].request.name] = Put(@, child[s].pos, SubSeq(child[s].buffer, 1, n))]

Flush(s) ==
  /\ Serves(s, "WRQ")
  /\ \E n \in 1 .. Len(child[s].buffer) :
       /\ disk' = Written(s, n)
       /\ child' = [child EXCEPT ![s].pos = @ + n,
                                 ![s].buffer = SubSeq(@, n + 1, Len(@))]
  /\ UNCHANGED <<mainPc, sigchld, stopped, copies, answered, leftBy>>

(* The disk may be full, or fail: then only the first n blocks, or none, are  *)
(* written, and stdio drops the rest of its buffer. Neither the return value  *)
(* of fwrite, which is never negative, nor that of fclose tells the child.    *)
FlushFails(s) ==
  /\ Serves(s, "WRQ")
  /\ \E n \in 0 .. Len(child[s].buffer) - 1 :
       /\ disk' = Written(s, n)
       /\ child' = [child EXCEPT ![s].pos = @ + n,
                                 ![s].lost = @ + Len(child[s].buffer) - n,
                                 ![s].buffer = <<>>]
  /\ UNCHANGED <<mainPc, sigchld, stopped, copies, answered, leftBy>>

(* A download: stdio reads some blocks ahead. Reading at or behind the end    *)
(* of the file ends it, whatever the file was when it was opened.             *)
ReadAhead(s) ==
  /\ Serves(s, "RRQ") /\ child[s].attached /\ ~child[s].at_end
  /\ LET f == disk[child[s].request.name]
         p == child[s].pos
     IN IF p >= Len(f)
          THEN child' = [child EXCEPT ![s].at_end = TRUE]
          ELSE \E n \in 1 .. Len(f) - p :
                 child' = [child EXCEPT ![s].pos = p + n,
                                        ![s].buffer = @ \o SubSeq(f, p + 1, p + n)]
  /\ UNCHANGED <<mainPc, sigchld, stopped, copies, answered, files>>

(* The end of a transfer, complete or not, and of a request that is refused.  *)
(* exit flushes what is left in the buffer, or, if the disk fails, the first  *)
(* n blocks of it.                                                            *)
FlushedNothing(s, n) == disk           \* variant: _exit for exit, no fclose
Flushed(s, n) == IF Serves(s, "WRQ") THEN Written(s, n) ELSE disk

IsWhole(c, n) == c.alone /\ c.at_end /\ c.lost = 0 /\ n = Len(c.buffer)

End(s) ==
  /\ child[s].state \in {"starting", "serving"}
  /\ \E n \in 0 .. Len(child[s].buffer) :
       /\ disk' = Flushed(s, n)
       /\ leftBy' = IF Serves(s, "WRQ") /\ IsWhole(child[s], n)
                      THEN [leftBy EXCEPT ![child[s].request.name] = child[s].request]
                      ELSE leftBy
  /\ child' = [child EXCEPT ![s] = Zombie]
  /\ sigchld' = TRUE
  /\ UNCHANGED <<mainPc, stopped, copies, answered>>

(* Somebody stops a child, or lets it go on. The dispatcher gets SIGCHLD for  *)
(* that too: signal() sets no SA_NOCLDSTOP.                                   *)
StopOrContinue(s) ==
  /\ child[s].state \in {"starting", "serving"}
  /\ sigchld' = TRUE /\ stopped' = TRUE
  /\ UNCHANGED <<mainPc, copies, answered, child, files>>

------------------------------------------------------------------------------
Dispatch == EnterHandler \/ WaitForChild

ChildStep(s) ==
  Open(s) \/ TakeBlock(s) \/ Flush(s) \/ FlushFails(s) \/ ReadAhead(s) \/ End(s)

Next ==
  \/ \E r \in Requests : TakeRequest(r)
  \/ Dispatch
  \/ \E s \in Pids : ChildStep(s) \/ StopOrContinue(s)

(* A pending signal is delivered, a process that can run does, and every      *)
(* child ends (TftpRead!Terminates, TftpWrite!Terminates): one that is        *)
(* stopped is let go on. Requests may stop.                                   *)
Spec ==
  /\ Init /\ [][Next]_vars
  /\ WF_vars(Dispatch)
  /\ \A s \in Pids : WF_vars(ChildStep(s))

------------------------------------------------------------------------------
(* Properties. *)

(* The variables keep their types. *)
TypeOK ==
  /\ mainPc \in {"recv", "handler"} /\ sigchld \in BOOLEAN /\ stopped \in BOOLEAN
  /\ copies \in [Requests -> Nat] /\ \A r \in Requests : copies[r] <= MaxCopies[r]
  /\ answered \subseteq Transfers
  /\ child \in [Pids -> Children \cup {NoChild, Zombie}]
  /\ disk \in [Names -> Seq(Blocks)] /\ \A n \in Names : Len(disk[n]) <= FileLen
  /\ leftBy \in [Names -> Transfers \cup {None}]

(* handle_zombie never keeps the dispatcher from its socket: although signals *)
(* are merged, there is a child to reap whenever the handler runs. (A child   *)
(* that is stopped, or goes on, signals as well and leaves nothing to reap.)  *)
HandlerNeverBlocks == mainPc = "handler" /\ ~stopped => Zombies # {}

(* Children left behind by merged signals never fill the process table for    *)
(* good: however processes are scheduled, stopped and let go on, a request    *)
(* finds room for a child again and again, as long as children end.           *)
AlwaysFreeAgain == []<>HasRoom

(* The file of an upload that no other child disturbs is, at every moment,    *)
(* an initial part of what the child has received, without anything of an     *)
(* older file; what is missing is in its buffer, as long as the disk takes    *)
(* what stdio writes.                                                         *)
Part(r, n) == [i \in 1 .. n |-> Block(r, i)]

UndisturbedUpload ==
  \A s \in Pids : Serves(s, "WRQ") /\ child[s].alone /\ child[s].lost = 0 =>
    disk[child[s].request.name] \o child[s].buffer = Part(child[s].request, Received(s))

(* A download that starts when the child of a complete upload has ended (not  *)
(* when its client has got the last ACK) brings the whole of that upload,     *)
(* unless the disk has failed that child, or a child opens the file for       *)
(* writing meanwhile.                                                         *)
DownloadIsTheUpload ==
  \A s \in Pids :
    Serves(s, "RRQ") /\ child[s].alone /\ child[s].expects # None /\ child[s].at_end =>
      child[s].buffer = Part(child[s].expects, FileLen)
=============================================================================
