-------------------------------- MODULE Echo --------------------------------
(* The echo client and server (src/MP1/ser_cli/src): readLine and writen over *)
(* a byte stream that is read and written in pieces of any size, the client   *)
(* that sends a line and waits for it to come back, and the server that forks *)
(* a child for each connection. Clients may be killed, and the server stopped,*)
(* at any moment.                                                             *)
EXTENDS Integers, Sequences, FiniteSets, SequencesExt, FiniteSetsExt

CONSTANTS
  Clients,
  Chars,        \* what a text is made of, among it newline and NUL
  LF, NUL,
  Texts,        \* per client, the standard inputs it may have
  BUFFER_SIZE,
  MaxFds,       \* connections the server's parent can hold open
  MaxProcs,     \* children, alive or not, that the process table can hold
  Faults        \* "kill" of a client, "stop" of the server

ASSUME EchoAssumption ==
  /\ IsFiniteSet(Clients) /\ {LF, NUL} \subseteq Chars /\ LF # NUL
  /\ DOMAIN Texts = Clients /\ \A c \in Clients : Texts[c] \subseteq Seq(Chars)
  /\ BUFFER_SIZE \in Nat /\ BUFFER_SIZE > 1
  /\ MaxFds \in Nat /\ MaxProcs \in Nat
  /\ Faults \subseteq {"kill", "stop"}

VARIABLES
  client,       \* a place in the client's main; "exit" when the process has ended
  text,         \* what is left of its standard input
  send_buf, recv_buf,
  child,        \* a place in handle_client; "none" before accept, "lost" when
                \* fork has failed, "zombie" at the end, as nobody waits for it
  unsent,       \* per end of the connection, what writen has still to write
  taken,        \* per end, what is read of the socket and not yet returned as a line
  stream,       \* per end, the bytes that can be read there
  far,          \* per end, what it can tell of the other one
  backlog,      \* connections that wait to be accepted
  up            \* the server's processes run

vars == <<client, text, send_buf, recv_buf, child, unsent, taken, stream, far, backlog, up>>

Ends == {"client", "server"}
Other(e) == IF e = "client" THEN "server" ELSE "client"

(* "closed": the other end is closed, read returns 0 behind the last byte.    *)
(* "broken": a write to it was answered with RST, the next raises SIGPIPE.    *)
(* "reset": it was closed with bytes unread; read and write return -1.        *)
FarStates == {"open", "closed", "broken", "reset"}

Init ==
  /\ client = [c \in Clients |-> "new"]
  /\ text \in {t \in [Clients -> UNION Range(Texts)] : \A c \in Clients : t[c] \in Texts[c]}
  /\ send_buf = [c \in Clients |-> <<>>] /\ recv_buf = [c \in Clients |-> <<>>]
  /\ child = [c \in Clients |-> "none"]
  /\ unsent = [c \in Clients |-> [e \in Ends |-> <<>>]]
  /\ taken = [c \in Clients |-> [e \in Ends |-> <<>>]]
  /\ stream = [c \in Clients |-> [e \in Ends |-> <<>>]]
  /\ far = [c \in Clients |-> [e \in Ends |-> "open"]]
  /\ backlog = <<>> /\ up = TRUE

------------------------------------------------------------------------------
(* Texts. *)

First(s, n) == SubSeq(s, 1, n)
Behind(s, n) == SubSeq(s, n + 1, Len(s))
Places(s, char) == {i \in 1 .. Len(s) : s[i] = char}

(* strlen looks for the first NUL, and a buffer ends with one. *)
CString(s) == IF Places(s, NUL) = {} THEN s ELSE First(s, Min(Places(s, NUL)) - 1)

Limit == BUFFER_SIZE - 1

(* The bound of readLine's loop. *)
LineLimitLess == Limit - 1             \* variant: room for the NUL is kept twice
LineLimitOver == BUFFER_SIZE           \* variant: <= for < in the loop
LineLimit == Limit

(* Up to a newline, and no more than the limit *)
LineLength(s, limit) == Min(Places(s, LF) \cup {limit, Len(s)})

(* readLine returns when what it has is a line: up to newline, or full. *)
HasLineTerminated(s) == Places(s, LF) # {}   \* variant: the bound is forgotten
HasLine(s) == Places(s, LF) # {} \/ Len(s) >= LineLimit

Line(s) == First(s, LineLength(s, LineLimit))

(* fgets on what is left of the standard input *)
FgetsWide(s) == First(s, LineLength(s, BUFFER_SIZE))   \* variant: no room for NUL
Fgets(s) == First(s, LineLength(s, Limit))

------------------------------------------------------------------------------
(* writen and my_read, at either end. *)

RestAgain(s, k) == First(s, Len(s) - k)      \* variant: ptr is not advanced
Rest(s, k) == Behind(s, k)

Write(c, e) ==
  /\ far[c][e] \in {"open", "closed"}
  /\ \E k \in 1 .. Len(unsent[c][e]) :
       /\ unsent' = [unsent EXCEPT ![c][e] = Rest(@, k)]
       /\ stream' = IF far[c][e] = "closed" THEN stream
                    ELSE [stream EXCEPT ![c][Other(e)] = @ \o First(unsent[c][e], k)]
  /\ \E f \in {far[c][e]} \cup IF far[c][e] = "closed" THEN {"broken"} ELSE {} :
       far' = [far EXCEPT ![c][e] = f]

WriteFails(c, e) == unsent[c][e] # <<>> /\ far[c][e] \in {"broken", "reset"}

Read(c, e) ==
  /\ ~HasLine(taken[c][e])
  /\ \E k \in 1 .. Min({Len(stream[c][e]), BUFFER_SIZE}) :
       /\ taken' = [taken EXCEPT ![c][e] = @ \o First(stream[c][e], k)]
       /\ stream' = [stream EXCEPT ![c][e] = Behind(@, k)]

NothingToRead(c, e) == ~HasLine(taken[c][e]) /\ stream[c][e] = <<>>

(* The end of the stream cuts a line, which is returned all the same. *)
LastLine(c, e) == NothingToRead(c, e) /\ far[c][e] = "closed" /\ taken[c][e] # <<>>

(* readLine returns a line, ... *)
GetsLine(c, e) ==
  /\ HasLine(taken[c][e]) \/ LastLine(c, e)
  /\ taken' = [taken EXCEPT ![c][e] = Behind(@, Len(Line(@)))]

(* ... or 0 or -1. *)
NoLineOnError(c, e) == NothingToRead(c, e) /\ far[c][e] \in {"broken", "reset"}
                                       \* variant: n < 0 for n <= 0
NoLine(c, e) ==
  /\ NothingToRead(c, e)
  /\ \/ far[c][e] \in {"broken", "reset"}
     \/ far[c][e] = "closed" /\ taken[c][e] = <<>>

(* The process at the other end than e is gone. With bytes that it has not    *)
(* read, TCP resets the connection.                                           *)
FarAfterEnd(c, e) ==
  IF far[c][e] # "open" THEN far[c][e]
  ELSE IF stream[c][Other(e)] # <<>> THEN "reset" ELSE "closed"

------------------------------------------------------------------------------
(* The client. *)

ClientExit(c) ==
  /\ client' = [client EXCEPT ![c] = "exit"]
  /\ far' = [far EXCEPT ![c].server = FarAfterEnd(c, "server")]
  /\ stream' = [stream EXCEPT ![c].client = <<>>]
  /\ UNCHANGED <<text, send_buf, recv_buf, child, unsent, taken, backlog, up>>

Connect(c) ==
  /\ client[c] = "new"
  /\ client' = [client EXCEPT ![c] = IF up THEN "input" ELSE "exit"]
  /\ backlog' = IF up THEN Append(backlog, c) ELSE backlog
  /\ UNCHANGED <<text, send_buf, recv_buf, child, unsent, taken, stream, far, up>>

GetLine(c) ==
  /\ client[c] = "input"
  /\ send_buf' = [send_buf EXCEPT ![c] = CString(Fgets(text[c]))]
  /\ send_buf'[c] # <<>>
  /\ unsent' = [unsent EXCEPT ![c].client = send_buf'[c]]
  /\ text' = [text EXCEPT ![c] = Behind(@, Len(Fgets(@)))]
  /\ client' = [client EXCEPT ![c] = "send"]
  /\ UNCHANGED <<recv_buf, child, taken, stream, far, backlog, up>>

(* The end of the input, or a line that starts with NUL *)
InputEnds(c) ==
  /\ client[c] = "input" /\ CString(Fgets(text[c])) = <<>>
  /\ ClientExit(c)

SendLine(c) ==
  /\ client[c] = "send"
  /\ Write(c, "client")
  /\ client' = [client EXCEPT ![c] = IF unsent'[c].client = <<>> THEN "reply" ELSE @]
  /\ UNCHANGED <<text, send_buf, recv_buf, child, taken, backlog, up>>

SendFails(c) == client[c] = "send" /\ WriteFails(c, "client") /\ ClientExit(c)

ReadReply(c) ==
  /\ client[c] = "reply"
  /\ Read(c, "client")
  /\ UNCHANGED <<client, text, send_buf, recv_buf, child, unsent, far, backlog, up>>

GetReply(c) ==
  /\ client[c] = "reply"
  /\ GetsLine(c, "client")
  /\ recv_buf' = [recv_buf EXCEPT ![c] = Line(taken[c].client)]
  /\ client' = [client EXCEPT ![c] = "input"]
  /\ UNCHANGED <<text, send_buf, child, unsent, stream, far, backlog, up>>

NoReply(c) == client[c] = "reply" /\ NoLine(c, "client") /\ ClientExit(c)

ClientStep(c) ==
  \/ Connect(c) \/ GetLine(c) \/ InputEnds(c) \/ SendLine(c) \/ SendFails(c)
  \/ ReadReply(c) \/ GetReply(c) \/ NoReply(c)

Kill(c) == "kill" \in Faults /\ client[c] \notin {"new", "exit"} /\ ClientExit(c)

------------------------------------------------------------------------------
(* The server. *)

Children == {c \in Clients : child[c] \in {"read", "write", "zombie"}}
Accepted == {c \in Clients : child[c] # "none"}

(* The parent keeps its copy of every connection, so that accept comes to the *)
(* limit of descriptors, and waits for no child, so that fork comes to that   *)
(* of processes. It goes on when either fails.                                *)
CanAccept == Cardinality(Accepted) < MaxFds
CanFork == Cardinality(Children) < MaxProcs

Accept ==
  /\ up /\ backlog # <<>> /\ CanAccept
  /\ backlog' = Tail(backlog)
  /\ child' = [child EXCEPT ![Head(backlog)] = IF CanFork THEN "read" ELSE "lost"]
  /\ UNCHANGED <<client, text, send_buf, recv_buf, unsent, taken, stream, far, up>>

ReadLine(c) ==
  /\ child[c] = "read"
  /\ Read(c, "server")
  /\ UNCHANGED <<client, text, send_buf, recv_buf, child, unsent, far, backlog, up>>

StartEcho(c) ==
  /\ child[c] = "read"
  /\ GetsLine(c, "server")
  /\ unsent' = [unsent EXCEPT ![c].server = CString(Line(taken[c].server))]
  /\ child' = [child EXCEPT ![c] = IF unsent'[c].server = <<>> THEN "read" ELSE "write"]
  /\ UNCHANGED <<client, text, send_buf, recv_buf, stream, far, backlog, up>>

WriteLine(c) ==
  /\ child[c] = "write"
  /\ Write(c, "server")
  /\ child' = [child EXCEPT ![c] = IF unsent'[c].server = <<>> THEN "read" ELSE @]
  /\ UNCHANGED <<client, text, send_buf, recv_buf, taken, backlog, up>>

(* The result of send_data is not looked at; SIGPIPE ends the child. *)
WriteLineFails(c) ==
  /\ child[c] = "write"
  /\ WriteFails(c, "server")
  /\ child' = [child EXCEPT ![c] = IF far[c].server = "reset" THEN "read" ELSE "zombie"]
  /\ far' = [far EXCEPT ![c].server = "broken"]
  /\ unsent' = [unsent EXCEPT ![c].server = <<>>]
  /\ UNCHANGED <<client, text, send_buf, recv_buf, taken, stream, backlog, up>>

(* The connection stays open at this end, as the parent has it. *)
Leave(c) ==
  /\ child[c] = "read"
  /\ NoLine(c, "server")
  /\ child' = [child EXCEPT ![c] = "zombie"]
  /\ UNCHANGED <<client, text, send_buf, recv_buf, unsent, taken, stream, far, backlog, up>>

ChildStep(c) ==
  ReadLine(c) \/ StartEcho(c) \/ WriteLine(c) \/ WriteLineFails(c) \/ Leave(c)

(* Ctrl-C reaches the parent and all its children. Connections that are not   *)
(* yet accepted are reset.                                                    *)
Stop ==
  /\ "stop" \in Faults /\ up
  /\ up' = FALSE /\ backlog' = <<>>
  /\ child' = [c \in Clients |-> IF c \in Children THEN "zombie" ELSE child[c]]
  /\ far' = [c \in Clients |->
       IF client[c] = "new" THEN far[c]
       ELSE [far[c] EXCEPT !.client =
              IF child[c] = "none" THEN "reset" ELSE FarAfterEnd(c, "client")]]
  /\ stream' = [c \in Clients |-> [stream[c] EXCEPT !.server = <<>>]]
  /\ UNCHANGED <<client, text, send_buf, recv_buf, unsent, taken>>

------------------------------------------------------------------------------
Next ==
  \/ \E c \in Clients : ClientStep(c) \/ Kill(c) \/ ChildStep(c)
  \/ Accept \/ Stop

(* Every process runs when it can; the input of a client comes from a file.   *)
Spec ==
  /\ Init /\ [][Next]_vars
  /\ WF_vars(Accept)
  /\ \A c \in Clients : WF_vars(ClientStep(c)) /\ WF_vars(ChildStep(c))

------------------------------------------------------------------------------
(* Properties. *)

(* The variables keep their types; no buffer of BUFFER_SIZE bytes holds more  *)
(* than its characters and a NUL.                                             *)
TypeOK ==
  /\ client \in [Clients -> {"new", "input", "send", "reply", "exit"}]
  /\ child \in [Clients -> {"none", "lost", "read", "write", "zombie"}]
  /\ \A c \in Clients :
       /\ Len(send_buf[c]) < BUFFER_SIZE /\ Len(recv_buf[c]) < BUFFER_SIZE
       /\ \A e \in Ends : Len(unsent[c][e]) < BUFFER_SIZE
  /\ far \in [Clients -> [Ends -> FarStates]]
  /\ backlog \in Seq(Clients) /\ up \in BOOLEAN

(* While both ends are there, nothing of a line is lost, repeated or put in   *)
(* another order, however the reads and writes cut it: what is under way is   *)
(* what the client has sent and not heard yet, and between two lines nothing. *)
UnderWay(c) ==
  taken[c].client \o stream[c].client \o unsent[c].server \o taken[c].server
    \o stream[c].server \o unsent[c].client

NothingIsLost ==
  \A c \in Clients : up /\ client[c] # "exit" =>
    UnderWay(c) = IF client[c] \in {"send", "reply"} THEN send_buf[c] ELSE <<>>

(* The reply is the line that was sent: fgets and two times readLine cut the  *)
(* text at the same places. Only a server that was stopped may cut it short.  *)
ReplyIsTheLine ==
  \A c \in Clients : client[c] = "input" =>
    \/ recv_buf[c] = send_buf[c]
    \/ ~up /\ IsPrefix(recv_buf[c], send_buf[c])

(* Client and child wait for each other only when the client has sent neither *)
(* a newline nor a full buffer.                                               *)
IsLine(s) == Places(s, LF) # {} \/ Len(s) = BUFFER_SIZE - 1

Waiting(c) ==
  /\ client[c] = "reply" /\ child[c] = "read" /\ far[c].client = "open"
  /\ \A e \in Ends : NothingToRead(c, e)

NoMutualWait == \A c \in Clients : Waiting(c) => ~IsLine(send_buf[c])

(* A client comes to the end of its input and exits, unless the server had no *)
(* descriptor or no process left for it, or its line is no line.              *)
Unserved(c) == (~CanAccept /\ \E i \in DOMAIN backlog : backlog[i] = c) \/ child[c] = "lost"

ClientEnds ==
  \A c \in Clients :
    <>(client[c] = "exit" \/ Unserved(c) \/ (client[c] = "reply" /\ ~IsLine(send_buf[c])))

(* A child ends when its client has gone, wherever it is killed.              *)
ChildEnds ==
  \A c \in Clients :
    client[c] = "exit" /\ child[c] \in {"read", "write"} ~> child[c] = "zombie"
=============================================================================
