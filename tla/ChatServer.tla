----------------------------- MODULE ChatServer -----------------------------
(* The chat server (src/MP2/src/server.c): one thread that waits in select,   *)
(* accepts newcomers, and sends what one client says to all the others. A     *)
(* client is its connection; it speaks, closes or is reset at any time, also  *)
(* while the server is in the middle of a pass over the ready descriptors.    *)
(* Messages arrive whole, and the buffers of the sockets never fill.          *)
EXTENDS Integers, Sequences, FiniteSets, FiniteSetsExt

CONSTANTS
  Conns,        \* connections that clients make
  Names,        \* user names
  MaxClient,    \* the capacity given on the command line
  MaxSays,      \* messages a client sends after its JOIN, for TLC
  Faults,       \* what clients do besides: "close", "reset"
  None          \* not a connection and not a name

ASSUME ChatAssumption ==
  /\ MaxClient \in Nat \ {0} /\ MaxSays \in Nat
  /\ Faults \subseteq {"close", "reset"}
  /\ IsFiniteSet(Conns) /\ None \notin Conns /\ None \notin Names

VARIABLES
  peer,         \* the client's end of each connection
  backlog,      \* connections that wait to be accepted
  sent,         \* messages each client has sent
  toServer,     \* per connection, what the server has still to receive
  toPeer,       \* per connection, all the server has sent
  pc,           \* "select", "scan", "join" (in server_listen) or "dead"
  sock,         \* descriptor -> connection, None for a free one
  new_fd,       \* the descriptor just accepted
  master, read_fds, fdmax, clients, client_count

vars == <<peer, backlog, sent, toServer, toPeer, pc, sock, new_fd, master,
          read_fds, fdmax, clients, client_count>>

roster == <<clients, client_count>>
server == <<pc, sock, new_fd, master, read_fds, fdmax, roster>>

(* "open": connected. "closed": the client has closed, recv returns 0 behind  *)
(* the last message. "broken": it closed, and has answered a later send with  *)
(* RST: the next send raises SIGPIPE. "reset": it aborted; recv, behind the   *)
(* last message, and send return -1. "done": the server has closed its end.   *)
PeerStates == {"new", "open", "closed", "broken", "reset", "done"}

(* The listening descriptor is older, hence lower, than any connection's. *)
listen_fd == 0
Fds == 1 .. Cardinality(Conns)

Message(what, name) == [what |-> what, name |-> name]
Messages == [what : {"JOIN", "SEND", "IDLE"}, name : Names \cup {None}]

NoClient == [user_name |-> None, socket_fd |-> listen_fd]

Init ==
  /\ peer = [c \in Conns |-> "new"]
  /\ backlog = <<>>
  /\ sent = [c \in Conns |-> 0]
  /\ toServer = [c \in Conns |-> <<>>]
  /\ toPeer = [c \in Conns |-> <<>>]
  /\ pc = "select"
  /\ sock = [f \in Fds |-> None]
  /\ new_fd = listen_fd
  /\ master = {listen_fd} /\ read_fds = {} /\ fdmax = listen_fd
  /\ clients = [i \in 1 .. MaxClient |-> NoClient] /\ client_count = 0

------------------------------------------------------------------------------
(* The clients: connect, send JOIN, then chat and IDLE messages. *)

Connect(c) ==
  /\ peer[c] = "new"
  /\ peer' = [peer EXCEPT ![c] = "open"]
  /\ backlog' = Append(backlog, c)
  /\ UNCHANGED <<sent, toServer, toPeer, server>>

Send(c, m) ==
  /\ peer[c] = "open"
  /\ sent' = [sent EXCEPT ![c] = @ + 1]
  /\ toServer' = [toServer EXCEPT ![c] = Append(@, m)]
  /\ UNCHANGED <<peer, backlog, toPeer, server>>

SendJoin(c) == sent[c] = 0 /\ \E name \in Names : Send(c, Message("JOIN", name))

Say(c) ==
  /\ sent[c] \in 1 .. MaxSays
  /\ \E what \in {"SEND", "IDLE"} : Send(c, Message(what, None))

(* Ctrl-C closes the connection, or resets it when there is text the client   *)
(* has not read.                                                              *)
Hangup(c) ==
  /\ peer[c] = "open"
  /\ \/ "close" \in Faults /\ peer' = [peer EXCEPT ![c] = "closed"]
     \/ /\ "reset" \in Faults /\ toPeer[c] # <<>>
        /\ peer' = [peer EXCEPT ![c] = "reset"]
  /\ UNCHANGED <<backlog, sent, toServer, toPeer, server>>

ClientStep == \E c \in Conns : Connect(c) \/ SendJoin(c) \/ Say(c) \/ Hangup(c)

------------------------------------------------------------------------------
(* The server's lists. *)

(* remove_client: the entries behind the one that leaves move up. *)
RemoveClientNot(f) == clients          \* variant: only the count goes down
RemoveClient(f) ==
  LET at(i) == clients[i].socket_fd = f
  IN [i \in 1 .. MaxClient |->
        IF i < client_count /\ \E k \in 1 .. i : at(k) THEN clients[i + 1] ELSE clients[i]]

(* handle_name: the room is full, or another client has the name. *)
RefusesButLast(name) ==                \* variant: the last entry is not compared
  client_count = MaxClient \/ \E i \in 1 .. client_count - 1 : clients[i].user_name = name
Refuses(name) ==
  client_count = MaxClient \/ \E i \in 1 .. client_count : clients[i].user_name = name

HighestStays(f) == fdmax               \* variant: fdmax is not raised
Highest(f) == IF f > fdmax THEN f ELSE fdmax

(* The name under which a descriptor is listed; None stands for garbage. *)
NameOfShort(f) ==                      \* variant: the search stops before the last
  LET entries == {i \in 1 .. client_count - 1 : clients[i].socket_fd = f}
  IN IF entries = {} THEN None ELSE clients[Min(entries)].user_name
NameOf(f) ==
  LET entries == {i \in 1 .. client_count : clients[i].socket_fd = f}
  IN IF entries = {} THEN None ELSE clients[Min(entries)].user_name

(* The loops that send one message to every client but f. ends is what is     *)
(* left of each connection. The first descriptor that fails ends the server,  *)
(* by exit(1) or by SIGPIPE, with the lower ones served. A client cannot tell *)
(* whether another one's end changed before this loop or in it, so the loop   *)
(* is one step.                                                               *)
Others(f, fds, high) == {g \in fds : g <= high /\ g # listen_fd /\ g # f}

Broadcast(targets, m, told, ends, next) ==
  LET lost == {g \in targets : ends[sock[g]] \in {"broken", "reset"}}
      reached == {sock[g] : g \in {h \in targets : \A l \in lost : h < l}}
  IN /\ toPeer' = [c \in Conns |-> IF c \in reached THEN Append(told[c], m) ELSE told[c]]
     /\ \E rst \in SUBSET {c \in reached : ends[c] = "closed"} :
          peer' = [c \in Conns |-> IF c \in rst THEN "broken" ELSE ends[c]]
     /\ pc' = IF lost = {} THEN next ELSE "dead"

(* Where the loop over the descriptors goes on when ready is left of read_fds. *)
Continue(ready) == IF ready = {} THEN "select" ELSE "scan"

------------------------------------------------------------------------------
(* The server's steps. *)

Readable(f) ==
  IF f = listen_fd THEN backlog # <<>>
  ELSE toServer[sock[f]] # <<>> \/ peer[sock[f]] # "open"

Select ==
  /\ pc = "select"
  /\ read_fds' = {f \in master : f <= fdmax /\ Readable(f)}
  /\ read_fds' # {}
  /\ pc' = "scan"
  /\ UNCHANGED <<peer, backlog, sent, toServer, toPeer, sock, new_fd, master, fdmax, roster>>

(* fcur: the pass goes from the lowest descriptor up. *)
Current(f) == f \in read_fds /\ \A g \in read_fds : f <= g

(* accept takes the lowest free descriptor, also that of a client that left. *)
LowestFree(f) == sock[f] = None /\ \A g \in Fds : g < f => sock[g] # None

Accept ==
  /\ pc = "scan" /\ Current(listen_fd)
  /\ \E f \in Fds : LowestFree(f) /\ new_fd' = f
  /\ sock' = [sock EXCEPT ![new_fd'] = Head(backlog)]
  /\ backlog' = Tail(backlog)
  /\ read_fds' = read_fds \ {listen_fd}
  /\ pc' = "join"
  /\ UNCHANGED <<peer, sent, toServer, toPeer, master, fdmax, roster>>

(* The recv of server_listen blocks the whole server until the newcomer sends *)
(* or goes. Its result is not looked at: the name of a newcomer that closed   *)
(* is whatever the buffer on the stack holds.                                 *)
newcomer == sock[new_fd]

JoinNames ==
  IF toServer[newcomer] # <<>> THEN {Head(toServer[newcomer]).name}
  ELSE IF peer[newcomer] = "closed" THEN Names ELSE {}

Received(c) == [toServer EXCEPT ![c] = IF @ = <<>> THEN @ ELSE Tail(@)]

(* send_nack_message; close drops what the newcomer had sent behind its JOIN. *)
RefuseJoin ==
  /\ pc = "join"
  /\ \E name \in JoinNames :
       /\ Refuses(name)
       /\ toPeer' = [toPeer EXCEPT ![newcomer] = Append(@, Message("NAK", name))]
  /\ peer' = [peer EXCEPT ![newcomer] = "done"]
  /\ toServer' = [toServer EXCEPT ![newcomer] = <<>>]
  /\ sock' = [sock EXCEPT ![new_fd] = None]
  /\ pc' = Continue(read_fds)
  /\ UNCHANGED <<backlog, sent, new_fd, master, read_fds, fdmax, roster>>

(* The result of sending the ACK is not looked at either. *)
AfterAck(e) == IF e = "closed" THEN {"closed", "broken"} ELSE {e}

AcceptJoin ==
  /\ pc = "join"
  /\ \E name \in JoinNames, e \in AfterAck(peer[newcomer]) :
       /\ ~Refuses(name)
       /\ clients' = [clients EXCEPT ![client_count + 1] =
                        [user_name |-> name, socket_fd |-> new_fd]]
       /\ client_count' = client_count + 1
       /\ master' = master \cup {new_fd} /\ fdmax' = Highest(new_fd)
       /\ LET names == {clients[i].user_name : i \in 1 .. client_count}
              acked == [toPeer EXCEPT ![newcomer] = Append(@, Message("ACK", names))]
          IN Broadcast(Others(new_fd, master', fdmax'), Message("ONLINE", name),
                       acked, [peer EXCEPT ![newcomer] = e], Continue(read_fds))
  /\ toServer' = Received(newcomer)
  /\ UNCHANGED <<backlog, sent, sock, new_fd, read_fds>>

(* server_send on a message: anything but IDLE is chat. *)
KindAlways(m) == "SEND"                \* variant: IDLE is not told apart
Kind(m) == IF m.what = "IDLE" THEN "IDLE" ELSE "SEND"

Forward(f) ==
  /\ pc = "scan" /\ Current(f)
  /\ LET c == sock[f]
         rest == read_fds \ {f}
     IN /\ toServer[c] # <<>>
        /\ Broadcast(Others(f, master, fdmax), Message(Kind(Head(toServer[c])), NameOf(f)),
                     toPeer, peer, Continue(rest))
        /\ toServer' = Received(c)
        /\ read_fds' = rest
  /\ UNCHANGED <<backlog, sent, sock, new_fd, master, fdmax, roster>>

(* server_send on the end of the connection *)
DropClient(f) ==
  /\ pc = "scan" /\ Current(f)
  /\ LET c == sock[f]
         rest == read_fds \ {f}
     IN /\ toServer[c] = <<>> /\ peer[c] \in {"closed", "broken"}
        /\ Broadcast(Others(f, master, fdmax), Message("OFFLINE", NameOf(f)),
                     toPeer, [peer EXCEPT ![c] = "done"], Continue(rest))
        /\ read_fds' = rest
  /\ sock' = [sock EXCEPT ![f] = None]
  /\ master' = master \ {f}
  /\ clients' = RemoveClient(f)
  /\ client_count' = client_count - 1
  /\ UNCHANGED <<backlog, sent, toServer, new_fd, fdmax>>

(* server_send on an error: exit(1) *)
RecvKills(f) ==
  /\ pc = "scan" /\ Current(f)
  /\ toServer[sock[f]] = <<>> /\ peer[sock[f]] = "reset"
  /\ pc' = "dead"
  /\ UNCHANGED <<peer, backlog, sent, toServer, toPeer, sock, new_fd, master,
                 read_fds, fdmax, roster>>

ServerStep ==
  \/ Select \/ Accept \/ RefuseJoin \/ AcceptJoin
  \/ \E f \in Fds : Forward(f) \/ DropClient(f) \/ RecvKills(f)

Next == ClientStep \/ ServerStep

Spec == Init /\ [][Next]_vars

(* The server runs whenever it can. A client sends its JOIN right behind the  *)
(* connect. (When the name is too long for a JOIN it sends none; its first    *)
(* IDLE, after IDLE_WAIT_TIME, or line is then what server_listen takes for   *)
(* the JOIN, without a look at the type.)                                     *)
FairSpec ==
  /\ Spec
  /\ WF_vars(ServerStep)
  /\ \A c \in Conns : WF_vars(SendJoin(c))

------------------------------------------------------------------------------
(* Properties. *)

(* The variables have their types. *)
TypeOK ==
  /\ peer \in [Conns -> PeerStates]
  /\ backlog \in Seq(Conns)
  /\ sent \in [Conns -> 0 .. 1 + MaxSays]
  /\ toServer \in [Conns -> Seq(Messages)] /\ DOMAIN toPeer = Conns
  /\ pc \in {"select", "scan", "join", "dead"}
  /\ sock \in [Fds -> Conns \cup {None}]
  /\ new_fd \in Fds \cup {listen_fd} /\ fdmax \in Fds \cup {listen_fd}
  /\ master \subseteq Fds \cup {listen_fd} /\ read_fds \subseteq Fds \cup {listen_fd}
  /\ clients \in [1 .. MaxClient -> [user_name : Names \cup {None}, socket_fd : Fds \cup {listen_fd}]]
  /\ client_count \in 0 .. MaxClient

(* The client list and the descriptor set agree: the first client_count       *)
(* entries are the watched connections, one entry each, under different       *)
(* names, so that the search of server_send always finds its client and never *)
(* reaches clients[client_count], which its loop would also read; and a bit   *)
(* in read_fds is never that of a descriptor closed or reused in this pass,   *)
(* and its accept or recv does not block.                                     *)
(* No connection has two descriptors, and none is left open when unwatched.   *)
RosterOfWatched ==
  /\ \A i, j \in 1 .. client_count : i # j =>
        /\ clients[i].socket_fd # clients[j].socket_fd
        /\ clients[i].user_name # clients[j].user_name
  /\ {clients[i].socket_fd : i \in 1 .. client_count} = master \ {listen_fd}
  /\ listen_fd \in master /\ \A f \in master : f <= fdmax

NoLeak ==
  /\ \A f \in Fds : sock[f] # None <=> f \in master \/ (pc = "join" /\ f = new_fd)
  /\ \A f, g \in Fds : f # g /\ sock[f] # None => sock[f] # sock[g]
  /\ pc = "join" => new_fd \in Fds \ master

EachConnectionOnce ==
  /\ \A f \in Fds : sock[f] # None => peer[sock[f]] # "new"
  /\ \A i \in 1 .. Len(backlog) :
        /\ peer[backlog[i]] # "new"
        /\ \A f \in Fds : sock[f] # backlog[i]
        /\ \A j \in 1 .. Len(backlog) : backlog[i] = backlog[j] => i = j

NothingBlocks ==
  /\ \A f \in read_fds : f \in master /\ Readable(f)
  /\ pc = "join" => listen_fd \notin read_fds

Consistent ==
  pc # "dead" =>
    RosterOfWatched /\ NoLeak /\ EachConnectionOnce /\ NothingBlocks

(* What the clients see is the room of ChatRoom: who joins, speaks or leaves  *)
(* is told to every other member, exactly once and in one order, to nobody    *)
(* else, and newcomers are told who is there - through the reuse of           *)
(* descriptors, the shifts of the client list and messages that arrive in the *)
(* middle of a pass.                                                          *)
Entries(c) == {i \in 1 .. client_count : clients[i].socket_fd \in Fds
                                         /\ sock[clients[i].socket_fd] = c}
member == [c \in Conns |-> IF Entries(c) = {} THEN None
                           ELSE clients[Min(Entries(c))].user_name]

Room == INSTANCE ChatRoom WITH heard <- toPeer, open <- pc # "dead"

ImplementsRoom == Room!Spec

(* In the end every message the clients have sent is received, unless the     *)
(* server dies: no client is starved by the others, and none waits for an     *)
(* answer for ever. (A client sends a bounded number of messages, MaxSays.)   *)
EveryoneIsServed == <>[](pc = "dead" \/ \A c \in Conns : toServer[c] = <<>>)
=============================================================================
