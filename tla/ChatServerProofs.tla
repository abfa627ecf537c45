-------------------------- MODULE ChatServerProofs --------------------------
(* Proofs about ChatServer: the client list, the descriptor set and the open  *)
(* descriptors agree, and what clients hear is the room of ChatRoom, for any  *)
(* number of connections, names and capacity. And about ChatSystem: it        *)
(* implements ChatServer and ChatClient, and the others hear in order what    *)
(* the two threads of a client send.                                          *)
EXTENDS ChatSystem, FiniteSetTheorems, SequenceTheorems, WellFoundedInduction, TLAPS

Inductive == TypeOK /\ Consistent

(* Descriptors are numbers, and none is the listening one. *)
LEMMA DescriptorsAreNumbers ==
  /\ Cardinality(Conns) \in Nat
  /\ Fds \subseteq Nat /\ listen_fd \notin Fds /\ listen_fd \in Nat
<1>1. Cardinality(Conns) \in Nat
  BY ChatAssumption, FS_CardinalityType
<1> QED
  BY <1>1 DEF Fds, listen_fd

(* What the loop that sends to all changes: closed ends may have broken, and  *)
(* the server goes on as said or is dead.                                     *)
LEMMA BroadcastEffect ==
  ASSUME NEW targets, NEW m, NEW given, NEW ends \in [Conns -> PeerStates], NEW next,
         Broadcast(targets, m, given, ends, next)
  PROVE  /\ peer' \in [Conns -> PeerStates]
         /\ \A c \in Conns : peer'[c] = ends[c] \/ (ends[c] = "closed" /\ peer'[c] = "broken")
         /\ DOMAIN toPeer' = Conns
         /\ pc' = next \/ pc' = "dead"
BY DEF Broadcast, PeerStates

(* The list without the entry of a descriptor: the others keep their order,   *)
(* one entry lower behind it.                                                 *)
LEMMA RemoveClientShifts ==
  ASSUME TypeOK, RosterOfWatched,
         NEW r \in 1 .. client_count
  PROVE  LET left == RemoveClient(clients[r].socket_fd)
         IN /\ left \in [1 .. MaxClient -> [user_name : Names \cup {None},
                                            socket_fd : Fds \cup {listen_fd}]]
            /\ \A i \in 1 .. client_count - 1 : left[i] = IF i < r THEN clients[i] ELSE clients[i + 1]
<1> DEFINE at(i) == clients[i].socket_fd = clients[r].socket_fd
<1>1. client_count \in 0 .. MaxClient /\ MaxClient \in Nat
  BY ChatAssumption DEF TypeOK
<1>2. \A i \in 1 .. client_count : at(i) <=> i = r
  BY DEF RosterOfWatched
<1>3. ASSUME NEW i \in 1 .. client_count - 1
      PROVE  (\E k \in 1 .. i : at(k)) <=> ~(i < r)
  BY <1>1, <1>2
<1> QED
  BY <1>1, <1>3 DEF RemoveClient, TypeOK

------------------------------------------------------------------------------
(* The invariant holds at the start. *)
LEMMA InductiveInit == Init => Inductive
<1> SUFFICES ASSUME Init PROVE Inductive
  OBVIOUS
<1>1. TypeOK
  BY ChatAssumption, DescriptorsAreNumbers DEF Init, TypeOK, PeerStates, NoClient
<1>2. Consistent
  BY DescriptorsAreNumbers, ChatAssumption
  DEF Init, Consistent, RosterOfWatched, NoLeak, EachConnectionOnce, NothingBlocks
<1> QED
  BY <1>1, <1>2 DEF Inductive

(* A client changes nothing of the server, makes no descriptor less readable, *)
(* and comes to the backlog once.                                             *)
LEMMA ClientStepKeeps == Inductive /\ ClientStep => Inductive'
<1> SUFFICES ASSUME Inductive, NEW c \in Conns,
                    Connect(c) \/ SendJoin(c) \/ Say(c) \/ Hangup(c)
             PROVE  Inductive'
  BY DEF ClientStep
<1> USE DEF Inductive
<1>1. UNCHANGED server /\ UNCHANGED toPeer
  BY DEF Connect, SendJoin, Say, Send, Hangup
<1>2. CASE Connect(c)
  <2>1. TypeOK'
    BY <1>1, <1>2 DEF Connect, TypeOK, PeerStates, server, roster
  <2>2. ASSUME pc # "dead" PROVE EachConnectionOnce' /\ NothingBlocks'
    <3>1. backlog' = Append(backlog, c) /\ Len(backlog) \in Nat
      BY <1>2 DEF Connect, TypeOK
    <3>2. /\ \A i \in 1 .. Len(backlog) : backlog[i] # c
          /\ \A f \in Fds : sock[f] # c
      BY <2>2, <1>2, ChatAssumption DEF Connect, Consistent, EachConnectionOnce, TypeOK
    <3>3. EachConnectionOnce'
      BY <3>1, <3>2, <2>2, <1>1, <1>2, ChatAssumption
      DEF Connect, Consistent, EachConnectionOnce, TypeOK, server
    <3>4. NothingBlocks'
      <4>1. backlog' # <<>>
        BY <3>1 DEF TypeOK
      <4> QED
        BY <4>1, <3>2, <2>2, <1>1, <1>2, DescriptorsAreNumbers
        DEF Connect, Consistent, NothingBlocks, Readable, server, TypeOK
    <3> QED
      BY <3>3, <3>4
  <2> QED
    BY <2>1, <2>2, <1>1 DEF Consistent, RosterOfWatched, NoLeak, server, roster
<1>3. CASE SendJoin(c) \/ Say(c)
  <2> PICK m \in Messages : Send(c, m)
    BY <1>3, ChatAssumption DEF SendJoin, Say, Messages, Message
  <2>0. sent[c] + 1 \in 0 .. 1 + MaxSays
    BY <1>3, ChatAssumption DEF SendJoin, Say
  <2>1. TypeOK'
    BY <1>1, <2>0 DEF Send, TypeOK, server, roster
  <2>2. \A d \in Conns : toServer[d] # <<>> => toServer'[d] # <<>>
    <3>1. toServer'[c] = Append(toServer[c], m) /\ toServer[c] \in Seq(Messages)
      BY DEF Send, TypeOK
    <3>2. toServer'[c] # <<>>
      <4>1. Len(toServer'[c]) = Len(toServer[c]) + 1 /\ Len(toServer[c]) \in Nat
        BY <3>1
      <4> QED
        BY <4>1
    <3> QED
      BY <3>2 DEF Send, TypeOK
  <2>3. ASSUME pc # "dead" PROVE EachConnectionOnce' /\ NothingBlocks'
    BY <1>1, <2>2, <2>3, DescriptorsAreNumbers
    DEF Consistent, EachConnectionOnce, NothingBlocks, NoLeak, Readable, Send, TypeOK, server
  <2> QED
    BY <2>1, <2>3, <1>1 DEF Consistent, RosterOfWatched, NoLeak, server, roster
<1>4. CASE Hangup(c)
  <2>1. TypeOK'
    BY <1>1, <1>4 DEF Hangup, TypeOK, PeerStates, server, roster
  <2>2. /\ \A d \in Conns : peer'[d] = peer[d] \/ (d = c /\ peer'[d] \in {"closed", "reset"})
        /\ UNCHANGED <<backlog, toServer>>
    BY <1>4 DEF Hangup, TypeOK
  <2>3. ASSUME pc # "dead" PROVE EachConnectionOnce' /\ NothingBlocks'
    <3>0. /\ \A f \in Fds : sock[f] # None => sock[f] \in Conns
          /\ \A i \in 1 .. Len(backlog) : backlog[i] \in Conns
      BY DEF TypeOK
    <3>1. EachConnectionOnce'
      BY <1>1, <2>2, <2>3, <3>0 DEF Consistent, EachConnectionOnce, server
    <3>2. \A f \in read_fds \ {listen_fd} : sock[f] \in Conns
      BY <2>3 DEF Consistent, NothingBlocks, NoLeak, TypeOK
    <3>3. NothingBlocks'
      BY <1>1, <2>2, <2>3, <3>2 DEF Consistent, NothingBlocks, Readable, server
    <3> QED
      BY <3>1, <3>3
  <2> QED
    BY <2>1, <2>3, <1>1 DEF Consistent, RosterOfWatched, NoLeak, server, roster
<1> QED
  BY <1>2, <1>3, <1>4

------------------------------------------------------------------------------
(* select marks only watched descriptors, and only ready ones. *)
LEMMA SelectKeeps == Inductive /\ Select => Inductive'
<1> SUFFICES ASSUME Inductive, Select PROVE Inductive'
  OBVIOUS
<1>1. TypeOK'
  BY DEF Inductive, TypeOK, Select, roster
<1>2. Consistent'
  BY DEF Inductive, Consistent, RosterOfWatched, NoLeak, EachConnectionOnce, NothingBlocks,
         Readable, Select, roster
<1> QED
  BY <1>1, <1>2 DEF Inductive

(* accept gives the oldest waiting connection a descriptor nobody uses. *)
LEMMA AcceptKeeps == Inductive /\ Accept => Inductive'
<1> SUFFICES ASSUME Inductive, Accept PROVE Inductive'
  OBVIOUS
<1> USE DescriptorsAreNumbers DEF Inductive
<1>1. pc = "scan" /\ listen_fd \in read_fds /\ RosterOfWatched /\ NoLeak
      /\ EachConnectionOnce /\ NothingBlocks
  BY DEF Accept, Current, Consistent
<1>2. backlog # <<>> /\ backlog \in Seq(Conns)
  BY <1>1 DEF NothingBlocks, Readable, TypeOK
<1> DEFINE c == Head(backlog)
<1>3. /\ c \in Conns /\ c = backlog[1] /\ 1 \in 1 .. Len(backlog)
      /\ Tail(backlog) \in Seq(Conns) /\ Len(Tail(backlog)) = Len(backlog) - 1
      /\ \A i \in 1 .. Len(Tail(backlog)) : Tail(backlog)[i] = backlog[i + 1]
                                           /\ i + 1 \in 1 .. Len(backlog)
  BY <1>2
<1> PICK f \in Fds : LowestFree(f) /\ new_fd' = f
  BY DEF Accept
<1>4. /\ sock' = [sock EXCEPT ![f] = c] /\ sock[f] = None /\ f \notin master
      /\ backlog' = Tail(backlog) /\ read_fds' = read_fds \ {listen_fd} /\ pc' = "join"
      /\ UNCHANGED <<peer, sent, toServer, toPeer, master, fdmax, clients, client_count>>
  BY <1>1 DEF Accept, LowestFree, NoLeak, roster
<1>5. c # None /\ peer[c] # "new" /\ \A g \in Fds : sock[g] # c
  BY <1>1, <1>3, ChatAssumption DEF EachConnectionOnce
<1>6. TypeOK'
  BY <1>3, <1>4 DEF TypeOK
<1>7. RosterOfWatched'
  BY <1>1, <1>4 DEF RosterOfWatched
<1>8. NoLeak'
  BY <1>1, <1>4, <1>5 DEF NoLeak, TypeOK
<1>9. EachConnectionOnce'
  <2>1. \A g \in Fds : sock'[g] # None => peer'[sock'[g]] # "new"
    BY <1>1, <1>4, <1>5 DEF EachConnectionOnce, TypeOK
  <2>2. \A i \in 1 .. Len(backlog') : backlog'[i] # c
    BY <1>1, <1>3, <1>4 DEF EachConnectionOnce
  <2>3. \A i \in 1 .. Len(backlog') :
           /\ peer'[backlog'[i]] # "new"
           /\ \A g \in Fds : sock'[g] # backlog'[i]
    BY <1>1, <1>3, <1>4, <2>2 DEF EachConnectionOnce, TypeOK
  <2>4. \A i, j \in 1 .. Len(backlog') : backlog'[i] = backlog'[j] => i = j
    <3> SUFFICES ASSUME NEW i \in 1 .. Len(backlog'), NEW j \in 1 .. Len(backlog'),
                        backlog'[i] = backlog'[j]
                 PROVE  i = j
      OBVIOUS
    <3>1. /\ backlog[i + 1] = backlog[j + 1]
          /\ i + 1 \in 1 .. Len(backlog) /\ j + 1 \in 1 .. Len(backlog)
      BY <1>3, <1>4
    <3>2. i + 1 = j + 1
      BY <1>1, <3>1 DEF EachConnectionOnce
    <3> QED
      BY <3>2
  <2> QED
    BY <2>1, <2>3, <2>4 DEF EachConnectionOnce
<1>10. NothingBlocks'
  BY <1>1, <1>4 DEF NothingBlocks, Readable, TypeOK
<1> QED
  BY <1>6, <1>7, <1>8, <1>9, <1>10 DEF Consistent

(* What the steps of a pass start from: the parts of the invariant, and that  *)
(* a descriptor in use has a connection of its own.                           *)
LEMMA Running ==
  ASSUME Inductive, pc # "dead"
  PROVE  /\ RosterOfWatched /\ NoLeak /\ EachConnectionOnce /\ NothingBlocks
         /\ \A f \in Fds : sock[f] # None => sock[f] \in Conns
         /\ \A f \in master \ {listen_fd} : f \in Fds /\ sock[f] \in Conns
         /\ pc = "join" => new_fd \in Fds \ master /\ newcomer \in Conns
         /\ \A i \in 1 .. Len(backlog) : backlog[i] \in Conns
BY DescriptorsAreNumbers DEF Inductive, Consistent, NoLeak, TypeOK, newcomer

(* A refused newcomer leaves nothing behind. *)
LEMMA RefuseJoinKeeps == Inductive /\ RefuseJoin => Inductive'
<1> SUFFICES ASSUME Inductive, RefuseJoin PROVE Inductive'
  OBVIOUS
<1> USE DescriptorsAreNumbers
<1>1. /\ RosterOfWatched /\ NoLeak /\ EachConnectionOnce /\ NothingBlocks
      /\ \A f \in Fds : sock[f] # None => sock[f] \in Conns
      /\ \A f \in master \ {listen_fd} : f \in Fds /\ sock[f] \in Conns
      /\ new_fd \in Fds \ master /\ newcomer \in Conns
      /\ \A i \in 1 .. Len(backlog) : backlog[i] \in Conns
  BY Running DEF RefuseJoin
<1>2. /\ peer' = [peer EXCEPT ![newcomer] = "done"]
      /\ toServer' = [toServer EXCEPT ![newcomer] = <<>>]
      /\ sock' = [sock EXCEPT ![new_fd] = None]
      /\ pc' \in {"select", "scan"} /\ DOMAIN toPeer' = DOMAIN toPeer
      /\ UNCHANGED <<backlog, sent, new_fd, master, read_fds, fdmax, clients, client_count>>
  BY DEF RefuseJoin, Continue, roster
<1>3. TypeOK'
  BY <1>1, <1>2 DEF Inductive, TypeOK, PeerStates
<1>4. newcomer # None /\ \A f \in Fds \ {new_fd} : sock[f] # newcomer
  BY <1>1, ChatAssumption DEF NoLeak, newcomer
<1>5. RosterOfWatched'
  BY <1>1, <1>2 DEF RosterOfWatched
<1>6. NoLeak'
  BY <1>1, <1>2, <1>4 DEF NoLeak, Inductive, TypeOK, RefuseJoin
<1>7. EachConnectionOnce'
  <2>1. \A f \in Fds : sock'[f] # None => sock'[f] = sock[f]
    BY <1>2 DEF Inductive, TypeOK
  <2>2. \A d \in Conns : peer[d] # "new" => peer'[d] # "new"
    BY <1>2 DEF Inductive, TypeOK
  <2>3. \A d \in Conns : (\A f \in Fds : sock[f] # d) => \A f \in Fds : sock'[f] # d
    BY <2>1, ChatAssumption
  <2> QED
    BY <1>1, <1>2, <2>1, <2>2, <2>3 DEF EachConnectionOnce
<1>8. NothingBlocks'
  <2>1. \A f \in read_fds \ {listen_fd} : f \in Fds \ {new_fd} /\ sock[f] \in Conns /\ Readable(f)
    BY <1>1 DEF NothingBlocks
  <2>2. listen_fd \notin read_fds
    BY <1>1 DEF NothingBlocks, RefuseJoin
  <2>3. \A f \in read_fds : f \in Fds /\ sock'[f] = sock[f]
                            /\ peer'[sock[f]] = peer[sock[f]]
                            /\ toServer'[sock[f]] = toServer[sock[f]]
    BY <1>2, <1>4, <2>1, <2>2 DEF Inductive, TypeOK
  <2> QED
    BY <1>1, <1>2, <2>1, <2>2, <2>3 DEF NothingBlocks, Readable
<1> QED
  BY <1>3, <1>5, <1>6, <1>7, <1>8 DEF Inductive, Consistent

(* A dead server keeps the types. *)
LEMMA RecvKillsKeeps == Inductive /\ (\E f \in Fds : RecvKills(f)) => Inductive'
BY DEF Inductive, TypeOK, Consistent, RecvKills, roster

(* A message that is passed on changes no list. *)
LEMMA ForwardKeeps ==
  ASSUME Inductive, NEW f \in Fds, Forward(f)
  PROVE  Inductive'
<1> USE DescriptorsAreNumbers
<1>1. /\ RosterOfWatched /\ NoLeak /\ EachConnectionOnce /\ NothingBlocks
      /\ \A g \in Fds : sock[g] # None => sock[g] \in Conns
      /\ \A g \in master \ {listen_fd} : g \in Fds /\ sock[g] \in Conns
      /\ \A i \in 1 .. Len(backlog) : backlog[i] \in Conns
  BY Running DEF Forward
<1> DEFINE c == sock[f]
<1>2. f \in read_fds /\ f # listen_fd /\ c \in Conns /\ toServer[c] # <<>>
  BY <1>1 DEF Forward, Current, NothingBlocks
<1>3. /\ toServer' = [toServer EXCEPT ![c] = Tail(toServer[c])] /\ read_fds' = read_fds \ {f}
      /\ UNCHANGED <<backlog, sent, sock, new_fd, master, fdmax, clients, client_count>>
  BY <1>2 DEF Forward, Received, roster, Inductive, TypeOK
<1>4. /\ peer' \in [Conns -> PeerStates] /\ DOMAIN toPeer' = Conns
      /\ \A d \in Conns : peer'[d] = peer[d] \/ (peer[d] = "closed" /\ peer'[d] = "broken")
      /\ pc' \in {"select", "scan", "dead"}
  <2>1. peer \in [Conns -> PeerStates]
    BY DEF Inductive, TypeOK
  <2>2. Broadcast(Others(f, master, fdmax), Message(Kind(Head(toServer[c])), NameOf(f)),
                  toPeer, peer, Continue(read_fds \ {f}))
    BY DEF Forward
  <2> QED
    BY <2>1, <2>2, BroadcastEffect DEF Continue
<1>5. TypeOK'
  <2>1. Tail(toServer[c]) \in Seq(Messages)
    BY <1>2 DEF Inductive, TypeOK
  <2> QED
    BY <2>1, <1>3, <1>4 DEF Inductive, TypeOK
<1>6. RosterOfWatched'
  BY <1>1, <1>3 DEF RosterOfWatched
<1>7. NoLeak'
  BY <1>1, <1>3, <1>4 DEF NoLeak, Forward
<1>8. EachConnectionOnce'
  BY <1>1, <1>3, <1>4 DEF EachConnectionOnce
<1>9. NothingBlocks'
  <2>1. \A g \in read_fds' \ {listen_fd} : g \in Fds /\ sock[g] \in Conns \ {c}
    BY <1>1, <1>2, <1>3 DEF NothingBlocks, NoLeak
  <2>2. \A d \in Conns \ {c} : toServer'[d] = toServer[d]
    BY <1>3 DEF Inductive, TypeOK
  <2> QED
    BY <1>1, <1>3, <1>4, <2>1, <2>2 DEF NothingBlocks, Readable
<1> QED
  BY <1>5, <1>6, <1>7, <1>8, <1>9 DEF Inductive, Consistent

(* The newcomer's entry and its watched descriptor come together. *)
LEMMA AcceptJoinKeeps == Inductive /\ AcceptJoin => Inductive'
<1> SUFFICES ASSUME Inductive, AcceptJoin PROVE Inductive'
  OBVIOUS
<1> USE DescriptorsAreNumbers
<1>1. /\ RosterOfWatched /\ NoLeak /\ EachConnectionOnce /\ NothingBlocks
      /\ \A f \in Fds : sock[f] # None => sock[f] \in Conns
      /\ \A f \in master \ {listen_fd} : f \in Fds /\ sock[f] \in Conns
      /\ pc = "join" /\ new_fd \in Fds \ master /\ newcomer \in Conns
      /\ \A i \in 1 .. Len(backlog) : backlog[i] \in Conns
  BY Running DEF AcceptJoin
<1>0. PICK name \in JoinNames, e \in AfterAck(peer[newcomer]) :
         /\ ~Refuses(name)
         /\ clients' = [clients EXCEPT ![client_count + 1] =
                          [user_name |-> name, socket_fd |-> new_fd]]
         /\ \E m, given :
              Broadcast(Others(new_fd, master', fdmax'), m, given,
                        [peer EXCEPT ![newcomer] = e], Continue(read_fds))
  BY DEF AcceptJoin
<1>2. /\ client_count' = client_count + 1
      /\ master' = master \cup {new_fd} /\ fdmax' = Highest(new_fd)
      /\ toServer' = Received(newcomer)
      /\ UNCHANGED <<backlog, sent, sock, new_fd, read_fds>>
  BY DEF AcceptJoin
<1>3. /\ client_count \in Nat /\ client_count + 1 \in 1 .. MaxClient
      /\ \A i \in 1 .. client_count : clients[i].user_name # name
  BY <1>0, ChatAssumption DEF Refuses, Inductive, TypeOK
<1>4. /\ peer' \in [Conns -> PeerStates] /\ DOMAIN toPeer' = Conns
      /\ \A d \in Conns : peer'[d] = peer[d] \/ (peer[d] = "closed" /\ peer'[d] = "broken")
      /\ pc' \in {"select", "scan", "dead"}
  <2> DEFINE ends == [peer EXCEPT ![newcomer] = e]
  <2>1. /\ ends \in [Conns -> PeerStates]
        /\ \A d \in Conns : ends[d] = peer[d] \/ (peer[d] = "closed" /\ ends[d] = "broken")
    BY <1>0, <1>1 DEF AfterAck, PeerStates, Inductive, TypeOK
  <2>3. PICK m, given : Broadcast(Others(new_fd, master', fdmax'), m, given, ends,
                                 Continue(read_fds))
    BY <1>0
  <2> HIDE DEF ends
  <2>2. /\ peer' \in [Conns -> PeerStates] /\ DOMAIN toPeer' = Conns
        /\ \A d \in Conns : peer'[d] = ends[d] \/ (ends[d] = "closed" /\ peer'[d] = "broken")
        /\ pc' = Continue(read_fds) \/ pc' = "dead"
    BY <2>1, <2>3, BroadcastEffect
  <2> QED
    BY <2>1, <2>2 DEF Continue
<1>5. /\ \A i \in 1 .. client_count : clients'[i] = clients[i]
      /\ clients'[client_count + 1] = [user_name |-> name, socket_fd |-> new_fd]
  BY <1>0, <1>3 DEF Inductive, TypeOK
<1>6. name \in Names \cup {None}
  <2>1. CASE toServer[newcomer] # <<>>
    <3>1. Head(toServer[newcomer]) \in Messages
      BY <2>1, <1>1 DEF Inductive, TypeOK
    <3> QED
      BY <1>0, <2>1, <3>1 DEF JoinNames, Messages
  <2>2. CASE toServer[newcomer] = <<>>
    BY <1>0, <2>2 DEF JoinNames
  <2> QED
    BY <2>1, <2>2
<1>7. toServer' \in [Conns -> Seq(Messages)]
      /\ \A d \in Conns \ {newcomer} : toServer'[d] = toServer[d]
  <2>1. toServer[newcomer] # <<>> => Tail(toServer[newcomer]) \in Seq(Messages)
    BY <1>1 DEF Inductive, TypeOK
  <2>2. toServer \in [Conns -> Seq(Messages)]
    BY DEF Inductive, TypeOK
  <2> QED
    BY <1>1, <1>2, <2>1, <2>2 DEF Received
<1>raised. fdmax' \in Fds \cup {listen_fd} /\ fdmax' >= fdmax /\ fdmax' >= new_fd
  <2>1. /\ fdmax \in Fds \cup {listen_fd} /\ new_fd \in Fds
        /\ fdmax \in Nat /\ new_fd \in Nat
    BY <1>1 DEF Inductive, TypeOK
  <2>2. fdmax' \in {fdmax, new_fd} /\ fdmax' >= fdmax /\ fdmax' >= new_fd
    BY <1>2, <2>1 DEF Highest
  <2> QED
    BY <2>1, <2>2
<1>8. TypeOK'
  <2>1. clients' \in [1 .. MaxClient -> [user_name : Names \cup {None},
                                         socket_fd : Fds \cup {listen_fd}]]
    BY <1>0, <1>1, <1>6 DEF Inductive, TypeOK
  <2>2. client_count' \in 0 .. MaxClient
    BY <1>2, <1>3, ChatAssumption
  <2>3. /\ master' \subseteq Fds \cup {listen_fd}
        /\ read_fds' \subseteq Fds \cup {listen_fd}
        /\ backlog' \in Seq(Conns) /\ sent' \in [Conns -> 0 .. 1 + MaxSays]
        /\ sock' \in [Fds -> Conns \cup {None}]
        /\ new_fd' \in Fds \cup {listen_fd}
    BY <1>1, <1>2 DEF Inductive, TypeOK
  <2> QED
    BY <1>4, <1>7, <1>raised, <2>1, <2>2, <2>3 DEF TypeOK
<1>9. RosterOfWatched'
  <2>1. \A i \in 1 .. client_count : clients[i].socket_fd # new_fd
    BY <1>1 DEF RosterOfWatched
  <2>2. \A i, j \in 1 .. client_count + 1 : i # j =>
           /\ clients'[i].socket_fd # clients'[j].socket_fd
           /\ clients'[i].user_name # clients'[j].user_name
    BY <1>1, <1>3, <1>5, <2>1 DEF RosterOfWatched
  <2>3. {clients'[i].socket_fd : i \in 1 .. client_count + 1} = master' \ {listen_fd}
    <3>1. {clients'[i].socket_fd : i \in 1 .. client_count + 1}
            = {clients[i].socket_fd : i \in 1 .. client_count} \cup {new_fd}
      BY <1>3, <1>5
    <3> QED
      BY <1>1, <1>2, <3>1 DEF RosterOfWatched
  <2>4. listen_fd \in master' /\ \A f \in master' : f <= fdmax'
    <3>1. fdmax \in Nat /\ fdmax' \in Nat /\ new_fd \in Nat /\ \A f \in master : f \in Nat
      BY <1>1, <1>raised DEF Inductive, TypeOK
    <3> QED
      BY <1>1, <1>2, <1>raised, <3>1 DEF RosterOfWatched
  <2> QED
    BY <1>2, <2>2, <2>3, <2>4 DEF RosterOfWatched
<1>10. NoLeak'
  BY <1>1, <1>2, <1>4, ChatAssumption DEF NoLeak, newcomer
<1>11. EachConnectionOnce'
  BY <1>1, <1>2, <1>4 DEF EachConnectionOnce
<1>12. NothingBlocks'
  <2>1. \A f \in read_fds : f \in master /\ Readable(f) /\ f \in Fds
                            /\ sock[f] \in Conns \ {newcomer}
    BY <1>1 DEF NothingBlocks, NoLeak, newcomer
  <2>2. ASSUME NEW f \in read_fds PROVE f \in master' /\ Readable(f)'
    <3>1. /\ f \in Fds /\ f # listen_fd /\ Readable(f)
          /\ sock[f] \in Conns /\ sock[f] # newcomer
      BY <1>1, <2>1
    <3>2. toServer'[sock[f]] = toServer[sock[f]]
      BY <1>7, <3>1
    <3>3. peer[sock[f]] # "open" => peer'[sock[f]] # "open"
      BY <1>4, <3>1
    <3> QED
      BY <1>2, <2>1, <3>1, <3>2, <3>3 DEF Readable
  <2>3. pc' # "join"
    BY <1>4
  <2> QED
    BY <1>2, <1>4, <2>2, <2>3 DEF NothingBlocks
<1> QED
  BY <1>8, <1>9, <1>10, <1>11, <1>12 DEF Inductive, Consistent

(* A client that leaves takes its entry and its descriptor along. *)
LEMMA DropClientKeeps ==
  ASSUME Inductive, NEW f \in Fds, DropClient(f)
  PROVE  Inductive'
<1> USE DescriptorsAreNumbers
<1>1. /\ RosterOfWatched /\ NoLeak /\ EachConnectionOnce /\ NothingBlocks
      /\ \A g \in Fds : sock[g] # None => sock[g] \in Conns
      /\ \A g \in master \ {listen_fd} : g \in Fds /\ sock[g] \in Conns
      /\ \A i \in 1 .. Len(backlog) : backlog[i] \in Conns
  BY Running DEF DropClient
<1> DEFINE c == sock[f]
<1>2. f \in read_fds /\ f # listen_fd /\ c \in Conns /\ f \in master
  BY <1>1 DEF DropClient, Current, NothingBlocks
<1>3. /\ read_fds' = read_fds \ {f}
      /\ sock' = [sock EXCEPT ![f] = None] /\ master' = master \ {f}
      /\ clients' = RemoveClient(f) /\ client_count' = client_count - 1
      /\ UNCHANGED <<backlog, sent, toServer, new_fd, fdmax>>
  BY DEF DropClient
<1>4. /\ peer' \in [Conns -> PeerStates] /\ DOMAIN toPeer' = Conns
      /\ \A d \in Conns : peer[d] # "new" => peer'[d] # "new"
      /\ \A d \in Conns : peer[d] # "open" => peer'[d] # "open"
      /\ pc' \in {"select", "scan", "dead"}
  <2> DEFINE ends == [peer EXCEPT ![c] = "done"]
  <2>1. /\ ends \in [Conns -> PeerStates]
        /\ \A d \in Conns : ends[d] = peer[d] \/ ends[d] = "done"
    BY <1>2 DEF PeerStates, Inductive, TypeOK
  <2> PICK m, given, next : /\ Broadcast(Others(f, master, fdmax), m, given, ends, next)
                           /\ next \in {"select", "scan"}
    BY DEF DropClient, Continue
  <2> HIDE DEF ends
  <2>2. /\ peer' \in [Conns -> PeerStates] /\ DOMAIN toPeer' = Conns
        /\ \A d \in Conns : peer'[d] = ends[d] \/ (ends[d] = "closed" /\ peer'[d] = "broken")
        /\ pc' = next \/ pc' = "dead"
    BY <2>1, BroadcastEffect
  <2> QED
    BY <2>1, <2>2
<1>5. client_count \in 0 .. MaxClient /\ MaxClient \in Nat
  BY ChatAssumption DEF Inductive, TypeOK
<1> PICK r \in 1 .. client_count : clients[r].socket_fd = f
  BY <1>1, <1>2 DEF RosterOfWatched
<1>6. /\ clients' \in [1 .. MaxClient -> [user_name : Names \cup {None},
                                          socket_fd : Fds \cup {listen_fd}]]
      /\ \A i \in 1 .. client_count - 1 :
            clients'[i] = IF i < r THEN clients[i] ELSE clients[i + 1]
  BY <1>1, <1>3, RemoveClientShifts DEF Inductive
<1>7. sock' \in [Fds -> Conns \cup {None}] /\ sock'[f] = None
      /\ \A g \in Fds \ {f} : sock'[g] = sock[g]
  BY <1>3 DEF Inductive, TypeOK
<1>8. TypeOK'
  <2>1. client_count' \in 0 .. MaxClient
    BY <1>3, <1>5
  <2>2. /\ master' \subseteq Fds \cup {listen_fd} /\ read_fds' \subseteq Fds \cup {listen_fd}
        /\ new_fd' \in Fds \cup {listen_fd} /\ fdmax' \in Fds \cup {listen_fd}
    BY <1>3 DEF Inductive, TypeOK
  <2>3. /\ backlog' \in Seq(Conns) /\ sent' \in [Conns -> 0 .. 1 + MaxSays]
        /\ toServer' \in [Conns -> Seq(Messages)]
    BY <1>3 DEF Inductive, TypeOK
  <2> QED
    BY <2>1, <2>2, <2>3, <1>4, <1>6, <1>7 DEF TypeOK
<1>9. RosterOfWatched'
  <2> DEFINE old(i) == IF i < r THEN i ELSE i + 1
  <2>1. \A i \in 1 .. client_count - 1 : /\ old(i) \in (1 .. client_count) \ {r}
                                         /\ clients'[i] = clients[old(i)]
    BY <1>5, <1>6
  <2>2. \A i, j \in 1 .. client_count - 1 : i # j => old(i) # old(j)
    BY <1>5
  <2>3. \A k \in (1 .. client_count) \ {r} : \E i \in 1 .. client_count - 1 : old(i) = k
    <3> SUFFICES ASSUME NEW k \in (1 .. client_count) \ {r}
                 PROVE  \E i \in 1 .. client_count - 1 : old(i) = k
      OBVIOUS
    <3>1. CASE k < r
      <4>1. k \in 1 .. client_count - 1 /\ old(k) = k
        BY <3>1, <1>5
      <4> QED
        BY <4>1
    <3>2. CASE r < k
      <4>1. k - 1 \in 1 .. client_count - 1 /\ old(k - 1) = k
        BY <3>2, <1>5
      <4> QED
        BY <4>1
    <3> QED
      BY <3>1, <3>2, <1>5
  <2> HIDE DEF old
  <2>4. \A i, j \in 1 .. client_count' : i # j =>
           /\ clients'[i].socket_fd # clients'[j].socket_fd
           /\ clients'[i].user_name # clients'[j].user_name
    BY <1>1, <1>3, <2>1, <2>2 DEF RosterOfWatched
  <2>5. {clients'[i].socket_fd : i \in 1 .. client_count'}
          = {clients[k].socket_fd : k \in (1 .. client_count) \ {r}}
    BY <1>3, <2>1, <2>3
  <2>6. {clients[k].socket_fd : k \in (1 .. client_count) \ {r}}
          = {clients[k].socket_fd : k \in 1 .. client_count} \ {f}
    BY <1>1 DEF RosterOfWatched
  <2>7. {clients'[i].socket_fd : i \in 1 .. client_count'} = master' \ {listen_fd}
    BY <1>1, <1>3, <2>5, <2>6 DEF RosterOfWatched
  <2>8. listen_fd \in master' /\ \A g \in master' : g <= fdmax'
    BY <1>1, <1>2, <1>3 DEF RosterOfWatched
  <2> QED
    BY <2>4, <2>7, <2>8 DEF RosterOfWatched
<1>10. NoLeak'
  BY <1>1, <1>2, <1>3, <1>4, <1>7 DEF NoLeak, DropClient
<1>11. EachConnectionOnce'
  <2>1. \A d \in Conns : (\A g \in Fds : sock[g] # d) => \A g \in Fds : sock'[g] # d
    BY <1>7, ChatAssumption
  <2> QED
    BY <1>1, <1>3, <1>4, <1>7, <2>1 DEF EachConnectionOnce
<1>12. NothingBlocks'
  <2>1. \A g \in read_fds' : g \in master' /\ Readable(g)
    BY <1>1, <1>3 DEF NothingBlocks
  <2>2. \A g \in read_fds' \ {listen_fd} : sock'[g] = sock[g] /\ sock[g] \in Conns
    BY <1>1, <1>3, <1>7 DEF NothingBlocks
  <2> QED
    BY <1>1, <1>3, <1>4, <2>1, <2>2 DEF NothingBlocks, Readable
<1> QED
  BY <1>8, <1>9, <1>10, <1>11, <1>12 DEF Inductive, Consistent

------------------------------------------------------------------------------
(* Every step keeps the invariant, ... *)
LEMMA InductiveStep == Inductive /\ [Next]_vars => Inductive'
<1> SUFFICES ASSUME Inductive, [Next]_vars PROVE Inductive'
  OBVIOUS
<1>1. CASE ClientStep
  BY <1>1, ClientStepKeeps
<1>2. CASE ServerStep
  BY <1>2, SelectKeeps, AcceptKeeps, RefuseJoinKeeps, AcceptJoinKeeps, ForwardKeeps,
     DropClientKeeps, RecvKillsKeeps DEF ServerStep
<1>3. CASE UNCHANGED vars
  BY <1>3 DEF Inductive, TypeOK, Consistent, RosterOfWatched, NoLeak, EachConnectionOnce,
              NothingBlocks, Readable, vars
<1> QED
  BY <1>1, <1>2, <1>3 DEF Next

(* ... which holds in every state. *)
THEOREM InductiveHolds == Spec => []Inductive
<1> QED
  BY InductiveStep, InductiveInit, PTL DEF Spec

(* The variables of the chat server keep their types. *)
THEOREM TypeCorrect == Spec => []TypeOK
BY InductiveHolds, PTL DEF Inductive

(* While the server lives, its client list, the set of watched descriptors    *)
(* and the open descriptors agree, and no accept or recv it makes blocks on a *)
(* descriptor that select has marked: whatever the clients do meanwhile, for  *)
(* any number of them.                                                        *)
THEOREM RosterConsistent == Spec => []Consistent
BY InductiveHolds, PTL DEF Inductive

------------------------------------------------------------------------------
(* The server implements the room: what the refinement needs besides. *)

(* What the server sends *)
Answers == [what : {"NAK", "ACK", "ONLINE", "SEND", "IDLE", "OFFLINE"},
            name : Names \cup {None} \cup SUBSET (Names \cup {None})]

Heard == toPeer \in [Conns -> Seq(Answers)]

(* Who is listed has a name. *)
Listed == \A i \in 1 .. client_count : clients[i].user_name \in Names

(* A connection the server has not received from: its first message is a JOIN.*)
Waiting(c) ==
  \/ peer[c] = "new"
  \/ \E i \in 1 .. Len(backlog) : backlog[i] = c
  \/ pc = "join" /\ c = newcomer

Greets(c) ==
  IF sent[c] = 0 THEN toServer[c] = <<>>
  ELSE toServer[c] # <<>> /\ Head(toServer[c]).name \in Names

Greeting == \A c \in Conns : Waiting(c) => Greets(c)

RoomOpen == pc # "dead" => Heard /\ Listed /\ Greeting

(* The connections of the entries are the members, one each. *)
ConnOf(i) == sock[clients[i].socket_fd]

RosterIsMembers ==
  /\ client_count \in Nat /\ client_count <= MaxClient
  /\ \A i \in 1 .. client_count :
       /\ clients[i].socket_fd \in Fds /\ ConnOf(i) \in Conns
       /\ member[ConnOf(i)] = clients[i].user_name
  /\ \A c \in Conns : (\A i \in 1 .. client_count : ConnOf(i) # c) => member[c] = None
  /\ \A i, j \in 1 .. client_count : ConnOf(i) = ConnOf(j) => i = j

(* So the list of a living server is. *)
LEMMA RosterHasMembers == Inductive /\ pc # "dead" => RosterIsMembers
<1> SUFFICES ASSUME Inductive, pc # "dead" PROVE RosterIsMembers
  OBVIOUS
<1>1. /\ RosterOfWatched /\ NoLeak
      /\ \A f \in master \ {listen_fd} : f \in Fds /\ sock[f] \in Conns
  BY Running
<1>2. client_count \in Nat /\ client_count <= MaxClient
  BY ChatAssumption DEF Inductive, TypeOK
<1>3. \A i \in 1 .. client_count : clients[i].socket_fd \in Fds /\ ConnOf(i) \in Conns
  <2>1. \A i \in 1 .. client_count : clients[i].socket_fd \in master \ {listen_fd}
    BY <1>1 DEF RosterOfWatched
  <2> QED
    BY <1>1, <2>1 DEF ConnOf
<1>4. \A i, j \in 1 .. client_count : ConnOf(i) = ConnOf(j) => i = j
  BY <1>1, <1>3, ChatAssumption DEF RosterOfWatched, NoLeak, ConnOf
<1>5. ASSUME NEW i \in 1 .. client_count PROVE member[ConnOf(i)] = clients[i].user_name
  <2>1. Entries(ConnOf(i)) = {i}
    BY <1>3, <1>4 DEF Entries, ConnOf
  <2>2. Min({i}) = i
    BY DEF Min
  <2> QED
    BY <1>3, <2>1, <2>2 DEF member
<1>6. ASSUME NEW c \in Conns, \A i \in 1 .. client_count : ConnOf(i) # c
      PROVE  member[c] = None
  BY <1>6 DEF member, Entries, ConnOf
<1> QED
  BY <1>2, <1>3, <1>4, <1>5, <1>6 DEF RosterIsMembers

(* So it is after a step. *)
LEMMA RosterHasMembersThen == Inductive' /\ pc' # "dead" => RosterIsMembers'
<1>1. (Inductive /\ pc # "dead" => RosterIsMembers)'
  BY RosterHasMembers, PTL
<1> QED
  BY <1>1

(* The members are as many as the entries. *)
LEMMA RoomSize ==
  ASSUME RosterIsMembers, Listed
  PROVE  /\ Room!Members = {ConnOf(i) : i \in 1 .. client_count}
         /\ Cardinality(Room!Members) = client_count
         /\ {member[d] : d \in Room!Members} = {clients[i].user_name : i \in 1 .. client_count}
<1>1. Room!Members = {ConnOf(i) : i \in 1 .. client_count}
  <2>1. \A c \in Conns : member[c] # None <=> \E i \in 1 .. client_count : ConnOf(i) = c
    BY ChatAssumption DEF RosterIsMembers, Listed
  <2>2. \A i \in 1 .. client_count : ConnOf(i) \in Conns
    BY DEF RosterIsMembers
  <2> QED
    BY <2>1, <2>2 DEF Room!Members
<1>2. Cardinality(Room!Members) = client_count
  <2> DEFINE conn == [i \in 1 .. client_count |-> ConnOf(i)]
  <2>1. client_count \in Nat
    BY DEF RosterIsMembers
  <2>2. conn \in Bijection(1 .. client_count, Room!Members)
    <3>1. \A i, j \in 1 .. client_count : conn[i] = conn[j] => i = j
      BY DEF RosterIsMembers
    <3>2. conn \in [1 .. client_count -> Room!Members]
      BY <1>1
    <3>3. \A c \in Room!Members : \E i \in 1 .. client_count : conn[i] = c
      BY <1>1
    <3> HIDE DEF conn
    <3>4. conn \in Injection(1 .. client_count, Room!Members)
      BY <3>1, <3>2 DEF Injection, IsInjective
    <3>5. conn \in Surjection(1 .. client_count, Room!Members)
      BY <3>2, <3>3 DEF Surjection
    <3> QED
      BY <3>4, <3>5 DEF Bijection
  <2>3. IsFiniteSet(1 .. client_count) /\ Cardinality(1 .. client_count) = client_count
    BY <2>1, FS_Interval
  <2>4. ExistsBijection(1 .. client_count, Room!Members)
    BY <2>2 DEF ExistsBijection
  <2> QED
    BY <2>3, <2>4, FS_Bijection
<1>3. {member[d] : d \in Room!Members} = {clients[i].user_name : i \in 1 .. client_count}
  BY <1>1 DEF RosterIsMembers
<1> QED
  BY <1>1, <1>2, <1>3

(* The members are the connections of the watched descriptors. *)
LEMMA WatchedAreMembers ==
  ASSUME Inductive, pc # "dead", Listed
  PROVE  Room!Members = {sock[g] : g \in master \ {listen_fd}}
<1>1. Room!Members = {ConnOf(i) : i \in 1 .. client_count}
  BY RosterHasMembers, RoomSize
<1>2. {clients[i].socket_fd : i \in 1 .. client_count} = master \ {listen_fd}
  BY Running DEF RosterOfWatched
<1> QED
  BY <1>1, <1>2 DEF ConnOf

(* What those a loop sends to have heard then; all of them when it ends. *)
LEMMA BroadcastHeard ==
  ASSUME NEW targets, NEW m, NEW given, NEW ends, NEW next,
         Broadcast(targets, m, given, ends, next)
  PROVE  /\ toPeer' = [c \in Conns |-> toPeer'[c]]
         /\ \A c \in Conns :
              /\ toPeer'[c] \in {given[c], Append(given[c], m)}
              /\ c \notin {sock[g] : g \in targets} => toPeer'[c] = given[c]
         /\ pc' = next \/ pc' = "dead"
         /\ pc' # "dead" =>
              toPeer' = [c \in Conns |-> IF c \in {sock[g] : g \in targets}
                                         THEN Append(given[c], m) ELSE given[c]]
<1> DEFINE lost == {g \in targets : ends[sock[g]] \in {"broken", "reset"}}
           reached == {sock[g] : g \in {h \in targets : \A l \in lost : h < l}}
<1>1. /\ toPeer' = [c \in Conns |-> IF c \in reached THEN Append(given[c], m) ELSE given[c]]
      /\ pc' = IF lost = {} THEN next ELSE "dead"
  BY DEF Broadcast
<1>2. reached \subseteq {sock[g] : g \in targets}
  OBVIOUS
<1>3. lost = {} => reached = {sock[g] : g \in targets}
  OBVIOUS
<1> HIDE DEF lost, reached
<1>4. pc' # "dead" => lost = {}
  BY <1>1
<1> QED
  BY <1>1, <1>2, <1>3, <1>4

(* When the server dies, each has heard what it had heard, or one message     *)
(* more.                                                                      *)
LEMMA Closing ==
  ASSUME Heard, pc # "dead", pc' = "dead",
         \A c \in Conns :
           toPeer'[c] = toPeer[c] \/ \E m \in Answers : toPeer'[c] = Append(toPeer[c], m)
  PROVE  Room!Close
<1>1. ASSUME NEW c \in Conns
      PROVE  /\ Len(toPeer'[c]) \in {Len(toPeer[c]), Len(toPeer[c]) + 1}
             /\ SubSeq(toPeer'[c], 1, Len(toPeer[c])) = toPeer[c]
  <2>1. PICK s \in Seq(Answers) : s = toPeer[c]
    BY DEF Heard
  <2>2. PICK r : r = toPeer'[c]
    OBVIOUS
  <2>3. CASE r = s
    BY <2>1, <2>2, <2>3, SubSeqFull
  <2>4. CASE \E m \in Answers : r = Append(s, m)
    <3>1. /\ r \in Seq(Answers) /\ Len(r) = Len(s) + 1 /\ Len(s) \in Nat
          /\ \A i \in 1 .. Len(s) : r[i] = s[i]
      BY <2>1, <2>4, AppendProperties, LenProperties
    <3>2. PICK f : f = SubSeq(r, 1, Len(s))
      OBVIOUS
    <3>3. f \in Seq(Answers) /\ Len(f) = Len(s) /\ \A i \in 1 .. Len(s) : f[i] = r[i]
      <4>1. \A i \in 1 .. Len(s) : r[i] \in Answers /\ 1 + i - 1 = i
        BY <2>1, <3>1, ElementOfSeq
      <4> QED
        BY <3>1, <3>2, <4>1, SubSeqProperties
    <3>4. f = s
      BY <2>1, <3>1, <3>3, SeqEqual
    <3> QED
      BY <2>1, <2>2, <3>1, <3>2, <3>4
  <2> QED
    BY <2>1, <2>2, <2>3, <2>4
<1> QED
  BY <1>1 DEF Room!Close

(* Who is told a message more has still heard what the server sends. *)
LEMMA HeardStill ==
  ASSUME Heard, toPeer' = [c \in Conns |-> toPeer'[c]],
         \A c \in Conns :
           toPeer'[c] = toPeer[c] \/ \E m \in Answers : toPeer'[c] = Append(toPeer[c], m)
  PROVE  Heard'
<1>1. ASSUME NEW c \in Conns PROVE toPeer'[c] \in Seq(Answers)
  <2>1. PICK s \in Seq(Answers) : s = toPeer[c]
    BY DEF Heard
  <2>2. PICK r : r = toPeer'[c]
    OBVIOUS
  <2>3. r = s \/ \E m \in Answers : r = Append(s, m)
    BY <2>1, <2>2
  <2>4. r \in Seq(Answers)
    BY <2>1, <2>3, AppendProperties
  <2> QED
    BY <2>2, <2>4
<1>2. PICK h : h = toPeer'
  OBVIOUS
<1>3. h = [c \in Conns |-> h[c]] /\ \A c \in Conns : h[c] \in Seq(Answers)
  BY <1>1, <1>2
<1>4. h \in [Conns -> Seq(Answers)]
  BY <1>3
<1> QED
  BY <1>2, <1>4 DEF Heard

(* The state at the start is that of an empty room. *)
LEMMA RoomInit == Init => RoomOpen /\ Room!Init
<1> SUFFICES ASSUME Init PROVE RoomOpen /\ Room!Init
  OBVIOUS
<1>1. member = [c \in Conns |-> None]
  BY DEF Init, member, Entries
<1>2. Room!Init
  BY <1>1 DEF Init, Room!Init
<1>3. Heard
  BY EmptySeq DEF Init, Heard
<1>4. Listed /\ Greeting
  BY DEF Init, Listed, Greeting, Greets
<1> QED
  BY <1>2, <1>3, <1>4 DEF RoomOpen

(* What the members see does not change. *)
Unseen == UNCHANGED <<member, toPeer, pc # "dead">>

(* A client's step is not seen in the room; a client that speaks before it is *)
(* heard sends its JOIN first.                                                *)
LEMMA ClientStepIsUnseen ==
  ASSUME Inductive, RoomOpen, ClientStep
  PROVE  RoomOpen' /\ Unseen
<1> PICK c \in Conns : Connect(c) \/ SendJoin(c) \/ Say(c) \/ Hangup(c)
  BY DEF ClientStep
<1>1. UNCHANGED server /\ UNCHANGED toPeer
  BY DEF Connect, SendJoin, Say, Send, Hangup
<1>2. Unseen
  BY <1>1 DEF Unseen, server, roster, member, Entries
<1>3. Heard => Heard'
  BY <1>1 DEF Heard
<1>4. Listed => Listed'
  BY <1>1 DEF Listed, server, roster
<1>5. ASSUME Greeting PROVE Greeting'
  <2>1. CASE Connect(c)
    <3>1. UNCHANGED <<sent, toServer>> /\ peer[c] = "new" /\ backlog' = Append(backlog, c)
          /\ \A d \in Conns : peer'[d] = "new" => peer[d] = "new"
      BY <2>1 DEF Connect, Inductive, TypeOK
    <3>2. \A i \in 1 .. Len(backlog') :
            backlog'[i] = c \/ \E j \in 1 .. Len(backlog) : backlog'[i] = backlog[j]
      <4>1. backlog \in Seq(Conns) /\ Len(backlog) \in Nat
        BY LenProperties DEF Inductive, TypeOK
      <4>2. /\ Len(backlog') = Len(backlog) + 1 /\ backlog'[Len(backlog) + 1] = c
            /\ \A i \in 1 .. Len(backlog) : backlog'[i] = backlog[i]
        BY <3>1, <4>1, AppendProperties
      <4> QED
        BY <4>1, <4>2
    <3>3. \A d \in Conns : Waiting(d)' => Waiting(d)
      BY <1>1, <3>1, <3>2 DEF Waiting, newcomer, server
    <3> QED
      BY <1>5, <3>1, <3>3 DEF Greeting, Greets
  <2>2. CASE SendJoin(c) \/ Say(c)
    <3>1. PICK m \in Messages : Send(c, m) /\ (sent[c] = 0 => m.name \in Names)
      <4>1. CASE SendJoin(c)
        <5>1. PICK name \in Names : Send(c, Message("JOIN", name))
          BY <4>1 DEF SendJoin
        <5>2. Message("JOIN", name) \in Messages /\ Message("JOIN", name).name \in Names
          BY DEF Message, Messages
        <5> QED
          BY <5>1, <5>2
      <4>2. CASE Say(c)
        <5>1. PICK what \in {"SEND", "IDLE"} : Send(c, Message(what, None))
          BY <4>2 DEF Say
        <5>2. Message(what, None) \in Messages
          BY DEF Message, Messages
        <5>3. sent[c] # 0
          BY <4>2, ChatAssumption DEF Say
        <5> QED
          BY <5>1, <5>2, <5>3
      <4> QED
        BY <2>2, <4>1, <4>2
    <3>2. /\ UNCHANGED <<peer, backlog>> /\ sent[c] \in Nat /\ sent'[c] = sent[c] + 1
          /\ toServer'[c] = Append(toServer[c], m) /\ toServer[c] \in Seq(Messages)
          /\ \A d \in Conns \ {c} : sent'[d] = sent[d] /\ toServer'[d] = toServer[d]
      BY <3>1, ChatAssumption DEF Send, Inductive, TypeOK
    <3>3. \A d \in Conns : Waiting(d)' <=> Waiting(d)
      BY <1>1, <3>2 DEF Waiting, newcomer, server
    <3>4. ASSUME Waiting(c) PROVE Greets(c)'
      <4>1. Greets(c)
        BY <1>5, <3>4 DEF Greeting
      <4>2. sent'[c] # 0
        BY <3>2
      <4>3. toServer'[c] # <<>>
        BY <3>2, AppendProperties
      <4>4. Head(toServer'[c]).name \in Names
        <5>1. Len(toServer[c]) \in Nat
          BY <3>2, LenProperties
        <5>2. CASE sent[c] = 0
          <6>1. Head(toServer'[c]) = m
            BY <3>2, <4>1, <5>2 DEF Greets
          <6> QED
            BY <3>1, <5>2, <6>1
        <5>3. CASE sent[c] # 0
          <6>1. toServer[c] # <<>> /\ Head(toServer[c]).name \in Names
            BY <4>1, <5>3 DEF Greets
          <6>2. Head(toServer'[c]) = Head(toServer[c])
            BY <3>2, <6>1
          <6> QED
            BY <6>1, <6>2
        <5> QED
          BY <5>2, <5>3
      <4> QED
        BY <4>2, <4>3, <4>4 DEF Greets
    <3>5. ASSUME NEW d \in Conns \ {c}, Waiting(d) PROVE Greets(d)'
      BY <1>5, <3>2, <3>5 DEF Greeting, Greets
    <3> QED
      BY <3>3, <3>4, <3>5 DEF Greeting
  <2>3. CASE Hangup(c)
    <3>1. UNCHANGED <<sent, toServer, backlog>>
          /\ \A d \in Conns : peer'[d] = "new" => peer[d] = "new"
      BY <2>3 DEF Hangup, Inductive, TypeOK
    <3>2. \A d \in Conns : Waiting(d)' => Waiting(d)
      BY <1>1, <3>1 DEF Waiting, newcomer, server
    <3> QED
      BY <1>5, <3>1, <3>2 DEF Greeting, Greets
  <2> QED
    BY <2>1, <2>2, <2>3
<1>6. pc' = pc
  BY <1>1 DEF server
<1> QED
  BY <1>2, <1>3, <1>4, <1>5, <1>6 DEF RoomOpen

(* Which descriptors are ready is not seen, ... *)
LEMMA SelectIsUnseen ==
  ASSUME Inductive, RoomOpen, Select
  PROVE  RoomOpen' /\ Unseen
<1>1. /\ UNCHANGED <<peer, backlog, sent, toServer, toPeer, sock, new_fd, clients, client_count>>
      /\ pc = "select" /\ pc' = "scan"
  BY DEF Select, roster
<1>2. Unseen
  BY <1>1 DEF Unseen, member, Entries
<1>3. Heard' /\ Listed'
  BY <1>1 DEF RoomOpen, Heard, Listed
<1>4. Greeting'
  BY <1>1 DEF RoomOpen, Greeting, Greets, Waiting
<1> QED
  BY <1>2, <1>3, <1>4 DEF RoomOpen

(* ... nor that a connection is accepted. *)
LEMMA AcceptIsUnseen ==
  ASSUME Inductive, Inductive', RoomOpen, Accept
  PROVE  RoomOpen' /\ Unseen
<1>1. pc = "scan" /\ NothingBlocks /\ listen_fd \in read_fds /\ backlog \in Seq(Conns)
  BY Running DEF Accept, Current, Inductive, TypeOK
<1>2. backlog # <<>>
  BY <1>1 DEF NothingBlocks, Readable
<1>3. PICK f \in Fds : LowestFree(f) /\ new_fd' = f
  BY DEF Accept
<1>4. /\ sock' = [sock EXCEPT ![f] = Head(backlog)] /\ sock[f] = None
      /\ backlog' = Tail(backlog) /\ pc' = "join"
      /\ UNCHANGED <<peer, sent, toServer, toPeer, clients, client_count>>
  BY <1>3 DEF Accept, LowestFree, roster
<1>5. RosterIsMembers /\ RosterIsMembers'
  BY <1>1, <1>4, RosterHasMembers, RosterHasMembersThen
<1>6. \A i \in 1 .. client_count : ConnOf(i)' = ConnOf(i)
  BY <1>4, <1>5, ChatAssumption DEF RosterIsMembers, ConnOf, Inductive, TypeOK
<1>7. member' = member
  <2>1. ASSUME NEW c \in Conns PROVE member'[c] = member[c]
    BY <1>4, <1>5, <1>6 DEF RosterIsMembers
  <2> QED
    BY <2>1 DEF member
<1>8. Unseen
  BY <1>1, <1>4, <1>7 DEF Unseen
<1>9. Heard' /\ Listed'
  BY <1>1, <1>4 DEF RoomOpen, Heard, Listed
<1>10. Greeting'
  <2>1. newcomer' = Head(backlog)
    BY <1>3, <1>4 DEF newcomer, Inductive, TypeOK
  <2>2. Head(backlog) = backlog[1] /\ 1 \in 1 .. Len(backlog)
    BY <1>1, <1>2
  <2>3. \A i \in 1 .. Len(backlog') :
          i + 1 \in 1 .. Len(backlog) /\ backlog'[i] = backlog[i + 1]
    <3>1. Len(backlog') = Len(backlog) - 1 /\ Len(backlog) \in Nat
      BY <1>1, <1>2, <1>4, HeadTailProperties, LenProperties
    <3>2. \A i \in 1 .. Len(backlog') : backlog'[i] = backlog[i + 1]
      BY <1>1, <1>2, <1>4, HeadTailProperties
    <3> QED
      BY <3>1, <3>2
  <2>4. \A d \in Conns : Waiting(d)' => Waiting(d)
    BY <1>4, <2>1, <2>2, <2>3 DEF Waiting
  <2> QED
    BY <1>1, <1>4, <2>4 DEF RoomOpen, Greeting, Greets
<1> QED
  BY <1>8, <1>9, <1>10 DEF RoomOpen

(* The name of a newcomer is a user's: the first message is a JOIN. *)
LEMMA NewcomerHasName ==
  ASSUME Inductive, RoomOpen, pc = "join"
  PROVE  JoinNames \subseteq Names
<1>1. newcomer \in Conns /\ Waiting(newcomer)
  BY Running DEF Waiting
<1>2. Greets(newcomer)
  BY <1>1 DEF RoomOpen, Greeting
<1> QED
  BY <1>2 DEF Greets, JoinNames

(* The newcomer is no member, nobody waits any more who has been received     *)
(* from, and his end was connected.                                           *)
LEMMA NotWaiting ==
  ASSUME Inductive, pc # "dead", NEW f \in Fds, sock[f] # None
  PROVE  /\ sock[f] \in Conns /\ peer[sock[f]] # "new"
         /\ \A i \in 1 .. Len(backlog) : backlog[i] # sock[f]
         /\ f \notin master => \A i \in 1 .. client_count : ConnOf(i) # sock[f]
<1>1. RosterOfWatched /\ NoLeak /\ EachConnectionOnce /\ sock[f] \in Conns
  BY Running
<1>2. ASSUME f \notin master, NEW i \in 1 .. client_count PROVE ConnOf(i) # sock[f]
  <2>1. clients[i].socket_fd \in master \ {listen_fd}
    BY <1>1 DEF RosterOfWatched
  <2>2. clients[i].socket_fd \in Fds
    BY RosterHasMembers DEF RosterIsMembers
  <2> QED
    BY <1>1, <1>2, <2>1, <2>2 DEF NoLeak, ConnOf
<1> QED
  BY <1>1, <1>2 DEF EachConnectionOnce

(* A NAK is the room's refusal. *)
LEMMA RefuseJoinIsRefuse ==
  ASSUME Inductive, Inductive', RoomOpen, RefuseJoin
  PROVE  RoomOpen' /\ Room!Next
<1>1. pc = "join" /\ Heard /\ Listed /\ Greeting
  BY DEF RefuseJoin, RoomOpen
<1>2. /\ peer' = [peer EXCEPT ![newcomer] = "done"]
      /\ toServer' = [toServer EXCEPT ![newcomer] = <<>>]
      /\ sock' = [sock EXCEPT ![new_fd] = None]
      /\ pc' \in {"select", "scan"}
      /\ UNCHANGED <<backlog, sent, new_fd, clients, client_count>>
  BY DEF RefuseJoin, Continue, roster
<1>3. PICK name \in JoinNames :
        Refuses(name) /\ toPeer' = [toPeer EXCEPT ![newcomer] = Append(@, Message("NAK", name))]
  BY DEF RefuseJoin
<1>4. name \in Names
  BY <1>1, <1>3, NewcomerHasName
<1>5. new_fd \in Fds \ master /\ newcomer \in Conns /\ sock[new_fd] # None
  BY <1>1, Running, ChatAssumption DEF newcomer
<1>6. /\ peer[newcomer] # "new" /\ \A i \in 1 .. Len(backlog) : backlog[i] # newcomer
      /\ \A i \in 1 .. client_count : ConnOf(i) # newcomer
  BY <1>1, <1>5, NotWaiting DEF newcomer
<1>7. RosterIsMembers /\ RosterIsMembers'
  BY <1>1, <1>2, RosterHasMembers, RosterHasMembersThen
<1>8. \A i \in 1 .. client_count : ConnOf(i)' = ConnOf(i)
  <2>1. \A i \in 1 .. client_count : clients[i].socket_fd \in Fds \ {new_fd}
    BY <1>6, <1>7 DEF RosterIsMembers, ConnOf, newcomer
  <2> QED
    BY <1>2, <2>1 DEF ConnOf, Inductive, TypeOK
<1>9. member' = member
  <2>1. ASSUME NEW c \in Conns PROVE member'[c] = member[c]
    BY <1>2, <1>7, <1>8 DEF RosterIsMembers
  <2> QED
    BY <2>1 DEF member
<1>10. Message("NAK", name) \in Answers
  BY <1>4 DEF Message, Answers
<1>11. Heard'
  BY <1>1, <1>3, <1>5, <1>10, AppendProperties DEF Heard
<1>12. Listed'
  BY <1>1, <1>2 DEF Listed
<1>13. Greeting'
  <2>1. ASSUME NEW d \in Conns, Waiting(d)' PROVE d # newcomer /\ Waiting(d)
    BY <1>2, <1>6, <2>1 DEF Waiting, Inductive, TypeOK
  <2>2. ASSUME NEW d \in Conns, d # newcomer
        PROVE  toServer'[d] = toServer[d] /\ sent'[d] = sent[d]
    BY <1>2, <2>2 DEF Inductive, TypeOK
  <2> QED
    BY <1>1, <2>1, <2>2 DEF Greeting, Greets
<1>14. Room!Refuse(newcomer, name)
  <2>1. newcomer \notin Room!Members
    BY <1>6, <1>7 DEF RosterIsMembers, Room!Members
  <2>2. Cardinality(Room!Members) = MaxClient \/ \E d \in Room!Members : member[d] = name
    <3>1. /\ Cardinality(Room!Members) = client_count
          /\ Room!Members = {ConnOf(i) : i \in 1 .. client_count}
      BY <1>1, <1>7, RoomSize
    <3> QED
      BY <1>3, <1>7, <3>1 DEF Refuses, RosterIsMembers
  <2>3. toPeer' = Room!Tell({newcomer}, Room!Message("NAK", name))
    BY <1>1, <1>3, <1>5 DEF Heard, Room!Tell, Room!Message, Message
  <2>4. pc # "dead" /\ (pc # "dead")' = (pc # "dead")
    BY <1>1, <1>2
  <2> QED
    BY <1>9, <2>1, <2>2, <2>3, <2>4 DEF Room!Refuse, Room!Cardinality, Cardinality
<1> QED
  BY <1>4, <1>5, <1>11, <1>12, <1>13, <1>14 DEF RoomOpen, Room!Next

(* An error of recv closes the room. *)
LEMMA RecvKillsIsClose ==
  ASSUME Inductive, RoomOpen, NEW f \in Fds, RecvKills(f)
  PROVE  RoomOpen' /\ Room!Next
<1>1. pc # "dead" /\ pc' = "dead" /\ toPeer' = toPeer /\ Heard
  BY DEF RecvKills, RoomOpen
<1>2. Room!Close
  BY <1>1, Closing
<1> QED
  BY <1>1, <1>2 DEF RoomOpen, Room!Next

(* The name under which the server passes on what a member says *)
LEMMA NameOfMember ==
  ASSUME Inductive, RoomOpen, pc # "dead", NEW f \in Fds, f \in master
  PROVE  /\ NameOf(f) \in Names /\ NameOf(f) = member[sock[f]]
         /\ sock[f] \in Room!Members
<1>1. RosterOfWatched /\ RosterIsMembers /\ Listed /\ f # listen_fd
  BY Running, RosterHasMembers, DescriptorsAreNumbers DEF RoomOpen
<1>2. PICK r \in 1 .. client_count : clients[r].socket_fd = f
  BY <1>1 DEF RosterOfWatched
<1>3. {i \in 1 .. client_count : clients[i].socket_fd = f} = {r}
  BY <1>1, <1>2 DEF RosterOfWatched
<1>4. Min({r}) = r
  BY DEF Min
<1>5. NameOf(f) = clients[r].user_name
  BY <1>3, <1>4 DEF NameOf
<1>6. ConnOf(r) = sock[f] /\ ConnOf(r) \in Room!Members
  BY <1>1, <1>2, RoomSize DEF ConnOf
<1>7. member[ConnOf(r)] = clients[r].user_name /\ clients[r].user_name \in Names
  BY <1>1 DEF RosterIsMembers, Listed
<1> QED
  BY <1>5, <1>6, <1>7

(* The loops that send to all but one send to all the members but one. *)
LEMMA OthersAreMembers ==
  ASSUME Inductive, RoomOpen, pc # "dead", NEW f \in Fds, f \in master
  PROVE  {sock[g] : g \in Others(f, master, fdmax)} = Room!Members \ {sock[f]}
<1>1. RosterOfWatched /\ NoLeak /\ Listed /\ f # listen_fd
  BY Running, DescriptorsAreNumbers DEF RoomOpen
<1>2. Others(f, master, fdmax) = (master \ {listen_fd}) \ {f}
  BY <1>1 DEF Others, RosterOfWatched
<1>3. Room!Members = {sock[g] : g \in master \ {listen_fd}}
  BY <1>1, WatchedAreMembers
<1>4. \A g \in master \ {listen_fd} : g \in Fds /\ (sock[g] = sock[f] => g = f)
  BY <1>1, Running, ChatAssumption DEF NoLeak
<1> QED
  BY <1>1, <1>2, <1>3, <1>4

(* What is passed on is what a member says, to all the others. *)
LEMMA ForwardIsSay ==
  ASSUME Inductive, RoomOpen, NEW f \in Fds, Forward(f)
  PROVE  RoomOpen' /\ Room!Next
<1>1. /\ pc # "dead" /\ f \in master /\ Heard /\ Listed /\ Greeting
  BY Running DEF Forward, Current, NothingBlocks, RoomOpen
<1>2. PICK c \in Conns : c = sock[f]
  BY <1>1, Running, DescriptorsAreNumbers
<1>3. PICK m : m = Message(Kind(Head(toServer[c])), NameOf(f))
  OBVIOUS
<1>4. /\ Broadcast(Others(f, master, fdmax), m, toPeer, peer, Continue(read_fds \ {f}))
      /\ toServer' = Received(c)
      /\ UNCHANGED <<backlog, sent, sock, new_fd, clients, client_count>>
  BY <1>2, <1>3 DEF Forward, roster
<1>5. Continue(read_fds \ {f}) \in {"select", "scan"}
  BY DEF Continue
<1>6. /\ NameOf(f) \in Names /\ NameOf(f) = member[c] /\ c \in Room!Members
      /\ {sock[g] : g \in Others(f, master, fdmax)} = Room!Members \ {c}
  BY <1>1, <1>2, NameOfMember, OthersAreMembers
<1>7. PICK what \in {"SEND", "IDLE"} : m = Message(what, member[c])
  BY <1>3, <1>6 DEF Kind
<1>8. m \in Answers
  BY <1>6, <1>7 DEF Message, Answers
<1>9. member' = member
  BY <1>4 DEF member, Entries
<1>10. /\ toPeer' = [d \in Conns |-> toPeer'[d]]
       /\ \A d \in Conns : toPeer'[d] \in {toPeer[d], Append(toPeer[d], m)}
       /\ pc' \in {"select", "scan", "dead"}
       /\ pc' # "dead" =>
            toPeer' = [d \in Conns |-> IF d \in Room!Members \ {c}
                                       THEN Append(toPeer[d], m) ELSE toPeer[d]]
  BY <1>4, <1>5, <1>6, BroadcastHeard
<1>11. CASE pc' = "dead"
  <2>1. Room!Close
    BY <1>1, <1>8, <1>10, <1>11, Closing
  <2> QED
    BY <1>11, <2>1 DEF RoomOpen, Room!Next
<1>12. CASE pc' # "dead"
  <2>1. toPeer' = Room!Tell(Room!Members \ {c}, Room!Message(what, member[c]))
    BY <1>7, <1>10, <1>12 DEF Room!Tell, Room!Message, Message
  <2>2. (pc # "dead")' = (pc # "dead")
    BY <1>1, <1>12
  <2>3. Room!Say(c, what)
    BY <1>1, <1>6, <1>9, <2>1, <2>2 DEF Room!Say
  <2>4. Heard'
    BY <1>1, <1>8, <1>10, HeardStill
  <2>5. Listed'
    BY <1>1, <1>4 DEF Listed
  <2>6. Greeting'
    <3>1. peer[c] # "new" /\ \A i \in 1 .. Len(backlog) : backlog[i] # c
      BY <1>1, <1>2, NotWaiting, ChatAssumption
    <3>2. \A d \in Conns : peer'[d] = "new" => peer[d] = "new"
      <4>1. peer \in [Conns -> PeerStates]
        BY DEF Inductive, TypeOK
      <4> QED
        BY <1>4, <4>1, BroadcastEffect
    <3>3. \A d \in Conns : Waiting(d)' => d # c /\ Waiting(d)
      BY <1>4, <1>10, <3>1, <3>2 DEF Waiting
    <3>4. \A d \in Conns \ {c} : toServer'[d] = toServer[d]
      BY <1>4 DEF Received, Inductive, TypeOK
    <3> QED
      BY <1>1, <1>4, <3>3, <3>4 DEF Greeting, Greets
  <2>7. Room!Next
    BY <1>7, <2>3 DEF Room!Next
  <2> QED
    BY <2>4, <2>5, <2>6, <2>7 DEF RoomOpen
<1> QED
  BY <1>11, <1>12

(* Where the loop of server_listen sends to: the members but the newcomer *)
LEMMA OthersOfNewcomer ==
  ASSUME Inductive, RoomOpen, pc = "join"
  PROVE  {sock[g] : g \in Others(new_fd, master \cup {new_fd}, Highest(new_fd))} = Room!Members
<1>1. /\ RosterOfWatched /\ Listed /\ new_fd \in Fds \ master
      /\ \A g \in master \ {listen_fd} : g \in Fds
  BY Running DEF RoomOpen
<1>2. \A g \in master : g <= Highest(new_fd)
  <2>1. fdmax \in Nat /\ new_fd \in Nat /\ \A g \in master : g \in Nat /\ g <= fdmax
    BY <1>1, DescriptorsAreNumbers DEF RosterOfWatched, Inductive, TypeOK
  <2> QED
    BY <2>1 DEF Highest
<1>3. Others(new_fd, master \cup {new_fd}, Highest(new_fd)) = master \ {listen_fd}
  BY <1>1, <1>2 DEF Others
<1>4. Room!Members = {sock[g] : g \in master \ {listen_fd}}
  BY <1>1, WatchedAreMembers
<1> QED
  BY <1>3, <1>4

(* An ACK with the list, and ONLINE to all who are in it, is the room's join. *)
LEMMA AcceptJoinIsJoin ==
  ASSUME Inductive, Inductive', RoomOpen, AcceptJoin
  PROVE  RoomOpen' /\ Room!Next
<1>1. pc = "join" /\ pc # "dead" /\ Heard /\ Listed /\ Greeting
  BY DEF AcceptJoin, RoomOpen
<1>2. PICK c \in Conns : c = newcomer
  BY <1>1, Running
<1>3. PICK names : names = {clients[i].user_name : i \in 1 .. client_count}
  OBVIOUS
<1>4. PICK given : given = [toPeer EXCEPT ![c] = Append(@, Message("ACK", names))]
  OBVIOUS
<1>5. PICK name \in JoinNames, e \in AfterAck(peer[c]) :
         /\ ~Refuses(name)
         /\ clients' = [clients EXCEPT ![client_count + 1] =
                          [user_name |-> name, socket_fd |-> new_fd]]
         /\ Broadcast(Others(new_fd, master \cup {new_fd}, Highest(new_fd)),
                      Message("ONLINE", name), given, [peer EXCEPT ![c] = e], Continue(read_fds))
  BY <1>2, <1>3, <1>4 DEF AcceptJoin
<1>6. /\ client_count' = client_count + 1 /\ toServer' = Received(c)
      /\ UNCHANGED <<backlog, sent, sock, new_fd>>
  BY <1>2 DEF AcceptJoin
<1>7. name \in Names /\ Continue(read_fds) \in {"select", "scan"}
  BY <1>1, <1>5, NewcomerHasName DEF Continue
<1>8. PICK m : m = Message("ONLINE", name)
  OBVIOUS
<1>9. /\ {sock[g] : g \in Others(new_fd, master \cup {new_fd}, Highest(new_fd))} = Room!Members
      /\ Room!Members = {ConnOf(i) : i \in 1 .. client_count}
      /\ Cardinality(Room!Members) = client_count
      /\ {member[d] : d \in Room!Members} = names
      /\ RosterIsMembers
  BY <1>1, <1>3, OthersOfNewcomer, RosterHasMembers, RoomSize
<1>10. new_fd \in Fds \ master /\ sock[new_fd] = c /\ c # None
  BY <1>1, <1>2, Running, ChatAssumption DEF newcomer
<1>11. /\ peer[c] # "new" /\ \A i \in 1 .. Len(backlog) : backlog[i] # c
       /\ \A i \in 1 .. client_count : ConnOf(i) # c
  BY <1>1, <1>10, NotWaiting
<1>12. c \notin Room!Members
  BY <1>9, <1>11
<1>13. /\ toPeer' = [d \in Conns |-> toPeer'[d]]
       /\ \A d \in Conns : /\ toPeer'[d] \in {given[d], Append(given[d], m)}
                           /\ d \notin Room!Members => toPeer'[d] = given[d]
       /\ pc' \in {"select", "scan", "dead"}
       /\ pc' # "dead" => toPeer' = [d \in Conns |-> IF d \in Room!Members
                                                     THEN Append(given[d], m) ELSE given[d]]
  <2>1. PICK ends : ends = [peer EXCEPT ![c] = e]
    OBVIOUS
  <2>2. PICK next \in {"select", "scan"} : next = Continue(read_fds)
    BY <1>7
  <2>3. PICK targets : targets = Others(new_fd, master \cup {new_fd}, Highest(new_fd))
    OBVIOUS
  <2>4. Broadcast(targets, m, given, ends, next)
    BY <1>5, <1>8, <2>1, <2>2, <2>3
  <2>5. {sock[g] : g \in targets} = Room!Members
    BY <1>9, <2>3
  <2> QED
    BY <2>4, <2>5, BroadcastHeard
<1>14. Message("ACK", names) \in Answers /\ m \in Answers
  <2>1. names \subseteq Names
    BY <1>1, <1>3 DEF Listed
  <2> QED
    BY <1>7, <1>8, <2>1 DEF Message, Answers
<1>15. /\ given[c] = Append(toPeer[c], Message("ACK", names))
       /\ \A d \in Conns \ {c} : given[d] = toPeer[d]
  BY <1>1, <1>4 DEF Heard
<1>16. \A d \in Conns :
          toPeer'[d] = toPeer[d] \/ \E a \in Answers : toPeer'[d] = Append(toPeer[d], a)
  BY <1>12, <1>13, <1>14, <1>15
<1>17. CASE pc' = "dead"
  <2>1. Room!Close
    BY <1>1, <1>16, <1>17, Closing
  <2> QED
    BY <1>17, <2>1 DEF RoomOpen, Room!Next
<1>18. CASE pc' # "dead"
  <2>1. Heard'
    BY <1>1, <1>13, <1>16, HeardStill
  <2>2. /\ client_count \in Nat /\ client_count # MaxClient
        /\ \A i \in 1 .. client_count : clients[i].user_name # name
        /\ client_count + 1 \in 1 .. MaxClient /\ client_count < MaxClient
    BY <1>5, <1>9, ChatAssumption DEF Refuses, RosterIsMembers
  <2>3. /\ \A i \in 1 .. client_count : clients'[i] = clients[i]
        /\ clients'[client_count + 1] = [user_name |-> name, socket_fd |-> new_fd]
    BY <1>5, <2>2 DEF Inductive, TypeOK
  <2>4. Listed'
    BY <1>1, <1>6, <1>7, <2>2, <2>3 DEF Listed
  <2>5. Greeting'
    <3>1. \A d \in Conns : peer'[d] = "new" => peer[d] = "new"
      <4>1. PICK ends : ends = [peer EXCEPT ![c] = e]
        OBVIOUS
      <4>2. /\ ends \in [Conns -> PeerStates]
            /\ \A d \in Conns : ends[d] = "new" => peer[d] = "new"
        BY <1>5, <4>1 DEF AfterAck, PeerStates, Inductive, TypeOK
      <4>3. \A d \in Conns : peer'[d] = ends[d] \/ peer'[d] = "broken"
        <5>1. PICK next : next = Continue(read_fds)
          OBVIOUS
        <5>2. PICK targets : targets = Others(new_fd, master \cup {new_fd}, Highest(new_fd))
          OBVIOUS
        <5>3. Broadcast(targets, m, given, ends, next)
          BY <1>5, <1>8, <4>1, <5>1, <5>2
        <5> QED
          BY <4>2, <5>3, BroadcastEffect
      <4> QED
        BY <4>2, <4>3
    <3>2. \A d \in Conns : Waiting(d)' => d # c /\ Waiting(d)
      BY <1>6, <1>11, <1>13, <3>1 DEF Waiting
    <3>3. \A d \in Conns \ {c} : toServer'[d] = toServer[d]
      BY <1>6 DEF Received, Inductive, TypeOK
    <3> QED
      BY <1>1, <1>6, <3>2, <3>3 DEF Greeting, Greets
  <2>6. member' = [member EXCEPT ![c] = name]
    <3> DEFINE connThen(i) == sock'[clients'[i].socket_fd]
    <3>1. /\ \A i \in 1 .. client_count + 1 :
                member'[connThen(i)] = clients'[i].user_name
          /\ \A d \in Conns :
                (\A i \in 1 .. client_count + 1 : connThen(i) # d) => member'[d] = None
      BY <1>6, <1>18, RosterHasMembersThen DEF RosterIsMembers, ConnOf
    <3>2. /\ \A i \in 1 .. client_count : connThen(i) = ConnOf(i)
          /\ connThen(client_count + 1) = c
      BY <1>6, <1>10, <2>3 DEF ConnOf
    <3> HIDE DEF connThen
    <3>3. member'[c] = name
      <4>1. client_count + 1 \in 1 .. client_count + 1
        BY <2>2
      <4> QED
        BY <2>3, <3>1, <3>2, <4>1
    <3>4. ASSUME NEW d \in Conns \ {c} PROVE member'[d] = member[d]
      <4>1. CASE \E i \in 1 .. client_count : ConnOf(i) = d
        <5> PICK i \in 1 .. client_count : ConnOf(i) = d
          BY <4>1
        <5>1. i \in 1 .. client_count + 1
          BY <2>2
        <5> QED
          BY <1>9, <2>3, <3>1, <3>2, <5>1 DEF RosterIsMembers
      <4>2. CASE \A i \in 1 .. client_count : ConnOf(i) # d
        <5>1. \A i \in 1 .. client_count + 1 :
                 i \in 1 .. client_count \/ i = client_count + 1
          BY <2>2
        <5>2. \A i \in 1 .. client_count + 1 : connThen(i) # d
          BY <3>2, <4>2, <5>1
        <5> QED
          BY <1>9, <3>1, <4>2, <5>2 DEF RosterIsMembers
      <4> QED
        BY <4>1, <4>2
    <3>5. member = [d \in Conns |-> member[d]] /\ member' = [d \in Conns |-> member'[d]]
      BY DEF member
    <3> HIDE DEF member
    <3> QED
      BY <3>3, <3>4, <3>5
  <2>7. Room!Join(c, name)
    <3>1. Cardinality(Room!Members) < MaxClient
      BY <1>9, <2>2
    <3>2. \A d \in Room!Members : member[d] # name
      BY <1>9, <2>2 DEF RosterIsMembers
    <3>3. toPeer' = [Room!Tell(Room!Members, Room!Message("ONLINE", name)) EXCEPT
                       ![c] = Append(@, Room!Message("ACK", {member[d] : d \in Room!Members}))]
      <4>1. PICK mm : mm = Room!Members
        OBVIOUS
      <4>2. PICK a : a = Message("ACK", names)
        OBVIOUS
      <4>3. /\ Room!Message("ACK", {member[d] : d \in Room!Members}) = a
            /\ Room!Message("ONLINE", name) = m
        BY <1>8, <1>9, <4>2 DEF Room!Message, Message
      <4>4. Room!Tell(mm, m) = [d \in Conns |-> IF d \in mm THEN Append(toPeer[d], m)
                                                ELSE toPeer[d]]
        BY DEF Room!Tell
      <4>5. [Room!Tell(mm, m) EXCEPT ![c] = Append(@, a)]
              = [d \in Conns |-> IF d = c THEN Append(toPeer[d], a)
                                 ELSE IF d \in mm THEN Append(toPeer[d], m) ELSE toPeer[d]]
        BY <1>12, <4>1, <4>4
      <4>6. toPeer' = [d \in Conns |-> IF d = c THEN Append(toPeer[d], a)
                                 ELSE IF d \in mm THEN Append(toPeer[d], m) ELSE toPeer[d]]
        BY <1>12, <1>13, <1>15, <1>18, <4>1, <4>2
      <4> QED
        BY <4>1, <4>3, <4>5, <4>6
    <3>4. (pc # "dead")' = (pc # "dead")
      BY <1>1, <1>18
    <3> QED
      BY <1>1, <1>12, <2>6, <3>1, <3>2, <3>3, <3>4 DEF Room!Join, Room!Cardinality, Cardinality
  <2>8. Room!Next
    BY <1>7, <2>7 DEF Room!Next
  <2> QED
    BY <2>1, <2>4, <2>5, <2>8 DEF RoomOpen
<1> QED
  BY <1>17, <1>18

(* Without the entry of the one who leaves the members are the others. *)
LEMMA LeaverIsNoMember ==
  ASSUME Inductive, Inductive', NEW f \in Fds, DropClient(f), pc' # "dead",
         NEW c \in Conns, c = sock[f]
  PROVE  member' = [member EXCEPT ![c] = None]
<1>1. /\ pc # "dead" /\ f \in master /\ f # listen_fd
      /\ RosterOfWatched /\ RosterIsMembers
  BY Running, RosterHasMembers, DescriptorsAreNumbers DEF DropClient, Current, NothingBlocks
<1>2. PICK r \in 1 .. client_count : clients[r].socket_fd = f
  BY <1>1 DEF RosterOfWatched
<1>3. /\ sock' = [sock EXCEPT ![f] = None] /\ client_count' = client_count - 1
      /\ clients' = RemoveClient(f)
  BY DEF DropClient
<1> DEFINE old(i) == IF i < r THEN i ELSE i + 1
           connThen(i) == sock'[clients'[i].socket_fd]
<1>4. client_count \in Nat /\ client_count - 1 \in Nat /\ r \in Nat
  BY <1>1, <1>2 DEF RosterIsMembers
<1>5. \A i \in 1 .. client_count - 1 : old(i) \in (1 .. client_count) \ {r}
  BY <1>4
<1>6. \A k \in (1 .. client_count) \ {r} : \E i \in 1 .. client_count - 1 : old(i) = k
  <2> SUFFICES ASSUME NEW k \in (1 .. client_count) \ {r}
               PROVE  \E i \in 1 .. client_count - 1 : old(i) = k
    OBVIOUS
  <2>1. CASE k < r
    <3>1. k \in 1 .. client_count - 1 /\ old(k) = k
      BY <1>2, <1>4, <2>1
    <3> QED
      BY <3>1
  <2>2. CASE r < k
    <3>1. k - 1 \in 1 .. client_count - 1 /\ old(k - 1) = k
      BY <1>2, <1>4, <2>2
    <3> QED
      BY <3>1
  <2> QED
    BY <1>4, <2>1, <2>2
<1>7. \A i \in 1 .. client_count - 1 : clients'[i] = clients[old(i)]
  BY <1>1, <1>2, <1>3, RemoveClientShifts DEF Inductive
<1> HIDE DEF old
<1>8. \A i \in 1 .. client_count - 1 : connThen(i) = ConnOf(old(i))
  <2>1. \A k \in (1 .. client_count) \ {r} : clients[k].socket_fd \in Fds \ {f}
    BY <1>1, <1>2 DEF RosterOfWatched, RosterIsMembers
  <2>2. \A g \in Fds \ {f} : sock'[g] = sock[g]
    BY <1>3 DEF Inductive, TypeOK
  <2> QED
    BY <1>5, <1>7, <2>1, <2>2 DEF ConnOf
<1>9. /\ \A i \in 1 .. client_count - 1 : member'[connThen(i)] = clients'[i].user_name
      /\ \A d \in Conns :
            (\A i \in 1 .. client_count - 1 : connThen(i) # d) => member'[d] = None
  BY <1>3, RosterHasMembersThen DEF RosterIsMembers, ConnOf
<1> HIDE DEF connThen
<1>10. ConnOf(r) = c
  BY <1>2 DEF ConnOf
<1>11. member'[c] = None
  <2>1. \A k \in (1 .. client_count) \ {r} : ConnOf(k) # c
    BY <1>1, <1>2, <1>10 DEF RosterIsMembers
  <2> QED
    BY <1>5, <1>8, <1>9, <2>1
<1>12. ASSUME NEW d \in Conns \ {c} PROVE member'[d] = member[d]
  <2>1. CASE \E k \in 1 .. client_count : ConnOf(k) = d
    <3>1. PICK k \in (1 .. client_count) \ {r} : ConnOf(k) = d
      BY <1>10, <2>1
    <3>2. PICK i \in 1 .. client_count - 1 : old(i) = k
      BY <1>6
    <3> QED
      BY <1>1, <1>7, <1>8, <1>9, <3>1, <3>2 DEF RosterIsMembers
  <2>2. CASE \A k \in 1 .. client_count : ConnOf(k) # d
    BY <1>1, <1>5, <1>8, <1>9, <2>2 DEF RosterIsMembers
  <2> QED
    BY <2>1, <2>2
<1>13. member = [d \in Conns |-> member[d]] /\ member' = [d \in Conns |-> member'[d]]
  BY DEF member
<1> HIDE DEF member
<1> QED
  BY <1>11, <1>12, <1>13

(* Whoever is dropped leaves, and all the others hear of it. *)
LEMMA DropClientIsLeave ==
  ASSUME Inductive, Inductive', RoomOpen, NEW f \in Fds, DropClient(f)
  PROVE  RoomOpen' /\ Room!Next
<1>1. /\ pc # "dead" /\ f \in master /\ Heard /\ Listed /\ Greeting
  BY Running DEF DropClient, Current, NothingBlocks, RoomOpen
<1>2. PICK c \in Conns : c = sock[f]
  BY <1>1, Running, DescriptorsAreNumbers
<1>3. /\ NameOf(f) \in Names /\ NameOf(f) = member[c] /\ c \in Room!Members
      /\ {sock[g] : g \in Others(f, master, fdmax)} = Room!Members \ {c}
  BY <1>1, <1>2, NameOfMember, OthersAreMembers
<1>4. PICK m \in Answers : m = Message("OFFLINE", member[c])
  BY <1>3 DEF Message, Answers
<1>5. PICK ends : ends = [peer EXCEPT ![c] = "done"]
  OBVIOUS
<1>6. PICK next \in {"select", "scan"} : next = Continue(read_fds \ {f})
  BY DEF Continue
<1>7. /\ Broadcast(Others(f, master, fdmax), m, toPeer, ends, next)
      /\ sock' = [sock EXCEPT ![f] = None]
      /\ clients' = RemoveClient(f) /\ client_count' = client_count - 1
      /\ UNCHANGED <<backlog, sent, toServer, new_fd>>
  BY <1>2, <1>3, <1>4, <1>5, <1>6 DEF DropClient
<1>8. /\ toPeer' = [d \in Conns |-> toPeer'[d]]
      /\ \A d \in Conns : toPeer'[d] = toPeer[d] \/ toPeer'[d] = Append(toPeer[d], m)
      /\ pc' \in {"select", "scan", "dead"}
      /\ pc' # "dead" =>
           toPeer' = [d \in Conns |-> IF d \in Room!Members \ {c}
                                      THEN Append(toPeer[d], m) ELSE toPeer[d]]
  <2>1. PICK targets : targets = Others(f, master, fdmax)
    OBVIOUS
  <2>2. Broadcast(targets, m, toPeer, ends, next)
    BY <1>7, <2>1
  <2>3. {sock[g] : g \in targets} = Room!Members \ {c}
    BY <1>3, <2>1
  <2> QED
    BY <2>2, <2>3, BroadcastHeard
<1>9. CASE pc' = "dead"
  <2>1. Room!Close
    BY <1>1, <1>8, <1>9, Closing
  <2> QED
    BY <1>9, <2>1 DEF RoomOpen, Room!Next
<1>10. CASE pc' # "dead"
  <2>1. Heard'
    BY <1>1, <1>8, HeardStill
  <2>2. Listed'
    <3>1. RosterOfWatched /\ TypeOK /\ client_count \in Nat
      BY <1>1, Running, RosterHasMembers DEF Inductive, RosterIsMembers
    <3>2. f \in master \ {listen_fd}
      BY <1>1, DescriptorsAreNumbers
    <3>3. PICK r \in 1 .. client_count : clients[r].socket_fd = f
      BY <3>1, <3>2 DEF RosterOfWatched
    <3>4. \A i \in 1 .. client_count - 1 :
             clients'[i] = IF i < r THEN clients[i] ELSE clients[i + 1]
      BY <1>7, <3>1, <3>3, RemoveClientShifts
    <3>5. \A i \in 1 .. client_count - 1 : i \in 1 .. client_count /\ i + 1 \in 1 .. client_count
      BY <3>1
    <3> QED
      BY <1>1, <1>7, <3>4, <3>5 DEF Listed
  <2>3. Greeting'
    <3>1. /\ peer[c] # "new" /\ \A i \in 1 .. Len(backlog) : backlog[i] # c
      BY <1>1, <1>2, NotWaiting, ChatAssumption
    <3>2. \A d \in Conns : peer'[d] = "new" => peer[d] = "new"
      <4>1. PICK targets : targets = Others(f, master, fdmax)
        OBVIOUS
      <4>2. Broadcast(targets, m, toPeer, ends, next)
        BY <1>7, <4>1
      <4>3. /\ ends \in [Conns -> PeerStates]
            /\ \A d \in Conns : ends[d] = "new" => peer[d] = "new"
        BY <1>5 DEF PeerStates, Inductive, TypeOK
      <4> QED
        BY <4>2, <4>3, BroadcastEffect
    <3>3. \A d \in Conns : Waiting(d)' => Waiting(d)
      BY <1>7, <1>8, <3>2 DEF Waiting
    <3> QED
      BY <1>1, <1>7, <3>3 DEF Greeting, Greets
  <2>4. member' = [member EXCEPT ![c] = None]
    BY <1>2, <1>10, LeaverIsNoMember
  <2>5. toPeer' = Room!Tell(Room!Members \ {c}, Room!Message("OFFLINE", member[c]))
    BY <1>4, <1>8, <1>10 DEF Room!Tell, Room!Message, Message
  <2>6. (pc # "dead")' = (pc # "dead")
    BY <1>1, <1>10
  <2>7. Room!Leave(c)
    BY <1>1, <1>3, <2>4, <2>5, <2>6 DEF Room!Leave
  <2>8. Room!Next
    BY <2>7 DEF Room!Next
  <2> QED
    BY <2>1, <2>2, <2>3, <2>8 DEF RoomOpen
<1> QED
  BY <1>9, <1>10

(* Every step of the server and its clients is a step of the room or is not   *)
(* seen there.                                                                *)
LEMMA RoomStep ==
  ASSUME Inductive, Inductive', RoomOpen, [Next]_vars
  PROVE  RoomOpen' /\ (Room!Next \/ Unseen)
<1>1. CASE ClientStep
  BY <1>1, ClientStepIsUnseen
<1>2. CASE ServerStep
  BY <1>2, SelectIsUnseen, AcceptIsUnseen, RefuseJoinIsRefuse, AcceptJoinIsJoin,
     ForwardIsSay, DropClientIsLeave, RecvKillsIsClose DEF ServerStep
<1>3. CASE UNCHANGED vars
  <2>1. Unseen
    BY <1>3 DEF Unseen, member, Entries, vars
  <2>2. RoomOpen'
    BY <1>3 DEF RoomOpen, Heard, Listed, Greeting, Greets, Waiting, newcomer, vars
  <2> QED
    BY <2>1, <2>2
<1> QED
  BY <1>1, <1>2, <1>3 DEF Next

(* The server is the room: whoever joins, speaks or leaves is told to every   *)
(* other member once, in one order, and to nobody else, and a newcomer is     *)
(* turned away only from a full room or for a name in use; for any number of  *)
(* connections and names and any capacity.                                    *)
THEOREM ServerIsRoom == Spec => ImplementsRoom
<1>1. Init => RoomOpen /\ Room!Init
  BY RoomInit
<1>2. Inductive /\ Inductive' /\ RoomOpen /\ [Next]_vars
        => RoomOpen' /\ [Room!Next]_(Room!vars)
  BY RoomStep DEF Unseen, Room!vars
<1> QED
  BY <1>1, <1>2, InductiveHolds, PTL DEF Spec, ImplementsRoom, Room!Spec

------------------------------------------------------------------------------
Client == INSTANCE ChatClientProofs WITH peer <- link

LEMMA ClientLemmas ==
  /\ Client!Init => Client!Inductive
  /\ Client!Inductive /\ [Client!Next]_(Client!vars) => Client!Inductive'
BY SystemAssumption, Client!InductiveInit, Client!InductiveStep DEF Client!ClientAssumption

LEMMA UserIsClient ==
  /\ User!Running <=> Client!Running
  /\ User!Init <=> Client!Init
  /\ User!Type <=> Client!Type
  /\ User!EndInput <=> Client!EndInput
  /\ User!CloseServer <=> Client!CloseServer
  /\ User!Tick <=> Client!Tick
  /\ \A m : User!Tell(m) <=> Client!Tell(m)
  /\ User!MainStep <=> Client!MainStep
  /\ User!IdleStep <=> Client!IdleStep
<1>1. User!Running <=> Client!Running
  BY DEF User!Running, Client!Running, User!Ends, Client!Ends
<1>2. User!Init <=> Client!Init
  BY DEF User!Init, Client!Init
<1>3. User!Type <=> Client!Type
  BY DEF User!Type, Client!Type, User!Entered, Client!Entered, User!Count, Client!Count,
         User!serverVars, Client!serverVars, User!idleVars, Client!idleVars, User!Cardinality,
         Client!Cardinality
<1>4. User!EndInput <=> Client!EndInput
  BY DEF User!EndInput, Client!EndInput, User!serverVars, Client!serverVars, User!idleVars,
         Client!idleVars
<1>5. User!CloseServer <=> Client!CloseServer
  BY DEF User!CloseServer, Client!CloseServer, User!inputVars, Client!inputVars,
         User!serverVars, Client!serverVars, User!idleVars, Client!idleVars
<1>6. User!Tick <=> Client!Tick
  BY DEF User!Tick, Client!Tick, User!inputVars, Client!inputVars, User!serverVars,
         Client!serverVars
<1>7. \A m : User!Tell(m) <=> Client!Tell(m)
  BY DEF User!Tell, Client!Tell, User!inputVars, Client!inputVars, User!idleVars,
         Client!idleVars
<1>8. User!MainStep <=> Client!MainStep
  BY DEF User!MainStep, Client!MainStep, User!Join, Client!Join, User!Survives, Client!Survives,
         User!SendMessage, Client!SendMessage, User!MainAt, Client!MainAt, User!inputVars,
         Client!inputVars, User!serverVars, Client!serverVars, User!Select, Client!Select,
         User!Watched, Client!Watched, User!Readable, Client!Readable, User!idleVars,
         Client!idleVars, User!GetLine, Client!GetLine, User!AtEof, Client!AtEof,
         User!InputEnds, Client!InputEnds, User!ClearFlag, Client!ClearFlag, User!Cleared,
         Client!Cleared, User!SendLine, Client!SendLine, User!AfterInput, Client!AfterInput,
         User!HearServer, Client!HearServer
<1>9. User!IdleStep <=> Client!IdleStep
  BY DEF User!IdleStep, Client!IdleStep, User!SetTimeout, Client!SetTimeout, User!IdleAt,
         Client!IdleAt, User!Running, Client!Running, User!Ends, Client!Ends, User!Timeout,
         Client!Timeout, User!inputVars, Client!inputVars, User!serverVars, Client!serverVars,
         User!StartWaiting, Client!StartWaiting, User!TimesOut, Client!TimesOut, User!TestFlag,
         Client!TestFlag, User!SetFlag, Client!SetFlag, User!Announced, Client!Announced,
         User!SendIdle, Client!SendIdle, User!Survives, Client!Survives, User!SendMessage,
         Client!SendMessage
<1> QED
  BY <1>1, <1>2, <1>3, <1>4, <1>5, <1>6, <1>7, <1>8, <1>9

LEMMA UserStepIsClients == [User!Next]_(User!vars) <=> [Client!Next]_(Client!vars)
<1>1. User!Next <=> Client!Next
  BY UserIsClient DEF User!Next, Client!Next
<1>2. UNCHANGED User!vars <=> UNCHANGED Client!vars
  BY DEF User!vars, Client!vars, User!idleVars, Client!idleVars, User!inputVars,
         Client!inputVars, User!serverVars, Client!serverVars
<1> QED
  BY <1>1, <1>2

(* A function that chooses: at each place what is chosen up to there *)
Chooses(f, s, A, k) ==
  f = [n \in 0 .. k |-> IF n = 0 THEN <<>>
                        ELSE IF s[n] \in A THEN Append(f[n - 1], s[n]) ELSE f[n - 1]]

LEMMA ChoosingExists ==
  ASSUME NEW s, NEW A, NEW k \in Nat
  PROVE  \E f : Chooses(f, s, A, k)
<1> DEFINE Bad == {j \in Nat : \A f : ~Chooses(f, s, A, j)}
<1> SUFFICES ASSUME Bad # {} PROVE FALSE
  OBVIOUS
<1>1. PICK j \in Bad : \A i \in Bad : ~(<<i, j>> \in OpToRel(<, Nat))
  BY WFMin, NatLessThanWellFounded
<1>2. \A i \in Bad : ~(i < j)
  BY <1>1 DEF OpToRel
<1>3. j \in Nat /\ \A f : ~Chooses(f, s, A, j)
  OBVIOUS
<1>4. j # 0
  <2>1. Chooses([n \in 0 .. 0 |-> <<>>], s, A, 0)
    BY DEF Chooses
  <2> QED
    BY <1>3, <2>1
<1>5. PICK f : Chooses(f, s, A, j - 1)
  BY <1>2, <1>3, <1>4
<1>6. PICK g : g = [n \in 0 .. j |-> IF n < j THEN f[n]
                                     ELSE IF s[n] \in A THEN Append(f[n - 1], s[n]) ELSE f[n - 1]]
  OBVIOUS
<1>7. Chooses(g, s, A, j)
  <2>1. \A n \in 0 .. j : g[n] = IF n = 0 THEN <<>>
                   ELSE IF s[n] \in A THEN Append(g[n - 1], s[n]) ELSE g[n - 1]
    <3>1. \A n \in 0 .. j - 1 : f[n] = IF n = 0 THEN <<>>
                   ELSE IF s[n] \in A THEN Append(f[n - 1], s[n]) ELSE f[n - 1]
      BY <1>5 DEF Chooses
    <3> QED
      BY <1>3, <1>4, <1>6, <3>1
  <2> HIDE DEF Bad
  <2>2. g = [n \in 0 .. j |-> g[n]]
    BY <1>6
  <2> QED
    BY <2>1, <2>2 DEF Chooses
<1> QED
  BY <1>3, <1>7

LEMMA ChosenIs ==
  ASSUME NEW X, NEW s \in Seq(X), NEW A
  PROVE  \E f : Chooses(f, s, A, Len(s)) /\ Chosen(s, A) = f[Len(s)]
<1> DEFINE upTo == CHOOSE f : Chooses(f, s, A, Len(s))
<1>1. Len(s) \in Nat
  BY LenProperties
<1>2. Chooses(upTo, s, A, Len(s))
  BY <1>1, ChoosingExists
<1>3. Chosen(s, A) = upTo[Len(s)]
  BY DEF Chosen, Chooses
<1> QED
  BY <1>2, <1>3

(* What is chosen of a sequence depends on its elements only. *)
Agree(s, t, k) == \A i \in 1 .. k : s[i] = t[i]

LEMMA ChoosingAgrees ==
  ASSUME NEW s, NEW t, NEW A, NEW f, NEW g, NEW k \in Nat,
         Chooses(f, s, A, k), Chooses(g, t, A, k + 1), Agree(s, t, k)
  PROVE  f[k] = g[k]
<1> DEFINE Bad == {j \in 0 .. k : f[j] # g[j]}
<1> SUFFICES ASSUME Bad # {} PROVE FALSE
  OBVIOUS
<1>1. PICK j \in Bad : \A i \in Bad : ~(<<i, j>> \in OpToRel(<, Nat))
  <2>1. Bad \in SUBSET Nat
    OBVIOUS
  <2> QED
    BY <2>1, WFMin, NatLessThanWellFounded
<1>2. \A i \in Bad : ~(i < j)
  <2>1. \A i \in Bad : i \in Nat
    OBVIOUS
  <2> HIDE DEF Bad
  <2> QED
    BY <1>1, <2>1 DEF OpToRel
<1>3. /\ \A n \in 0 .. k : f[n] = IF n = 0 THEN <<>>
                   ELSE IF s[n] \in A THEN Append(f[n - 1], s[n]) ELSE f[n - 1]
      /\ \A n \in 0 .. k + 1 : g[n] = IF n = 0 THEN <<>>
                   ELSE IF t[n] \in A THEN Append(g[n - 1], t[n]) ELSE g[n - 1]
  BY DEF Chooses
<1>4. j \in 0 .. k /\ f[j] # g[j]
  OBVIOUS
<1>5. j # 0
  BY <1>3, <1>4
<1>6. f[j - 1] = g[j - 1]
  BY <1>2, <1>4, <1>5
<1> HIDE DEF Bad
<1>7. /\ f[j] = IF s[j] \in A THEN Append(f[j - 1], s[j]) ELSE f[j - 1]
      /\ g[j] = IF t[j] \in A THEN Append(g[j - 1], t[j]) ELSE g[j - 1]
      /\ s[j] = t[j]
  BY <1>3, <1>4, <1>5 DEF Agree
<1> QED
  BY <1>4, <1>6, <1>7

(* What is chosen of no elements, ... *)
LEMMA ChosenOfNone == \A A : Chosen(<<>>, A) = <<>>
<1> SUFFICES ASSUME NEW A PROVE Chosen(<<>>, A) = <<>>
  OBVIOUS
<1>1. <<>> \in Seq({}) /\ Len(<<>>) = 0
  BY EmptySeq
<1>2. PICK f : Chooses(f, <<>>, A, 0) /\ Chosen(<<>>, A) = f[0]
  BY <1>1, ChosenIs
<1> QED
  BY <1>2 DEF Chooses

(* ... of one more, ... *)
LEMMA ChosenGrows ==
  ASSUME NEW X, NEW s \in Seq(X), NEW x \in X, NEW A
  PROVE  Chosen(Append(s, x), A)
           = IF x \in A THEN Append(Chosen(s, A), x) ELSE Chosen(s, A)
<1>1. PICK t \in Seq(X) : t = Append(s, x)
  BY AppendProperties
<1>2. PICK n \in Nat : n = Len(s)
  BY LenProperties
<1>3. /\ Len(t) = n + 1 /\ t[n + 1] = x
      /\ \A i \in 1 .. n : s[i] = t[i]
  BY <1>1, <1>2, AppendProperties
<1>4. PICK f : Chooses(f, s, A, n) /\ Chosen(s, A) = f[n]
  BY <1>2, ChosenIs
<1>5. PICK g : Chooses(g, t, A, n + 1) /\ Chosen(t, A) = g[n + 1]
  BY <1>3, ChosenIs
<1>6. f[n] = g[n]
  <2>1. Chooses(f, s, A, n)
    BY <1>4
  <2>2. Chooses(g, t, A, n + 1)
    BY <1>5
  <2>3. Agree(s, t, n)
    BY <1>3 DEF Agree
  <2> QED
    BY <2>1, <2>2, <2>3, ChoosingAgrees
<1>7. \A m \in 0 .. n + 1 : g[m] = IF m = 0 THEN <<>>
                   ELSE IF t[m] \in A THEN Append(g[m - 1], t[m]) ELSE g[m - 1]
  BY <1>5 DEF Chooses
<1>8. g[n + 1] = IF t[n + 1] \in A THEN Append(g[n], t[n + 1]) ELSE g[n]
  BY <1>7
<1> QED
  BY <1>1, <1>3, <1>4, <1>5, <1>6, <1>8

(* ... and that it is a sequence *)
LEMMA ChosenType ==
  ASSUME NEW X, NEW s \in Seq(X), NEW A
  PROVE  Chosen(s, A) \in Seq(X \cap A)
<1> DEFINE k == Len(s)
<1>1. k \in Nat /\ \A i \in 1 .. k : s[i] \in X
  BY LenProperties, ElementOfSeq
<1>2. PICK f : Chooses(f, s, A, k) /\ Chosen(s, A) = f[k]
  BY ChosenIs
<1> DEFINE Bad == {j \in 0 .. k : f[j] \notin Seq(X \cap A)}
<1> SUFFICES ASSUME Bad # {} PROVE FALSE
  BY <1>1, <1>2
<1>3. PICK j \in Bad : \A i \in Bad : ~(<<i, j>> \in OpToRel(<, Nat))
  <2>1. Bad \in SUBSET Nat
    BY <1>1
  <2> QED
    BY <2>1, WFMin, NatLessThanWellFounded
<1>4. \A i \in Bad : ~(i < j)
  <2>1. \A i \in Bad : i \in Nat
    BY <1>1
  <2> HIDE DEF Bad
  <2> QED
    BY <1>3, <2>1 DEF OpToRel
<1>5. \A n \in 0 .. k : f[n] = IF n = 0 THEN <<>>
                   ELSE IF s[n] \in A THEN Append(f[n - 1], s[n]) ELSE f[n - 1]
  BY <1>2 DEF Chooses
<1>6. j \in 0 .. k /\ f[j] \notin Seq(X \cap A)
  OBVIOUS
<1> HIDE DEF k
<1>7. j # 0
  BY <1>5, <1>6, EmptySeq
<1>8. f[j - 1] \in Seq(X \cap A)
  BY <1>1, <1>4, <1>6, <1>7
<1> HIDE DEF Bad
<1>9. f[j] = IF s[j] \in A THEN Append(f[j - 1], s[j]) ELSE f[j - 1]
  BY <1>1, <1>5, <1>6, <1>7
<1>10. s[j] \in X
  BY <1>1, <1>6, <1>7
<1>11. s[j] \in A => s[j] \in X \cap A
  BY <1>10
<1> QED
  BY <1>6, <1>8, <1>9, <1>11, AppendProperties

------------------------------------------------------------------------------
(* The user's part: what a step of his client hands to send *)
Sayings == {"JOIN", "SEND", "IDLE"}

UserBegins ==
  IF mainPc = "join"
  THEN /\ log = <<>> /\ sent[user] = 0 /\ toServer[user] = <<>>
       /\ peer[user] \in {"new", "open"} /\ idlePc = "none"
  ELSE sent[user] >= 1 /\ peer[user] # "new"

UserEnds ==
  /\ peer[user] \in {"closed", "broken", "reset"} => ~User!Running
  /\ told \in Nat /\ told <= Len(toPeer[user])

UserCounts ==
  /\ sent[user] <= Client!Count("JOIN") + Client!Count("SEND") + Client!Count("IDLE")
  /\ Client!Count("JOIN") <= 1

(* A step of a thread notes at most one thing; the first is the JOIN. *)
LEMMA ThreadSteps ==
  ASSUME Client!Inductive, UserBegins, Client!MainStep \/ Client!IdleStep
  PROVE  /\ User!Running /\ told' = told /\ mainPc' # "join"
         /\ \/ log' = log
            \/ Client!ClearFlag /\ log' = Append(log, "line")
            \/ Client!Join /\ log' = Append(log, "JOIN")
            \/ Client!SendLine /\ Client!Survives /\ log' = Append(log, "SEND")
            \/ Client!SendIdle /\ Client!Survives /\ log' = Append(log, "IDLE")
<1>1. CASE Client!MainStep
  <2>1. Client!MainStep => mainPc \notin Client!Ends /\ told' = told
    BY DEF Client!MainStep, Client!Join, Client!Select, Client!GetLine, Client!InputEnds,
           Client!ClearFlag, Client!SendLine, Client!HearServer, Client!MainAt, Client!Ends,
           Client!serverVars
  <2>2. mainPc' # "join"
    BY <1>1 DEF Client!MainStep, Client!Join, Client!Select, Client!GetLine, Client!InputEnds,
           Client!ClearFlag, Client!SendLine, Client!HearServer, Client!AfterInput
  <2>3. \/ log' = log
        \/ Client!ClearFlag /\ log' = Append(log, "line")
        \/ Client!Join /\ log' = Append(log, "JOIN")
        \/ Client!SendLine /\ Client!Survives /\ log' = Append(log, "SEND")
    <3>1. CASE Client!Join \/ Client!SendLine
      BY <3>1 DEF Client!Join, Client!SendLine, Client!SendMessage
    <3>2. CASE Client!Select \/ Client!GetLine \/ Client!InputEnds \/ Client!HearServer
      BY <3>2 DEF Client!Select, Client!GetLine, Client!InputEnds, Client!HearServer
    <3>3. CASE Client!ClearFlag
      BY <3>3 DEF Client!ClearFlag
    <3> QED
      BY <1>1, <3>1, <3>2, <3>3 DEF Client!MainStep
  <2> QED
    BY <1>1, <2>1, <2>2, <2>3, UserIsClient DEF Client!Running
<1>2. CASE Client!IdleStep
  <2>1. Client!Running /\ told' = told /\ mainPc' \in {mainPc, "killed"} /\ idlePc # "none"
    BY <1>2 DEF Client!IdleStep, Client!SetTimeout, Client!StartWaiting, Client!TimesOut,
                Client!TestFlag, Client!SetFlag, Client!SendIdle, Client!IdleAt, Client!serverVars
  <2>2. log' = log \/ (Client!SendIdle /\ Client!Survives /\ log' = Append(log, "IDLE"))
    BY <1>2 DEF Client!IdleStep, Client!SetTimeout, Client!StartWaiting, Client!TimesOut,
                Client!TestFlag, Client!SetFlag, Client!SendIdle, Client!SendMessage
  <2>3. mainPc # "join"
    BY <2>1 DEF UserBegins
  <2> QED
    BY <2>1, <2>2, <2>3, UserIsClient
<1> QED
  BY <1>1, <1>2

(* Nothing noted counts as nothing, ... *)
LEMMA NothingNoted == log = <<>> => \A w : Client!Count(w) = 0
<1> SUFFICES ASSUME log = <<>>, NEW w PROVE Client!Count(w) = 0
  OBVIOUS
<1>1. {i \in DOMAIN log : log[i] = w} = {}
  OBVIOUS
<1>2. Cardinality({}) = 0
  BY FS_EmptySet
<1> QED
  BY <1>1, <1>2 DEF Client!Count, Client!Cardinality, Cardinality

(* ... a note more counts, ... *)
LEMMA NotedOnce ==
  ASSUME Client!Inductive, NEW m \in Sayings \cup {"line"}, log' = Append(log, m), NEW w
  PROVE  /\ Client!Count(w) \in Nat
         /\ Client!Count(w)' = Client!Count(w) + IF m = w THEN 1 ELSE 0
<1>1. Client!Messages /\ m \in Client!Notes
  BY DEF Client!Inductive, Client!Notes, Sayings
<1>2. Client!Count(w) \in Nat
  BY <1>1, Client!CountType, SystemAssumption DEF Client!ClientAssumption
<1>3. Client!Count(w)' = Client!Count(w) + Client!One(m = w)
  BY <1>1, Client!Noted, SystemAssumption DEF Client!ClientAssumption
<1> QED
  BY <1>2, <1>3 DEF Client!One

(* ... and the messages are within the bound of ChatServer's clients: the     *)
(* JOIN, and as many as the lines allow. *)
LEMMA SaysAreFew ==
  ASSUME Inductive, Client!Inductive, UserBegins, UserCounts,
         Client!MainStep \/ Client!IdleStep,
         NEW m \in Sayings, log' = Append(log, m)
  PROVE  /\ m # "JOIN" => sent[user] <= MaxSays
         /\ m = "JOIN" <=> mainPc = "join"
         /\ Client!Count("JOIN")' <= 1
         /\ Client!Count("JOIN")' + Client!Count("SEND")' + Client!Count("IDLE")'
              = Client!Count("JOIN") + Client!Count("SEND") + Client!Count("IDLE") + 1
<1> DEFINE j == Client!Count("JOIN")
           s == Client!Count("SEND")
           i == Client!Count("IDLE")
           l == Client!Count("line")
<1>1. /\ j \in Nat /\ j' = j + IF m = "JOIN" THEN 1 ELSE 0
      /\ s \in Nat /\ s' = s + IF m = "SEND" THEN 1 ELSE 0
      /\ i \in Nat /\ i' = i + IF m = "IDLE" THEN 1 ELSE 0
      /\ l \in Nat
  BY NotedOnce DEF Sayings
<1>2. /\ m = "JOIN" => Client!Join
      /\ m = "SEND" => Client!SendLine
      /\ m = "IDLE" => Client!SendIdle
  <2>1. log \in Seq(Client!Notes)
    BY DEF Client!Inductive, Client!Messages
  <2>2. Len(log') = Len(log) + 1 /\ log'[Len(log) + 1] = m /\ Len(log) \in Nat
    BY <2>1, AppendProperties, LenProperties DEF Client!Notes, Sayings
  <2>3. \A n \in {"line", "JOIN", "SEND", "IDLE"} : log' = Append(log, n) => m = n
    <3>1. \A n : Append(log, n)[Len(log) + 1] = n
      BY <2>1
    <3> QED
      BY <2>2, <3>1
  <2>4. log' # log
    BY <2>2
  <2> QED
    BY <2>3, <2>4, ThreadSteps
<1>3. MaxSays \in Nat /\ MaxLines \in Nat /\ MaxSays >= 2 * MaxLines + 1
  BY ChatAssumption, SystemAssumption
<1>4. l <= MaxLines
  <2>1. /\ l + keyboard + buffered + Client!One(mainPc = "clear") <= MaxLines
        /\ keyboard \in Nat /\ buffered \in Nat /\ Client!One(mainPc = "clear") \in Nat
    BY <1>3 DEF Client!Inductive, Client!LinesAreCounted, Client!TypeOK, Client!One
  <2> HIDE DEF l
  <2> QED
    BY <1>1, <1>3, <2>1
<1>5. mainPc = "join" => j = 0
  BY NothingNoted DEF UserBegins
<1>6. m = "JOIN" <=> mainPc = "join"
  <2>1. m = "JOIN" => mainPc = "join"
    BY <1>2 DEF Client!Join, Client!MainAt
  <2>2. m = "SEND" => mainPc # "join"
    BY <1>2 DEF Client!SendLine, Client!MainAt
  <2>3. m = "IDLE" => mainPc # "join"
    BY <1>2 DEF Client!SendIdle, Client!IdleAt, UserBegins
  <2> QED
    BY <2>1, <2>2, <2>3 DEF Sayings
<1>7. ASSUME m # "JOIN" PROVE j + s + i <= 2 * l + 1
  <2>1. mainPc # "killed" /\ j <= 1
    BY ThreadSteps DEF User!Running, User!Ends, UserCounts
  <2>2. l = s + Client!One(mainPc = "send")
    BY <2>1 DEF Client!Inductive, Client!LinesAreSent
  <2>3. i + Client!One(idlePc = "send") <= l + Client!One(isIdleMessage)
    BY DEF Client!Inductive, Client!FlagPays
  <2>4. m = "SEND" => Client!One(mainPc = "send") = 1
    BY <1>2 DEF Client!SendLine, Client!MainAt, Client!One
  <2>5. m = "IDLE" => Client!One(idlePc = "send") = 1
    BY <1>2 DEF Client!SendIdle, Client!IdleAt, Client!One
  <2>6. \A b : Client!One(b) \in {0, 1}
    BY DEF Client!One
  <2> HIDE DEF j, s, i, l
  <2>7. PICK a \in {0, 1} : a = Client!One(mainPc = "send")
    BY <2>6
  <2>8. PICK b \in {0, 1} : b = Client!One(idlePc = "send")
    BY <2>6
  <2>9. PICK c \in {0, 1} : c = Client!One(isIdleMessage)
    BY <2>6
  <2>10. /\ l = s + a /\ i + b <= l + c /\ (a = 1 \/ b = 1)
    BY <1>7, <2>2, <2>3, <2>4, <2>5, <2>7, <2>8, <2>9 DEF Sayings
  <2> QED
    BY <1>1, <2>1, <2>10
<1>8. sent[user] <= j + s + i
  BY DEF UserCounts
<1> HIDE DEF j, s, i, l
<1>9. m # "JOIN" => sent[user] <= MaxSays
  <2>1. sent[user] \in 0 .. 1 + MaxSays
    BY SystemAssumption DEF Inductive, TypeOK
  <2>2. sent[user] \in Int
    BY <1>3, <2>1
  <2>3. ASSUME m # "JOIN" PROVE sent[user] <= 2 * l + 1
    BY <1>1, <1>7, <1>8, <2>2, <2>3
  <2> QED
    BY <1>1, <1>3, <1>4, <2>2, <2>3
<1>10. j' <= 1
  BY <1>1, <1>5, <1>6 DEF UserCounts, j
<1>11. j' + s' + i' = j + s + i + 1
  BY <1>1 DEF Sayings
<1> QED
  BY <1>6, <1>9, <1>10, <1>11 DEF j, s, i

------------------------------------------------------------------------------
(* What each step of the server changes, also the one in which it dies *)

(* The loop breaks closed ends. *)
PeersBreak(ends) ==
  \A d \in Conns : peer'[d] = ends[d] \/ (ends[d] = "closed" /\ peer'[d] = "broken")

(* A NAK, and the connection is closed. *)
LEMMA RefuseEffect ==
  ASSUME Inductive, Inductive', RoomOpen, RefuseJoin
  PROVE  /\ newcomer \in Conns /\ new_fd \in Fds /\ sock[new_fd] = newcomer
         /\ toServer[newcomer] # <<>> \/ peer[newcomer] = "closed"
         /\ \E name \in Names :
              toPeer' = [toPeer EXCEPT ![newcomer] = Append(@, Message("NAK", name))]
         /\ member' = member /\ member[newcomer] = None
         /\ peer' = [peer EXCEPT ![newcomer] = "done"]
         /\ toServer' = [toServer EXCEPT ![newcomer] = <<>>]
         /\ sock' = [sock EXCEPT ![new_fd] = None]
         /\ pc # "dead" /\ pc' # "dead"
         /\ UNCHANGED <<backlog, sent>>
<1>1. pc = "join"
  BY DEF RefuseJoin
<1>2. new_fd \in Fds \ master /\ newcomer \in Conns /\ sock[new_fd] = newcomer
  BY <1>1, Running DEF newcomer
<1>3. PICK name \in JoinNames :
        toPeer' = [toPeer EXCEPT ![newcomer] = Append(@, Message("NAK", name))]
  BY DEF RefuseJoin
<1>4. name \in Names
  BY <1>1, <1>3, NewcomerHasName
<1>5. toServer[newcomer] # <<>> \/ peer[newcomer] = "closed"
  BY <1>3 DEF JoinNames
<1>6. /\ peer' = [peer EXCEPT ![newcomer] = "done"]
      /\ toServer' = [toServer EXCEPT ![newcomer] = <<>>]
      /\ sock' = [sock EXCEPT ![new_fd] = None]
      /\ pc' \in {"select", "scan"}
      /\ UNCHANGED <<backlog, sent, new_fd, clients, client_count>>
  BY DEF RefuseJoin, Continue, roster
<1>7. \A i \in 1 .. client_count : ConnOf(i) # newcomer
  BY <1>1, <1>2, NotWaiting, ChatAssumption
<1>8. RosterIsMembers /\ RosterIsMembers'
  BY <1>1, <1>6, RosterHasMembers, RosterHasMembersThen
<1>9. member[newcomer] = None
  BY <1>2, <1>7, <1>8 DEF RosterIsMembers
<1>10. \A i \in 1 .. client_count : ConnOf(i)' = ConnOf(i)
  <2>1. \A i \in 1 .. client_count : clients[i].socket_fd \in Fds \ {new_fd}
    BY <1>7, <1>8 DEF RosterIsMembers, ConnOf, newcomer
  <2> QED
    BY <1>6, <2>1 DEF ConnOf, Inductive, TypeOK
<1>11. member' = member
  <2>1. ASSUME NEW c \in Conns PROVE member'[c] = member[c]
    BY <1>6, <1>8, <1>10 DEF RosterIsMembers
  <2> QED
    BY <2>1 DEF member
<1> QED
  BY <1>1, <1>2, <1>3, <1>4, <1>5, <1>6, <1>9, <1>11

(* What a member says is passed on. *)
LEMMA ForwardEffect ==
  ASSUME Inductive, RoomOpen, NEW f \in Fds, Forward(f), NEW c, c = sock[f]
  PROVE  /\ pc # "dead" /\ f \in master /\ c \in Room!Members
         /\ toServer[c] # <<>> /\ toServer' = [toServer EXCEPT ![c] = Tail(@)]
         /\ member' = member /\ UNCHANGED <<backlog, sent, sock>>
         /\ PeersBreak(peer)
         /\ \A d \in Conns :
              \/ toPeer'[d] = toPeer[d]
              \/ toPeer'[d] = Append(toPeer[d], Message(Kind(Head(toServer[c])), member[c]))
         /\ pc' # "dead" => \A d \in Room!Members \ {c} :
              toPeer'[d] = Append(toPeer[d], Message(Kind(Head(toServer[c])), member[c]))
         /\ toPeer' = [d \in Conns |-> toPeer'[d]]
<1>1. pc # "dead" /\ f \in master
  BY Running DEF Forward, Current, NothingBlocks
<1>2. /\ NameOf(f) = member[c] /\ c \in Room!Members
      /\ {sock[g] : g \in Others(f, master, fdmax)} = Room!Members \ {c}
  BY <1>1, NameOfMember, OthersAreMembers
<1>3. PICK m : m = Message(Kind(Head(toServer[c])), member[c])
  OBVIOUS
<1>4. /\ Broadcast(Others(f, master, fdmax), m, toPeer, peer, Continue(read_fds \ {f}))
      /\ toServer[c] # <<>> /\ toServer' = Received(c)
      /\ UNCHANGED <<backlog, sent, sock, clients, client_count>>
  BY <1>2, <1>3 DEF Forward, roster
<1>5. toServer' = [toServer EXCEPT ![c] = Tail(@)]
  BY <1>2, <1>4 DEF Received, Room!Members
<1>6. member' = member
  BY <1>4 DEF member, Entries
<1>7. peer \in [Conns -> PeerStates]
  BY DEF Inductive, TypeOK
<1>8. PeersBreak(peer)
  BY <1>4, <1>7, BroadcastEffect DEF PeersBreak
<1>9. /\ toPeer' = [d \in Conns |-> toPeer'[d]]
      /\ \A d \in Conns : toPeer'[d] \in {toPeer[d], Append(toPeer[d], m)}
      /\ pc' # "dead" => toPeer' = [d \in Conns |-> IF d \in Room!Members \ {c}
                                       THEN Append(toPeer[d], m) ELSE toPeer[d]]
  BY <1>2, <1>4, BroadcastHeard
<1>10. \A d \in Room!Members : d \in Conns
  BY DEF Room!Members
<1> QED
  BY <1>1, <1>2, <1>3, <1>4, <1>5, <1>6, <1>8, <1>9, <1>10

(* Who has left is dropped. *)
LEMMA DropEffect ==
  ASSUME Inductive, Inductive', RoomOpen, NEW f \in Fds, DropClient(f), NEW c, c = sock[f]
  PROVE  /\ pc # "dead" /\ f \in master /\ c \in Room!Members
         /\ toServer[c] = <<>> /\ peer[c] \in {"closed", "broken"}
         /\ member'[c] = None /\ (pc' # "dead" => member' = [member EXCEPT ![c] = None])
         /\ sock' = [sock EXCEPT ![f] = None]
         /\ UNCHANGED <<backlog, sent, toServer>>
         /\ PeersBreak([peer EXCEPT ![c] = "done"])
         /\ \A d \in Conns : \/ toPeer'[d] = toPeer[d]
                             \/ toPeer'[d] = Append(toPeer[d], Message("OFFLINE", member[c]))
         /\ toPeer' = [d \in Conns |-> toPeer'[d]]
<1>1. pc # "dead" /\ f \in master
  BY Running DEF DropClient, Current, NothingBlocks
<1>2. /\ NameOf(f) = member[c] /\ c \in Room!Members /\ c \in Conns
  BY <1>1, NameOfMember DEF Room!Members
<1>3. PICK m : m = Message("OFFLINE", member[c])
  OBVIOUS
<1>4. PICK ends : ends = [peer EXCEPT ![c] = "done"]
  OBVIOUS
<1>5. /\ Broadcast(Others(f, master, fdmax), m, toPeer, ends, Continue(read_fds \ {f}))
      /\ toServer[c] = <<>> /\ peer[c] \in {"closed", "broken"}
      /\ sock' = [sock EXCEPT ![f] = None]
      /\ UNCHANGED <<backlog, sent, toServer>>
  BY <1>2, <1>3, <1>4 DEF DropClient
<1>6. ends \in [Conns -> PeerStates]
  BY <1>4 DEF Inductive, TypeOK, PeerStates
<1>7. PeersBreak(ends)
  BY <1>5, <1>6, BroadcastEffect DEF PeersBreak
<1>8. /\ toPeer' = [d \in Conns |-> toPeer'[d]]
      /\ \A d \in Conns : toPeer'[d] \in {toPeer[d], Append(toPeer[d], m)}
  BY <1>5, BroadcastHeard
<1>9. pc' # "dead" => member' = [member EXCEPT ![c] = None]
  BY <1>2, LeaverIsNoMember
<1>10. member'[c] = None
  <2>1. \A g \in Fds : sock'[g] # c
    <3>1. NoLeak /\ sock[f] # None
      BY <1>1, <1>2, Running, ChatAssumption
    <3> QED
      BY <1>2, <1>5, <3>1, ChatAssumption DEF NoLeak, Inductive, TypeOK
  <2> QED
    BY <1>2, <2>1 DEF member, Entries
<1> QED
  BY <1>1, <1>2, <1>3, <1>4, <1>5, <1>7, <1>8, <1>9, <1>10

(* The newcomer becomes a member under a new name, and all the others hear it *)
(* unless the server dies.                                                    *)
LEMMA JoinEffect ==
  ASSUME Inductive, RoomOpen, AcceptJoin
  PROVE  /\ pc # "dead" /\ newcomer \in Conns /\ new_fd \in Fds /\ sock[new_fd] = newcomer
         /\ toServer[newcomer] # <<>> \/ peer[newcomer] = "closed"
         /\ toServer' = Received(newcomer) /\ member[newcomer] = None
         /\ PeersBreak(peer)
         /\ UNCHANGED <<backlog, sent, sock>>
         /\ \E name \in Names, names \in SUBSET Names :
              /\ \A d \in Conns : member[d] # name
              /\ member' = [member EXCEPT ![newcomer] = name]
              /\ toPeer'[newcomer] = Append(toPeer[newcomer], Message("ACK", names))
              /\ \A d \in Conns \ {newcomer} :
                   \/ toPeer'[d] = toPeer[d]
                   \/ member[d] # None /\ toPeer'[d] = Append(toPeer[d], Message("ONLINE", name))
         /\ toPeer' = [d \in Conns |-> toPeer'[d]]
<1>1. pc = "join" /\ pc # "dead" /\ Heard /\ Listed
  BY DEF AcceptJoin, RoomOpen
<1>2. PICK c \in Conns : c = newcomer
  BY <1>1, Running
<1>3. PICK names : names = {clients[i].user_name : i \in 1 .. client_count}
  OBVIOUS
<1>4. PICK given : given = [toPeer EXCEPT ![c] = Append(@, Message("ACK", names))]
  OBVIOUS
<1>5. PICK name \in JoinNames, e \in AfterAck(peer[c]) :
         /\ ~Refuses(name)
         /\ clients' = [clients EXCEPT ![client_count + 1] =
                          [user_name |-> name, socket_fd |-> new_fd]]
         /\ Broadcast(Others(new_fd, master \cup {new_fd}, Highest(new_fd)),
                      Message("ONLINE", name), given, [peer EXCEPT ![c] = e], Continue(read_fds))
  BY <1>2, <1>3, <1>4 DEF AcceptJoin
<1>6. /\ client_count' = client_count + 1 /\ toServer' = Received(c)
      /\ UNCHANGED <<backlog, sent, sock, new_fd>>
  BY <1>2 DEF AcceptJoin
<1>7. name \in Names /\ names \in SUBSET Names
  BY <1>1, <1>3, <1>5, NewcomerHasName DEF Listed
<1>8. toServer[c] # <<>> \/ peer[c] = "closed"
  BY <1>2, <1>5 DEF JoinNames
<1>9. /\ {sock[g] : g \in Others(new_fd, master \cup {new_fd}, Highest(new_fd))} = Room!Members
      /\ Room!Members = {ConnOf(i) : i \in 1 .. client_count}
      /\ RosterIsMembers
  BY <1>1, OthersOfNewcomer, RosterHasMembers, RoomSize
<1>10. new_fd \in Fds \ master /\ sock[new_fd] = c /\ c # None
  BY <1>1, <1>2, Running, ChatAssumption DEF newcomer
<1>11. \A i \in 1 .. client_count : ConnOf(i) # c
  BY <1>1, <1>10, NotWaiting
<1>12. member[c] = None /\ c \notin Room!Members
  BY <1>9, <1>11 DEF RosterIsMembers
<1>13. \A d \in Conns : member[d] # name
  <2>1. \A i \in 1 .. client_count : clients[i].user_name # name
    BY <1>5 DEF Refuses
  <2>2. name # None
    BY <1>7, ChatAssumption
  <2> QED
    BY <1>9, <2>1, <2>2 DEF RosterIsMembers
<1>14. PeersBreak(peer)
  <2>1. PICK ends : ends = [peer EXCEPT ![c] = e]
    OBVIOUS
  <2>2. /\ ends \in [Conns -> PeerStates]
        /\ \A d \in Conns : ends[d] = peer[d] \/ (peer[d] = "closed" /\ ends[d] = "broken")
    BY <1>5, <2>1 DEF AfterAck, PeerStates, Inductive, TypeOK
  <2>3. PICK targets, next, m : Broadcast(targets, m, given, ends, next)
    BY <1>5, <2>1
  <2>4. \A d \in Conns : peer'[d] = ends[d] \/ (ends[d] = "closed" /\ peer'[d] = "broken")
    BY <2>2, <2>3, BroadcastEffect
  <2> QED
    BY <2>2, <2>4 DEF PeersBreak
<1>15. PICK m : m = Message("ONLINE", name)
  OBVIOUS
<1>16. /\ toPeer' = [d \in Conns |-> toPeer'[d]]
       /\ \A d \in Conns : /\ toPeer'[d] \in {given[d], Append(given[d], m)}
                           /\ d \notin Room!Members => toPeer'[d] = given[d]
  <2>1. PICK ends : ends = [peer EXCEPT ![c] = e]
    OBVIOUS
  <2>2. PICK targets : targets = Others(new_fd, master \cup {new_fd}, Highest(new_fd))
    OBVIOUS
  <2>3. Broadcast(targets, m, given, ends, Continue(read_fds))
    BY <1>5, <1>15, <2>1, <2>2
  <2>4. {sock[g] : g \in targets} = Room!Members
    BY <1>9, <2>2
  <2> QED
    BY <2>3, <2>4, BroadcastHeard
<1>17. /\ given[c] = Append(toPeer[c], Message("ACK", names))
       /\ \A d \in Conns \ {c} : given[d] = toPeer[d]
  BY <1>1, <1>4 DEF Heard
<1>18. toPeer'[c] = Append(toPeer[c], Message("ACK", names))
  BY <1>12, <1>16, <1>17
<1>19. \A d \in Conns \ {c} :
          toPeer'[d] = toPeer[d] \/ (member[d] # None /\ toPeer'[d] = Append(toPeer[d], m))
  BY <1>16, <1>17 DEF Room!Members
<1>20. member' = [member EXCEPT ![c] = name]
  <2>1. /\ client_count \in Nat /\ client_count + 1 \in 1 .. MaxClient
    <3>1. client_count \in Nat /\ client_count <= MaxClient /\ client_count # MaxClient
      BY <1>5, <1>9 DEF Refuses, RosterIsMembers
    <3> QED
      BY <3>1, ChatAssumption
  <2>2. /\ \A i \in 1 .. client_count : clients'[i] = clients[i]
        /\ clients'[client_count + 1] = [user_name |-> name, socket_fd |-> new_fd]
    BY <1>5, <2>1 DEF Inductive, TypeOK
  <2>3. \A i : i \in 1 .. client_count' <=> i \in 1 .. client_count \/ i = client_count + 1
    BY <1>6, <2>1
  <2>4. Entries(c) = {}
    BY <1>11 DEF Entries, ConnOf
  <2>5. Entries(c)' = {client_count + 1}
    <3>1. \A i \in 1 .. client_count :
             clients'[i].socket_fd \in Fds => sock'[clients'[i].socket_fd] # c
      BY <1>6, <1>11, <2>2 DEF ConnOf
    <3> QED
      BY <1>6, <1>10, <2>2, <2>3, <3>1 DEF Entries
  <2>6. \A d \in Conns \ {c} : Entries(d)' = Entries(d)
    <3>1. ASSUME NEW d \in Conns \ {c}, NEW i PROVE i \in Entries(d)' <=> i \in Entries(d)
      <4>1. CASE i = client_count + 1
        BY <1>6, <1>10, <2>1, <2>2, <4>1 DEF Entries
      <4>2. CASE i # client_count + 1
        BY <1>6, <2>2, <2>3, <4>2 DEF Entries
      <4> QED
        BY <4>1, <4>2
    <3> QED
      BY <3>1
  <2>7. member'[c] = name
    <3>1. Min({client_count + 1}) = client_count + 1
      BY DEF Min
    <3> QED
      BY <2>2, <2>5, <3>1 DEF member
  <2>8. ASSUME NEW d \in Conns \ {c} PROVE member'[d] = member[d]
    <3>1. CASE Entries(d) = {}
      BY <2>6, <3>1 DEF member
    <3>2. CASE Entries(d) # {}
      <4>1. PICK i \in 1 .. client_count : ConnOf(i) = d
        BY <3>2 DEF Entries, ConnOf
      <4>2. Entries(d) = {i}
        BY <1>9, <4>1 DEF Entries, RosterIsMembers, ConnOf
      <4>3. Min({i}) = i
        BY DEF Min
      <4> QED
        BY <2>2, <2>6, <4>2, <4>3 DEF member
    <3> QED
      BY <3>1, <3>2
  <2>9. member = [d \in Conns |-> member[d]] /\ member' = [d \in Conns |-> member'[d]]
    BY DEF member
  <2> HIDE DEF member
  <2> QED
    BY <2>7, <2>8, <2>9
<1> QED
  BY <1>1, <1>2, <1>6, <1>7, <1>8, <1>10, <1>12, <1>13, <1>14, <1>15, <1>16, <1>18, <1>19, <1>20

(* The members have users' names. *)
LEMMA MembersHaveNames ==
  ASSUME Inductive, RoomOpen, pc # "dead", NEW c \in Conns
  PROVE  member[c] \in Names \cup {None}
<1>1. RosterIsMembers /\ Listed
  BY RosterHasMembers DEF RoomOpen
<1> QED
  BY <1>1 DEF RosterIsMembers, Listed

(* What a step of the server does to one connection *)
LEMMA ServerEffect ==
  ASSUME Inductive, Inductive', RoomOpen, ServerStep, NEW c \in Conns
  PROVE  /\ pc # "dead" /\ sent' = sent
         /\ \/ peer'[c] = peer[c]
            \/ peer[c] = "closed" /\ peer'[c] = "broken"
            \/ peer'[c] = "done" /\ peer[c] # "new"
               /\ (toServer[c] # <<>> \/ peer[c] \in {"closed", "broken"})
         /\ toServer[c] = <<>> => toServer'[c] = <<>>
         /\ toPeer'[c] = toPeer[c] \/ \E a \in Answers : toPeer'[c] = Append(toPeer[c], a)
         /\ toPeer' = [d \in Conns |-> toPeer'[d]]
<1>0. pc # "dead" => toPeer = [d \in Conns |-> toPeer[d]]
  BY DEF RoomOpen, Heard
<1>1. CASE Select \/ Accept \/ \E f \in Fds : RecvKills(f)
  <2>1. pc # "dead" /\ UNCHANGED <<sent, peer, toServer, toPeer>>
    BY <1>1 DEF Select, Accept, RecvKills
  <2> QED
    BY <1>0, <2>1
<1>2. CASE RefuseJoin
  <2>1. newcomer \in Conns /\ pc # "dead" /\ sent' = sent
    BY <1>2, RefuseEffect
  <2>2. peer[newcomer] # "new"
    BY <1>2, <2>1, RefuseEffect, NotWaiting, ChatAssumption
  <2>3. peer' = [peer EXCEPT ![newcomer] = "done"]
        /\ (toServer[newcomer] # <<>> \/ peer[newcomer] = "closed")
    BY <1>2, RefuseEffect
  <2>4. toServer' = [toServer EXCEPT ![newcomer] = <<>>]
    BY <1>2, RefuseEffect
  <2>5. PICK name \in Names : toPeer' = [toPeer EXCEPT ![newcomer] = Append(@, Message("NAK", name))]
    BY <1>2, RefuseEffect
  <2>6. Message("NAK", name) \in Answers
    BY DEF Message, Answers
  <2>7. \/ peer'[c] = peer[c]
        \/ peer'[c] = "done" /\ peer[c] # "new" /\ (toServer[c] # <<>> \/ peer[c] = "closed")
    BY <2>1, <2>2, <2>3 DEF Inductive, TypeOK
  <2>8. toServer[c] = <<>> => toServer'[c] = <<>>
    BY <2>1, <2>4 DEF Inductive, TypeOK
  <2>9. toPeer'[c] = toPeer[c] \/ \E a \in Answers : toPeer'[c] = Append(toPeer[c], a)
    BY <1>0, <2>1, <2>5, <2>6
  <2>10. toPeer' = [d \in Conns |-> toPeer'[d]]
    <3>1. PICK n : n = Append(toPeer[newcomer], Message("NAK", name))
      OBVIOUS
    <3>2. toPeer' = [toPeer EXCEPT ![newcomer] = n]
      BY <2>5, <3>1
    <3> QED
      BY <1>0, <2>1, <3>2
  <2> QED
    BY <2>1, <2>7, <2>8, <2>9, <2>10
<1>3. CASE AcceptJoin
  <2>1. /\ pc # "dead" /\ sent' = sent /\ toServer' = Received(newcomer) /\ newcomer \in Conns
        /\ PeersBreak(peer) /\ toPeer' = [d \in Conns |-> toPeer'[d]]
    BY <1>3, JoinEffect
  <2>2. PICK name \in Names, names \in SUBSET Names :
              /\ toPeer'[newcomer] = Append(toPeer[newcomer], Message("ACK", names))
              /\ \A d \in Conns \ {newcomer} :
                   \/ toPeer'[d] = toPeer[d]
                   \/ member[d] # None /\ toPeer'[d] = Append(toPeer[d], Message("ONLINE", name))
    BY <1>3, JoinEffect
  <2>3. Message("ACK", names) \in Answers /\ Message("ONLINE", name) \in Answers
    BY DEF Message, Answers
  <2>4. toPeer'[c] = toPeer[c] \/ \E a \in Answers : toPeer'[c] = Append(toPeer[c], a)
    BY <2>2, <2>3
  <2>5. toServer[c] = <<>> => toServer'[c] = <<>>
    BY <2>1 DEF Received, Inductive, TypeOK
  <2> QED
    BY <2>1, <2>4, <2>5 DEF PeersBreak
<1>4. CASE \E f \in Fds : Forward(f)
  <2>1. PICK f \in Fds : Forward(f)
    BY <1>4
  <2>2. PICK d : d = sock[f]
    OBVIOUS
  <2>3. /\ pc # "dead" /\ d \in Room!Members /\ UNCHANGED sent /\ PeersBreak(peer)
        /\ toServer' = [toServer EXCEPT ![d] = Tail(@)] /\ toServer[d] # <<>>
        /\ toPeer'[c] = toPeer[c]
           \/ toPeer'[c] = Append(toPeer[c], Message(Kind(Head(toServer[d])), member[d]))
        /\ toPeer' = [b \in Conns |-> toPeer'[b]]
    BY <2>1, <2>2, ForwardEffect
  <2>4. Message(Kind(Head(toServer[d])), member[d]) \in Answers
    <3>1. member[d] \in Names \cup {None}
      BY <2>3, MembersHaveNames DEF Room!Members
    <3> QED
      BY <3>1 DEF Message, Answers, Kind
  <2>5. toServer[c] = <<>> => toServer'[c] = <<>>
    BY <2>3 DEF Room!Members, Inductive, TypeOK
  <2> QED
    BY <2>3, <2>4, <2>5 DEF PeersBreak
<1>5. CASE \E f \in Fds : DropClient(f)
  <2>1. PICK f \in Fds : DropClient(f)
    BY <1>5
  <2>2. PICK d : d = sock[f]
    OBVIOUS
  <2>3. /\ pc # "dead" /\ d \in Room!Members /\ UNCHANGED <<sent, toServer>>
        /\ PeersBreak([peer EXCEPT ![d] = "done"]) /\ peer[d] \in {"closed", "broken"}
        /\ toPeer'[c] = toPeer[c] \/ toPeer'[c] = Append(toPeer[c], Message("OFFLINE", member[d]))
        /\ toPeer' = [b \in Conns |-> toPeer'[b]]
    BY <2>1, <2>2, DropEffect
  <2>4. Message("OFFLINE", member[d]) \in Answers
    <3>1. member[d] \in Names \cup {None}
      BY <2>3, MembersHaveNames DEF Room!Members
    <3> QED
      BY <3>1 DEF Message, Answers
  <2>5. \/ peer'[c] = peer[c]
        \/ peer[c] = "closed" /\ peer'[c] = "broken"
        \/ peer'[c] = "done" /\ peer[c] \in {"closed", "broken"}
    BY <2>3 DEF PeersBreak, Room!Members, Inductive, TypeOK
  <2> QED
    BY <2>3, <2>4, <2>5
<1> QED
  BY <1>1, <1>2, <1>3, <1>4, <1>5 DEF ServerStep

------------------------------------------------------------------------------
(* The server and the user's client together: each step of the system is one  *)
(* of both, or of one of them.                                                *)
Joint ==
  /\ Inductive /\ RoomOpen /\ Heard
  /\ Client!Inductive /\ UserBegins /\ UserEnds /\ UserCounts

(* At the start *)
LEMMA JointInit == SystemInit => Joint
<1> SUFFICES ASSUME SystemInit PROVE Joint
  OBVIOUS
<1>1. Init /\ Client!Init
  BY UserIsClient DEF SystemInit
<1>2. Inductive /\ RoomOpen /\ Client!Inductive
  BY <1>1, InductiveInit, RoomInit, ClientLemmas
<1>3. log = <<>> /\ mainPc = "join" /\ idlePc = "none" /\ told = 0
  BY <1>1 DEF Client!Init
<1>4. /\ sent[user] = 0 /\ toServer[user] = <<>> /\ toPeer[user] = <<>> /\ peer[user] = "new"
      /\ Heard
  BY <1>1, SystemAssumption, EmptySeq DEF Init, Heard
<1>5. UserCounts
  BY <1>3, <1>4, NothingNoted DEF UserCounts
<1>6. UserBegins /\ UserEnds
  BY <1>3, <1>4, EmptySeq DEF UserBegins, UserEnds
<1> QED
  BY <1>2, <1>4, <1>5, <1>6 DEF Joint

(* What the client says *)
Speaks(m) ==
  /\ peer[user] = "open" /\ log' = Append(log, m)
  /\ Send(user, Message(m, IF m = "JOIN" THEN user_name ELSE None))

Dropped ==
  /\ UNCHANGED vars /\ mainPc # "join"
  /\ \/ log' \in {log, Append(log, "line")}
     \/ peer[user] # "open" /\ \E m \in Sayings \ {"JOIN"} : log' = Append(log, m)

(* A step of a thread says something to the server, or changes nothing there. *)
LEMMA ThreadIsHeard ==
  ASSUME Joint, MainThread \/ IdleThread
  PROVE  /\ Client!MainStep \/ Client!IdleStep
         /\ Dropped \/ \E m \in Sayings : Speaks(m)
<1>1. Client!MainStep \/ Client!IdleStep
  BY UserIsClient DEF MainThread, IdleThread
<1>2. Carried
  BY DEF MainThread, IdleThread
<1>3. Client!Inductive /\ UserBegins
  BY DEF Joint
<1>4. PICK m \in Sayings \cup {"line"} : log' = log \/ log' = Append(log, m)
  BY <1>1, <1>3, ThreadSteps DEF Sayings
<1>5. log \in Seq(Client!Notes) /\ m \in Client!Notes
  BY <1>3 DEF Client!Inductive, Client!Messages, Client!Notes, Sayings
<1>6. log' # log => log' = Append(log, m) /\ Last(log') = m
  <2>1. Append(log, m)[Len(Append(log, m))] = m
    BY <1>5, AppendProperties
  <2> QED
    BY <1>4, <2>1 DEF Last
<1>7. mainPc = "join" => log' # log /\ peer[user] = "open" /\ m # "line"
  <2> SUFFICES ASSUME mainPc = "join" PROVE log' # log /\ peer[user] = "open" /\ m # "line"
    OBVIOUS
  <2>1. idlePc = "none" /\ peer[user] \in {"new", "open"}
    BY <1>3 DEF UserBegins
  <2>2. ~Client!IdleStep
    BY <2>1 DEF Client!IdleStep, Client!SetTimeout, Client!StartWaiting, Client!TimesOut,
                Client!TestFlag, Client!SetFlag, Client!SendIdle, Client!IdleAt
  <2>3. log' # log /\ peer[user] = "open"
    BY <2>1, <2>2, UserIsClient DEF MainThread, IdleThread
  <2>4. m # "line"
    <3>1. ~Client!ClearFlag /\ ~Client!SendLine /\ ~Client!SendIdle
      BY <2>2 DEF Client!ClearFlag, Client!SendLine, Client!MainAt, Client!IdleStep
    <3>2. log' = Append(log, "JOIN")
      BY <1>1, <1>3, <2>3, <3>1, ThreadSteps
    <3>3. Last(log') = "JOIN"
      <4>1. "JOIN" \in Client!Notes
        BY DEF Client!Notes
      <4>2. Append(log, "JOIN")[Len(Append(log, "JOIN"))] = "JOIN"
        BY <1>5, <4>1, AppendProperties
      <4> QED
        BY <3>2, <4>2 DEF Last
    <3> QED
      BY <1>6, <2>3, <3>3
  <2> QED
    BY <2>3, <2>4
<1>8. CASE Sends
  <2>1. log' = Append(log, m) /\ m \in Sayings /\ peer[user] = "open"
    BY <1>6, <1>8 DEF Sends
  <2>2. Speaks(m)
    BY <1>2, <1>6, <1>8, <2>1 DEF Carried, Transmit, Speaks, Sends
  <2> QED
    BY <1>1, <2>1, <2>2
<1>9. CASE ~Sends
  <2>1. UNCHANGED vars
    BY <1>2, <1>9 DEF Carried
  <2>2. mainPc # "join"
    BY <1>6, <1>7, <1>9 DEF Sends
  <2>3. log' = log \/ m = "line" \/ peer[user] # "open"
    BY <1>6, <1>9 DEF Sends
  <2>4. m = "JOIN" => log' = log
    <3> SUFFICES ASSUME m = "JOIN", log' # log PROVE FALSE
      OBVIOUS
    <3>1. ~Client!Join
      BY <2>2 DEF Client!Join, Client!MainAt
    <3>2. PICK n \in {"line", "SEND", "IDLE"} : log' = Append(log, n)
      BY <1>1, <1>3, <3>1, ThreadSteps
    <3>3. Append(log, n)[Len(Append(log, n))] = n
      <4>1. n \in Client!Notes
        BY DEF Client!Notes
      <4> QED
        BY <1>5, <4>1, AppendProperties
    <3> QED
      BY <1>6, <3>2, <3>3 DEF Last
  <2> QED
    BY <1>1, <1>4, <2>1, <2>2, <2>3, <2>4 DEF Dropped, Sayings
<1> QED
  BY <1>8, <1>9

(* Outside of the threads the client receives, its user types, or time passes.*)
LEMMA OutsideThreads ==
  ASSUME Joint, Input \/ Time \/ Deliver \/ DeliverEnd
  PROVE  /\ UNCHANGED <<vars, log, mainPc, idlePc>>
         /\ told' = told \/ (told' = told + 1 /\ told < Len(toPeer[user]))
         /\ Client!Next
<1>1. CASE Input
  <2>1. User!Running /\ (Client!Type \/ Client!EndInput) /\ UNCHANGED vars
    BY <1>1, UserIsClient DEF Input
  <2>2. UNCHANGED <<log, mainPc, idlePc, told>>
    BY <2>1 DEF Client!Type, Client!EndInput, Client!idleVars, Client!serverVars
  <2> QED
    BY <2>1, <2>2, UserIsClient DEF Client!Next
<1>2. CASE Time
  <2>1. User!Running /\ Client!Tick /\ UNCHANGED vars
    BY <1>2, UserIsClient DEF Time
  <2>2. UNCHANGED <<log, mainPc, idlePc, told>>
    BY <2>1 DEF Client!Tick, Client!serverVars
  <2> QED
    BY <2>1, <2>2, UserIsClient DEF Client!Next
<1>3. CASE Deliver
  <2>1. PICK m \in {"FWD", "NAK"} : Client!Tell(m)
    BY <1>3, UserIsClient DEF Deliver
  <2>2. /\ UNCHANGED <<log, mainPc, idlePc>> /\ told' = told + 1
    BY <2>1 DEF Client!Tell, Client!idleVars
  <2>3. User!Running /\ UNCHANGED vars /\ told < Len(toPeer[user])
    BY <1>3 DEF Deliver
  <2> QED
    BY <2>1, <2>2, <2>3, UserIsClient DEF Client!Next
<1>4. CASE DeliverEnd
  <2>1. User!Running /\ Client!CloseServer /\ UNCHANGED vars
    BY <1>4, UserIsClient DEF DeliverEnd
  <2>2. UNCHANGED <<log, mainPc, idlePc, told>>
    BY <2>1 DEF Client!CloseServer, Client!idleVars, Client!serverVars
  <2> QED
    BY <2>1, <2>2, UserIsClient DEF Client!Next
<1> QED
  BY <1>1, <1>2, <1>3, <1>4

(* The variables of the client as it sees them *)
LEMMA UserVars == UNCHANGED userVars <=> UNCHANGED Client!vars
BY DEF userVars, Client!vars, Client!idleVars, Client!inputVars, Client!serverVars

(* Each step is one of the client, or none of his. *)
LEMMA StepOfClient ==
  ASSUME Joint, [SystemNext]_systemVars
  PROVE  [Client!Next]_(Client!vars)
<1>1. CASE UNCHANGED userVars
  BY <1>1, UserVars
<1>2. CASE Input \/ Time \/ Deliver \/ DeliverEnd
  BY <1>2, OutsideThreads
<1>3. CASE MainThread \/ IdleThread
  <2>1. Client!MainStep \/ Client!IdleStep
    BY <1>3, ThreadIsHeard
  <2>2. Client!Running
    BY <2>1, ThreadSteps, UserIsClient DEF Joint
  <2> QED
    BY <2>1, <2>2 DEF Client!Next
<1> QED
  BY <1>1, <1>2, <1>3 DEF SystemNext, Server, Arrive, OtherJoins, CloseAtEnd, systemVars

(* Each step is one of the server and its clients, or none of theirs: what    *)
(* the user's client sends is what ChatServer lets a client send.             *)
LEMMA StepOfServer ==
  ASSUME Joint, [SystemNext]_systemVars
  PROVE  [Next]_vars
<1>1. CASE Server \/ (\E c \in Conns : Arrive(c)) \/ \E c \in OtherConns : OtherJoins(c)
  BY <1>1 DEF Server, Arrive, OtherJoins, OtherConns, Next, ClientStep
<1>2. CASE Input \/ Time \/ Deliver \/ DeliverEnd
  BY <1>2, OutsideThreads
<1>3. CASE MainThread \/ IdleThread
  <2>1. CASE Dropped
    BY <2>1 DEF Dropped
  <2>2. CASE \E m \in Sayings : Speaks(m)
    <3>1. PICK m \in Sayings : Speaks(m)
      BY <2>2
    <3>2. log' = Append(log, m)
      BY <3>1 DEF Speaks
    <3>3. /\ m # "JOIN" => sent[user] <= MaxSays
          /\ m = "JOIN" <=> mainPc = "join"
      BY <1>3, <3>2, ThreadIsHeard, SaysAreFew DEF Joint
    <3>4. CASE m = "JOIN"
      <4>1. sent[user] = 0
        BY <3>3, <3>4 DEF Joint, UserBegins
      <4>2. SendJoin(user)
        BY <3>1, <3>4, <4>1, SystemAssumption DEF SendJoin, Speaks
      <4> QED
        BY <4>2, SystemAssumption DEF Next, ClientStep
    <3>5. CASE m # "JOIN"
      <4>1. sent[user] \in 1 .. MaxSays
        <5>1. sent[user] >= 1 /\ sent[user] <= MaxSays
          BY <3>3, <3>5 DEF Joint, UserBegins
        <5>2. sent[user] \in 0 .. 1 + MaxSays /\ MaxSays \in Nat
          BY SystemAssumption, ChatAssumption DEF Joint, Inductive, TypeOK
        <5> QED
          BY <5>1, <5>2
      <4>2. Say(user)
        BY <3>1, <3>5, <4>1 DEF Say, Speaks, Sayings
      <4> QED
        BY <4>2, SystemAssumption DEF Next, ClientStep
    <3> QED
      BY <3>4, <3>5
  <2> QED
    BY <1>3, <2>1, <2>2, ThreadIsHeard
<1>4. CASE CloseAtEnd
  <2>1. inbox # <<>> \/ told < Len(toPeer[user]) => toPeer[user] # <<>>
    <3>1. inbox \in Seq({"FWD", "NAK"}) /\ Len(inbox) <= told
      BY DEF Joint, Client!Inductive, Client!Messages
    <3>2. told \in Nat /\ told <= Len(toPeer[user])
      BY DEF Joint, UserEnds
    <3>3. inbox # <<>> => Len(inbox) > 0
      BY <3>1
    <3>4. toPeer[user] = <<>> => Len(toPeer[user]) = 0
      OBVIOUS
    <3> QED
      BY <3>1, <3>2, <3>3, <3>4
  <2>2. Hangup(user)
    BY <1>4, <2>1, SystemAssumption DEF CloseAtEnd, Hangup
  <2> QED
    BY <2>2, SystemAssumption DEF Next, ClientStep
<1>5. CASE UNCHANGED systemVars
  BY <1>5 DEF systemVars
<1> QED
  BY <1>1, <1>2, <1>3, <1>4, <1>5 DEF SystemNext

(* What the client notes keeps the count of what it has sent. *)
LEMMA CountsKept ==
  ASSUME Joint, UNCHANGED sent,
         log' = log \/ \E m \in {"line", "SEND", "IDLE"} : log' = Append(log, m)
  PROVE  UserCounts'
<1>1. CASE log' = log
  BY <1>1 DEF Joint, UserCounts, Client!Count
<1>2. CASE \E m \in {"line", "SEND", "IDLE"} : log' = Append(log, m)
  <2>1. PICK m \in {"line", "SEND", "IDLE"} : log' = Append(log, m)
    BY <1>2
  <2>2. m \in Sayings \cup {"line"} /\ Client!Inductive
    BY DEF Sayings, Joint
  <2>3. \A w : /\ Client!Count(w) \in Nat
               /\ Client!Count(w)' = Client!Count(w) + IF m = w THEN 1 ELSE 0
    BY <2>1, <2>2, NotedOnce
  <2>4. /\ Client!Count("JOIN") \in Nat /\ Client!Count("JOIN")' = Client!Count("JOIN")
        /\ Client!Count("SEND") \in Nat /\ Client!Count("SEND")' >= Client!Count("SEND")
        /\ Client!Count("IDLE") \in Nat /\ Client!Count("IDLE")' >= Client!Count("IDLE")
        /\ Client!Count("SEND")' \in Nat /\ Client!Count("IDLE")' \in Nat
    BY <2>3
  <2>5. sent[user] \in Int
    BY SystemAssumption, ChatAssumption DEF Joint, Inductive, TypeOK
  <2> QED
    BY <2>4, <2>5 DEF Joint, UserCounts
<1> QED
  BY <1>1, <1>2

(* The invariant of both is kept. *)
LEMMA JointStep ==
  ASSUME Joint, [SystemNext]_systemVars
  PROVE  Joint'
<1>1. [Next]_vars /\ [Client!Next]_(Client!vars)
  BY StepOfServer, StepOfClient
<1>2. Inductive' /\ RoomOpen' /\ Client!Inductive'
  BY <1>1, InductiveStep, RoomStep, ClientLemmas DEF Joint
<1>0. user \in Conns
  BY SystemAssumption
<1>3. CASE Server
  <2>1. ServerStep /\ UNCHANGED userVars
    BY <1>3 DEF Server
  <2>2. \A c \in Conns :
          /\ \/ peer'[c] = peer[c]
             \/ peer[c] = "closed" /\ peer'[c] = "broken"
             \/ peer'[c] = "done" /\ peer[c] # "new"
                /\ (toServer[c] # <<>> \/ peer[c] \in {"closed", "broken"})
          /\ toServer[c] = <<>> => toServer'[c] = <<>>
          /\ toPeer'[c] = toPeer[c] \/ \E a \in Answers : toPeer'[c] = Append(toPeer[c], a)
    BY <1>2, <2>1, ServerEffect DEF Joint
  <2>3. sent' = sent /\ toPeer' = [d \in Conns |-> toPeer'[d]]
    BY <1>0, <1>2, <2>1, ServerEffect DEF Joint
  <2>4. UNCHANGED <<log, mainPc, idlePc, told>>
    BY <2>1 DEF userVars
  <2>5. Heard'
    BY <2>2, <2>3, HeardStill DEF Joint
  <2>6. UserBegins'
    <3>1. UserBegins
      BY DEF Joint
    <3>2. CASE mainPc = "join"
      <4>1. log = <<>> /\ sent[user] = 0 /\ toServer[user] = <<>> /\ idlePc = "none"
            /\ peer[user] \in {"new", "open"}
        BY <3>1, <3>2 DEF UserBegins
      <4>2. peer'[user] = peer[user] /\ toServer'[user] = <<>>
        BY <1>0, <2>2, <4>1
      <4> QED
        BY <2>3, <2>4, <3>2, <4>1, <4>2 DEF UserBegins
    <3>3. CASE mainPc # "join"
      BY <1>0, <2>2, <2>3, <2>4, <3>1, <3>3 DEF UserBegins
    <3> QED
      BY <3>2, <3>3
  <2>7. UserEnds'
    <3>1. Len(toPeer'[user]) >= Len(toPeer[user]) /\ Len(toPeer'[user]) \in Nat
          /\ Len(toPeer[user]) \in Nat
      <4>1. PICK s \in Seq(Answers) : s = toPeer[user]
        BY <1>0 DEF Joint, Heard
      <4>2. PICK r : r = toPeer'[user]
        OBVIOUS
      <4>3. r = s \/ \E a \in Answers : r = Append(s, a)
        BY <1>0, <2>2, <4>1, <4>2
      <4>4. Len(r) \in Nat /\ Len(s) \in Nat /\ Len(r) >= Len(s)
        BY <4>3, AppendProperties, LenProperties
      <4> QED
        BY <4>1, <4>2, <4>4
    <3>2. UserEnds
      BY DEF Joint
    <3>3. peer'[user] \in {"closed", "broken", "reset"} => peer[user] \in {"closed", "broken", "reset"}
      BY <1>0, <2>2
    <3> QED
      BY <2>4, <3>1, <3>2, <3>3 DEF UserEnds, User!Running, User!Ends
  <2>8. UserCounts'
    BY <2>3, <2>4, CountsKept
  <2> QED
    BY <1>2, <2>5, <2>6, <2>7, <2>8 DEF Joint
<1>4. CASE \/ \E c \in Conns : Arrive(c)
           \/ \E c \in OtherConns : OtherJoins(c)
  <2>1. /\ UNCHANGED <<toPeer, userVars>>
        /\ peer'[user] \in {peer[user], "open"}
        /\ sent'[user] = sent[user] /\ toServer'[user] = toServer[user]
    BY <1>0, <1>4
    DEF Arrive, OtherJoins, OtherConns, Connect, SendJoin, Send, Joint, Inductive, TypeOK
  <2>2. UNCHANGED <<log, mainPc, idlePc, told>>
    BY <2>1 DEF userVars
  <2>3. Heard' /\ UserEnds'
    BY <2>1, <2>2 DEF Joint, Heard, UserEnds, User!Running, User!Ends
  <2>4. UserBegins'
    BY <2>1, <2>2 DEF Joint, UserBegins
  <2>5. UserCounts'
    BY <2>1, <2>2 DEF Joint, UserCounts, Client!Count
  <2> QED
    BY <1>2, <2>3, <2>4, <2>5 DEF Joint
<1>5. CASE Input \/ Time \/ Deliver \/ DeliverEnd
  <2>1. /\ UNCHANGED <<vars, log, mainPc, idlePc>>
        /\ told' = told \/ (told' = told + 1 /\ told < Len(toPeer[user]))
    BY <1>5, OutsideThreads
  <2>2. UNCHANGED <<peer, sent, toServer, toPeer>>
    BY <2>1 DEF vars
  <2>3. Heard' /\ UserBegins'
    BY <2>1, <2>2 DEF Joint, Heard, UserBegins
  <2>4. UserEnds'
    <3>1. toPeer[user] \in Seq(Answers) /\ Len(toPeer[user]) \in Nat
      BY <1>0, LenProperties DEF Joint, Heard
    <3> QED
      BY <2>1, <2>2, <3>1 DEF Joint, UserEnds, User!Running, User!Ends
  <2>5. UserCounts'
    BY <2>1, <2>2, CountsKept
  <2> QED
    BY <1>2, <2>3, <2>4, <2>5 DEF Joint
<1>6. CASE MainThread \/ IdleThread
  <2>1. Client!MainStep \/ Client!IdleStep
    BY <1>6, ThreadIsHeard
  <2>2. User!Running /\ told' = told /\ mainPc' # "join"
    BY <2>1, ThreadSteps DEF Joint
  <2>3. CASE Dropped
    <3>1. UNCHANGED <<peer, sent, toServer, toPeer>>
      BY <2>3 DEF Dropped, vars
    <3>2. mainPc # "join" /\ (log' = log \/ \E m \in {"line", "SEND", "IDLE"} : log' = Append(log, m))
      BY <2>3 DEF Dropped, Sayings
    <3>3. UserCounts'
      BY <3>1, <3>2, CountsKept
    <3>4. Heard' /\ UserBegins' /\ UserEnds'
      BY <2>2, <3>1, <3>2 DEF Joint, Heard, UserBegins, UserEnds
    <3> QED
      BY <1>2, <3>3, <3>4 DEF Joint
  <2>4. CASE \E m \in Sayings : Speaks(m)
    <3>1. PICK m \in Sayings : Speaks(m)
      BY <2>4
    <3>2. /\ log' = Append(log, m) /\ peer[user] = "open" /\ UNCHANGED <<peer, toPeer>>
          /\ sent'[user] = sent[user] + 1 /\ sent[user] \in Nat
      BY <1>0, <3>1, ChatAssumption DEF Speaks, Send, Joint, Inductive, TypeOK
    <3>3. /\ Client!Count("JOIN")' <= 1
          /\ Client!Count("JOIN")' + Client!Count("SEND")' + Client!Count("IDLE")'
               = Client!Count("JOIN") + Client!Count("SEND") + Client!Count("IDLE") + 1
      BY <2>1, <3>2, SaysAreFew DEF Joint
    <3>4. \A w : Client!Count(w) \in Nat
      BY <3>2, NotedOnce DEF Joint, Sayings
    <3>5. UserCounts'
      <4>1. PICK k \in Nat :
              k = Client!Count("JOIN") + Client!Count("SEND") + Client!Count("IDLE")
        BY <3>4
      <4>2. sent[user] <= k
        BY <4>1 DEF Joint, UserCounts
      <4>3. sent'[user] <= k + 1
        BY <3>2, <4>2
      <4> QED
        BY <3>3, <4>1, <4>3 DEF UserCounts
    <3>6. Heard' /\ UserBegins' /\ UserEnds'
      BY <2>2, <3>2 DEF Joint, Heard, UserBegins, UserEnds
    <3> QED
      BY <1>2, <3>5, <3>6 DEF Joint
  <2> QED
    BY <1>6, <2>3, <2>4, ThreadIsHeard
<1>7. CASE CloseAtEnd
  <2>1. /\ UNCHANGED <<sent, toServer, toPeer, log, mainPc, idlePc, told>>
        /\ peer'[user] \in {"closed", "reset"} /\ ~User!Running
    BY <1>0, <1>7 DEF CloseAtEnd, userVars, Joint, Inductive, TypeOK
  <2>2. UserBegins'
    BY <2>1 DEF Joint, UserBegins, User!Running, User!Ends
  <2>3. UserEnds' /\ Heard'
    BY <2>1 DEF Joint, UserEnds, Heard, User!Running, User!Ends
  <2>4. UserCounts'
    BY <2>1, CountsKept
  <2> QED
    BY <1>2, <2>2, <2>3, <2>4 DEF Joint
<1>8. CASE UNCHANGED systemVars
  <2>1. UNCHANGED <<peer, sent, toServer, toPeer, log, mainPc, idlePc, told>>
    BY <1>8 DEF systemVars, vars, userVars
  <2>2. UserCounts'
    BY <2>1, CountsKept
  <2>3. Heard' /\ UserBegins' /\ UserEnds'
    BY <2>1 DEF Joint, Heard, UserBegins, UserEnds, User!Running, User!Ends
  <2> QED
    BY <1>2, <2>2, <2>3 DEF Joint
<1> QED
  BY <1>3, <1>4, <1>5, <1>6, <1>7, <1>8 DEF SystemNext

------------------------------------------------------------------------------
(* What others hear of the user: the state that orders it *)
queue == toServer[user]

(* A connection that the server has closed is not used again. *)
UserGone ==
  peer[user] = "done" =>
    /\ \A f \in Fds : sock[f] # user
    /\ \A i \in 1 .. Len(backlog) : backlog[i] # user

(* The JOIN is the first thing the client sends, and no other is one. *)
FirstIsJoin ==
  /\ AllSent \in Seq(Sayings)
  /\ mainPc # "join" => AllSent # <<>>
  /\ \A i \in 1 .. Len(AllSent) : AllSent[i] = "JOIN" <=> i = 1

(* The others join and listen. *)
OthersListen ==
  \A c \in OtherConns :
    peer[c] \in {"new", "open", "done"} /\ sent[c] <= 1 /\ Len(toServer[c]) <= sent[c]

(* Only a member has been told of an arrival, and what it sent is received. *)
MembersListen ==
  \A c \in OtherConns :
    /\ member[c] # None => sent[c] = 1 /\ toServer[c] = <<>>
    /\ \A n : Message("ONLINE", n) \in Range(toPeer[c]) => member[c] # None

(* What the server has not received is the end of what the client has sent: a *)
(* member's JOIN is received. Before it there is nothing of him, nor of       *)
(* anybody whose name nobody has.                                             *)
Queued ==
  /\ Len(queue) <= Len(AllSent)
  /\ \A i \in 1 .. Len(queue) : queue[i].what = AllSent[Len(AllSent) - Len(queue) + i]
  /\ member[user] = None <=> Len(queue) = Len(AllSent)

NotBefore ==
  \A c \in Conns :
    /\ \A n \in Names :
         Message("ONLINE", n) \in Range(toPeer[c]) => \E d \in Conns : member[d] = n
    /\ member[user] = None => \A a \in Range(toPeer[c]) : a.what \notin {"SEND", "IDLE"}

(* A witness has heard what the server has received, behind the JOIN. *)
Follows(c) ==
  /\ Len(HeardOf(c)) < Len(AllSent)
  /\ \A i \in 1 .. Len(HeardOf(c)) : HeardOf(c)[i] = AllSent[i + 1]
  /\ pc # "dead" => Len(HeardOf(c)) + 1 + Len(queue) = Len(AllSent)

Hearing ==
  /\ UserGone /\ FirstIsJoin /\ OthersListen
  /\ pc # "dead" => MembersListen
  /\ pc # "dead" /\ peer[user] # "done" => Queued /\ NotBefore
  /\ \A c \in Witnesses : Follows(c)

(* What is in a sequence that is one longer *)
LEMMA RangeGrows ==
  ASSUME NEW X, NEW s \in Seq(X), NEW x \in X
  PROVE  Range(Append(s, x)) = Range(s) \cup {x}
<1>1. PICK t \in Seq(X) : t = Append(s, x)
  BY AppendProperties
<1>2. PICK k \in Nat : k = Len(s)
  BY LenProperties
<1>3. DOMAIN s = 1 .. k /\ DOMAIN t = 1 .. k + 1 /\ t[k + 1] = x /\ \A i \in 1 .. k : t[i] = s[i]
  BY <1>1, <1>2, AppendProperties, LenProperties
<1>4. \A y : y \in Range(t) <=> y \in Range(s) \cup {x}
  <2>1. \A i : i \in 1 .. k + 1 <=> i \in 1 .. k \/ i = k + 1
    OBVIOUS
  <2> QED
    BY <1>3, <2>1 DEF Range
<1> QED
  BY <1>1, <1>4

(* What is heard of a user in what was sent to somebody *)
His(n) == {Message(what, n) : what \in {"SEND", "IDLE"}}
Hears(s, n) ==
  LET his == Chosen(s, His(n)) IN [i \in DOMAIN his |-> his[i].what]

LEMMA HeardOfIsHears == \A c : HeardOf(c) = Hears(toPeer[c], member[user])
BY DEF HeardOf, Hears, His

(* It is some of the messages with his name, ... *)
LEMMA HearsType ==
  ASSUME NEW X, NEW s \in Seq(X), NEW n
  PROVE  Hears(s, n) \in Seq({"SEND", "IDLE"})
<1>1. PICK t : t = Chosen(s, His(n))
  OBVIOUS
<1>2. t \in Seq(X \cap His(n))
  BY <1>1, ChosenType
<1>3. DOMAIN t = 1 .. Len(t) /\ Len(t) \in Nat
  BY <1>2, LenProperties
<1>4. \A i \in 1 .. Len(t) : t[i].what \in {"SEND", "IDLE"}
  <2>1. \A i \in 1 .. Len(t) : t[i] \in X \cap His(n)
    BY <1>2, <1>3, ElementOfSeq
  <2> QED
    BY <2>1 DEF His, Message
<1>5. PICK k \in Nat : k = Len(t)
  BY <1>3
<1>6. Hears(s, n) = [i \in 1 .. k |-> t[i].what]
  BY <1>1, <1>3, <1>5 DEF Hears
<1>7. [i \in 1 .. k |-> t[i].what] \in Seq({"SEND", "IDLE"})
  BY <1>4, <1>5, IsASeq
<1> QED
  BY <1>6, <1>7

(* ... one more when it is of his, ... *)
LEMMA HearsGrows ==
  ASSUME NEW X, NEW s \in Seq(X), NEW a \in X, NEW n
  PROVE  Hears(Append(s, a), n)
           = IF a \in His(n) THEN Append(Hears(s, n), a.what) ELSE Hears(s, n)
<1>1. PICK t : t = Chosen(s, His(n))
  OBVIOUS
<1>2. Chosen(Append(s, a), His(n)) = IF a \in His(n) THEN Append(t, a) ELSE t
  BY <1>1, ChosenGrows
<1>3. CASE a \notin His(n)
  BY <1>1, <1>2, <1>3 DEF Hears
<1>4. CASE a \in His(n)
  <2>1. t \in Seq(X \cap His(n)) /\ a \in X \cap His(n)
    BY <1>1, <1>4, ChosenType
  <2>2. PICK r \in Seq(X \cap His(n)) : r = Append(t, a)
    BY <2>1, AppendProperties
  <2>3. PICK k \in Nat : k = Len(t)
    BY <2>1, LenProperties
  <2>4. DOMAIN t = 1 .. k /\ DOMAIN r = 1 .. k + 1 /\ r[k + 1] = a /\ \A i \in 1 .. k : r[i] = t[i]
    BY <2>1, <2>2, <2>3, AppendProperties, LenProperties
  <2>5. PICK h : h = Hears(s, n)
    OBVIOUS
  <2>6. h \in Seq({"SEND", "IDLE"}) /\ h = [i \in 1 .. k |-> t[i].what]
    BY <1>1, <2>4, <2>5, HearsType DEF Hears
  <2>7. Len(h) = k
    BY <2>6, LenProperties
  <2>8. Hears(Append(s, a), n) = [i \in 1 .. k + 1 |-> r[i].what]
    BY <1>2, <1>4, <2>2, <2>4 DEF Hears
  <2>9. a.what \in {"SEND", "IDLE"}
    BY <1>4 DEF His, Message
  <2>10. PICK g \in Seq({"SEND", "IDLE"}) : g = Append(h, a.what)
    BY <2>6, <2>9, AppendProperties
  <2>11. DOMAIN g = 1 .. k + 1 /\ g[k + 1] = a.what /\ \A i \in 1 .. k : g[i] = h[i]
    BY <2>6, <2>7, <2>9, <2>10, AppendProperties, LenProperties
  <2>12. g = [i \in 1 .. k + 1 |-> g[i]]
    BY <2>10, <2>11, LenProperties
  <2>13. \A i \in 1 .. k + 1 : g[i] = r[i].what
    BY <2>4, <2>6, <2>11
  <2>14. g = [i \in 1 .. k + 1 |-> r[i].what]
    BY <2>12, <2>13
  <2> QED
    BY <1>4, <2>5, <2>8, <2>10, <2>14
<1> QED
  BY <1>3, <1>4

(* ... and nothing where nobody has said anything *)
LEMMA HearsNothing ==
  ASSUME NEW X, NEW s \in Seq(X), NEW n, \A a \in Range(s) : a.what \notin {"SEND", "IDLE"}
  PROVE  Hears(s, n) = <<>>
<1>1. PICK t : t = Chosen(s, His(n))
  OBVIOUS
<1>2. s \in Seq(Range(s))
  <2>1. s \in Seq(X) /\ DOMAIN s = 1 .. Len(s) /\ Len(s) \in Nat /\ s = [i \in 1 .. Len(s) |-> s[i]]
    BY LenProperties
  <2>2. \A i \in 1 .. Len(s) : s[i] \in Range(s)
    BY <2>1 DEF Range
  <2>3. PICK k \in Nat : k = Len(s)
    BY <2>1
  <2>4. [i \in 1 .. k |-> s[i]] \in Seq(Range(s))
    BY <2>2, <2>3, IsASeq
  <2> QED
    BY <2>1, <2>3, <2>4
<1>3. t \in Seq(Range(s) \cap His(n))
  BY <1>1, <1>2, ChosenType
<1>4. Range(s) \cap His(n) = {}
  BY DEF His, Message
<1>5. t = <<>>
  BY <1>3, <1>4
<1>6. DOMAIN t = {}
  BY <1>5
<1> QED
  BY <1>1, <1>5, <1>6 DEF Hears

------------------------------------------------------------------------------
(* The client's messages in order *)
LEMMA AllSentType == Client!Inductive => AllSent \in Seq(Sayings) /\ log \in Seq(Client!Notes)
<1> SUFFICES ASSUME Client!Inductive PROVE AllSent \in Seq(Sayings) /\ log \in Seq(Client!Notes)
  OBVIOUS
<1>1. log \in Seq(Client!Notes)
  BY DEF Client!Inductive, Client!Messages
<1>2. Client!Notes \cap {"JOIN", "SEND", "IDLE"} = Sayings
  BY DEF Client!Notes, Sayings
<1> QED
  BY <1>1, <1>2, ChosenType DEF AllSent

LEMMA AllSentGrows ==
  ASSUME Client!Inductive, NEW m \in Sayings \cup {"line"}, log' = Append(log, m)
  PROVE  AllSent' = IF m = "line" THEN AllSent ELSE Append(AllSent, m)
<1>1. log \in Seq(Client!Notes) /\ m \in Client!Notes
  BY AllSentType DEF Client!Notes, Sayings
<1>2. AllSent' = Chosen(Append(log, m), {"JOIN", "SEND", "IDLE"})
  BY DEF AllSent
<1>3. m \in {"JOIN", "SEND", "IDLE"} <=> m # "line"
  BY DEF Sayings
<1> QED
  BY <1>1, <1>2, <1>3, ChosenGrows DEF AllSent

LEMMA AllSentStays == log' = log => AllSent' = AllSent
BY DEF AllSent

(* At the start *)
LEMMA HearingInit == SystemInit => Hearing
<1> SUFFICES ASSUME SystemInit PROVE Hearing
  OBVIOUS
<1>1. log = <<>> /\ mainPc = "join"
  BY DEF SystemInit, User!Init
<1>2. AllSent = <<>>
  BY <1>1, ChosenOfNone DEF AllSent
<1>3. /\ peer = [c \in Conns |-> "new"] /\ sent = [c \in Conns |-> 0]
      /\ toServer = [c \in Conns |-> <<>>] /\ toPeer = [c \in Conns |-> <<>>]
  BY DEF SystemInit, Init
<1>4. member = [c \in Conns |-> None]
  BY DEF SystemInit, Init, member, Entries
<1>5. user \in Conns /\ \A c \in OtherConns : c \in Conns
  BY SystemAssumption DEF OtherConns
<1>6. UserGone /\ OthersListen
  BY <1>3, <1>5 DEF UserGone, OthersListen
<1>7. FirstIsJoin
  BY <1>1, <1>2, EmptySeq DEF FirstIsJoin
<1>8. \A c \in Conns : Range(toPeer[c]) = {}
  BY <1>3 DEF Range
<1>9. MembersListen /\ NotBefore
  BY <1>4, <1>5, <1>8 DEF MembersListen, NotBefore
<1>10. Queued
  BY <1>2, <1>3, <1>4, <1>5, EmptySeq DEF Queued, queue
<1>11. Witnesses = {}
  BY <1>4, <1>5 DEF Witnesses
<1> QED
  BY <1>6, <1>7, <1>9, <1>10, <1>11 DEF Hearing

(* A step that changes nothing of what is sent and heard keeps it. *)
Kept == /\ UNCHANGED <<member, toPeer, queue, AllSent>>
        /\ pc' # "dead" => pc # "dead"
        /\ peer'[user] = "done" <=> peer[user] = "done"

LEMMA KeptParts ==
  ASSUME Hearing, Kept
  PROVE  /\ (pc # "dead" /\ peer[user] # "done" => Queued /\ NotBefore)'
         /\ (\A c \in Witnesses : Follows(c))'
<1>1. /\ queue' = queue /\ AllSent' = AllSent /\ toPeer' = toPeer /\ member' = member
      /\ pc' # "dead" => pc # "dead"
      /\ peer'[user] = "done" <=> peer[user] = "done"
  BY DEF Kept
<1>2. Queued => Queued'
  BY <1>1 DEF Queued
<1>3. NotBefore => NotBefore'
  BY <1>1 DEF NotBefore
<1>4. Witnesses' = Witnesses
  BY <1>1 DEF Witnesses
<1>5. \A c : HeardOf(c)' = HeardOf(c)
  BY <1>1 DEF HeardOf
<1>6. ASSUME NEW c \in Witnesses PROVE Follows(c)'
  <2>1. Follows(c)
    BY <1>6 DEF Hearing
  <2> QED
    BY <1>1, <1>5, <2>1 DEF Follows
<1> QED
  BY <1>1, <1>2, <1>3, <1>4, <1>6 DEF Hearing(* Who connects or joins besides is not heard yet. *)
LEMMA OthersKeepHearing ==
  ASSUME Joint, Hearing, \/ \E c \in Conns : Arrive(c)
                         \/ \E c \in OtherConns : OtherJoins(c)
  PROVE  Hearing'
<1>0. user \in Conns /\ \A c \in OtherConns : c \in Conns /\ c # user
  BY SystemAssumption DEF OtherConns
<1>1. /\ UNCHANGED <<toPeer, server, userVars>>
      /\ peer'[user] = "done" <=> peer[user] = "done"
      /\ toServer'[user] = toServer[user]
  BY <1>0
  DEF Arrive, OtherJoins, Connect, SendJoin, Send, Joint, Inductive, TypeOK
<1>2. UNCHANGED <<log, mainPc, pc, sock, clients, client_count>>
  BY <1>1 DEF userVars, server, roster
<1>3. member' = member /\ AllSent' = AllSent
  BY <1>2 DEF member, Entries, AllSent
<1>4. Kept
  BY <1>1, <1>2, <1>3 DEF Kept, queue
<1>5. FirstIsJoin'
  BY <1>2, <1>3 DEF Hearing, FirstIsJoin
<1>6. CASE \E c \in Conns : Arrive(c)
  <2>1. PICK c \in Conns : peer[c] = "new" /\ peer' = [peer EXCEPT ![c] = "open"]
                           /\ backlog' = Append(backlog, c) /\ UNCHANGED <<sent, toServer>>
    BY <1>6 DEF Arrive, Connect
  <2>2. UserGone'
    <3>1. PICK b \in Seq(Conns) : b = backlog
      BY DEF Joint, Inductive, TypeOK
    <3>2. ASSUME peer'[user] = "done"
          PROVE  \A i \in 1 .. Len(Append(b, c)) : Append(b, c)[i] # user
      <4>1. c # user /\ \A i \in 1 .. Len(b) : b[i] # user
        BY <1>1, <2>1, <3>1, <3>2 DEF Hearing, UserGone
      <4>2. Len(b) \in Nat /\ Len(Append(b, c)) = Len(b) + 1 /\ Append(b, c)[Len(b) + 1] = c
            /\ \A i \in 1 .. Len(b) : Append(b, c)[i] = b[i]
        BY <3>1, AppendProperties, LenProperties
      <4> QED
        BY <4>1, <4>2
    <3> QED
      BY <1>1, <1>2, <2>1, <3>1, <3>2 DEF Hearing, UserGone
  <2>3. OthersListen'
    BY <1>0, <2>1 DEF Hearing, OthersListen, Joint, Inductive, TypeOK
  <2>4. MembersListen => MembersListen'
    BY <1>1, <1>3, <2>1 DEF MembersListen
  <2> QED
    BY <1>2, <1>4, <1>5, <2>2, <2>3, <2>4, KeptParts DEF Hearing
<1>7. CASE \E c \in OtherConns : OtherJoins(c)
  <2>1. PICK c \in OtherConns, m \in Messages :
          /\ peer[c] = "open" /\ sent[c] = 0 /\ UNCHANGED <<peer, backlog>>
          /\ sent' = [sent EXCEPT ![c] = @ + 1]
          /\ toServer' = [toServer EXCEPT ![c] = Append(@, m)]
    BY <1>7 DEF OtherJoins, SendJoin, Send, Message, Messages
  <2>2. UserGone'
    BY <1>2, <2>1 DEF Hearing, UserGone
  <2>3. toServer[c] \in Seq(Messages)
    BY <1>0, <2>1 DEF Joint, Inductive, TypeOK
  <2>4. sent'[c] = 1 /\ toServer'[c] = Append(toServer[c], m)
        /\ \A d \in Conns \ {c} : sent'[d] = sent[d] /\ toServer'[d] = toServer[d]
    BY <1>0, <2>1 DEF Joint, Inductive, TypeOK
  <2>5. Len(toServer'[c]) <= 1
    <3>1. PICK q \in Seq(Messages) : q = toServer[c]
      BY <2>3
    <3>2. Len(q) <= 0 /\ Len(q) \in Nat
      BY <2>1, <3>1, LenProperties DEF Hearing, OthersListen
    <3>3. Len(Append(q, m)) = Len(q) + 1
      BY <3>1, AppendProperties
    <3> QED
      BY <2>4, <3>1, <3>2, <3>3
  <2>6. OthersListen'
    <3>1. ASSUME NEW d \in OtherConns
          PROVE  peer'[d] \in {"new", "open", "done"} /\ sent'[d] <= 1
                 /\ Len(toServer'[d]) <= sent'[d]
      <4>1. CASE d = c
        BY <2>1, <2>4, <2>5, <4>1 DEF Hearing, OthersListen
      <4>2. CASE d # c
        BY <1>0, <2>1, <2>4, <4>2 DEF Hearing, OthersListen
      <4> QED
        BY <4>1, <4>2
    <3> QED
      BY <3>1 DEF OthersListen
  <2>7. MembersListen => MembersListen'
    <3>1. ASSUME MembersListen, NEW d \in OtherConns
          PROVE  /\ member[d] # None => sent'[d] = 1 /\ toServer'[d] = <<>>
                 /\ \A n : Message("ONLINE", n) \in Range(toPeer[d]) => member[d] # None
      <4>1. CASE d = c
        BY <2>1, <3>1, <4>1 DEF MembersListen
      <4>2. CASE d # c
        BY <1>0, <2>4, <3>1, <4>2 DEF MembersListen
      <4> QED
        BY <4>1, <4>2
    <3> QED
      BY <1>1, <1>3, <3>1 DEF MembersListen
  <2> QED
    BY <1>2, <1>4, <1>5, <2>2, <2>6, <2>7, KeptParts DEF Hearing
<1> QED
  BY <1>6, <1>7

(* So it does when the user types, time passes, his client receives or ends. *)
LEMMA OutsideKeepsHearing ==
  ASSUME Joint, Hearing, Input \/ Time \/ Deliver \/ DeliverEnd \/ CloseAtEnd
                         \/ UNCHANGED systemVars
  PROVE  Hearing'
<1>0. user \in Conns /\ \A c \in OtherConns : c \in Conns /\ c # user
  BY SystemAssumption DEF OtherConns
<1>1. /\ UNCHANGED <<backlog, sent, toServer, toPeer, pc, sock, clients, client_count>>
      /\ UNCHANGED <<log, mainPc>>
      /\ \A c \in OtherConns : peer'[c] = peer[c]
      /\ peer'[user] = "done" <=> peer[user] = "done"
  <2>1. CASE Input \/ Time \/ Deliver \/ DeliverEnd
    BY <2>1, OutsideThreads DEF vars, server, roster
  <2>2. CASE CloseAtEnd
    BY <1>0, <2>2 DEF CloseAtEnd, userVars, server, roster, Joint, Inductive, TypeOK
  <2>3. CASE UNCHANGED systemVars
    BY <2>3 DEF systemVars, vars, userVars, server, roster
  <2> QED
    BY <2>1, <2>2, <2>3
<1>2. member' = member /\ AllSent' = AllSent
  BY <1>1 DEF member, Entries, AllSent
<1>3. Kept
  BY <1>1, <1>2 DEF Kept, queue
<1>4. UserGone' /\ FirstIsJoin' /\ OthersListen' /\ (MembersListen => MembersListen')
  BY <1>1, <1>2 DEF Hearing, UserGone, FirstIsJoin, OthersListen, MembersListen
<1> QED
  BY <1>1, <1>3, <1>4, KeptParts DEF Hearing(* A connection that is gone is no member's. *)
LEMMA GoneIsNoMember ==
  ASSUME Hearing, peer[user] = "done"
  PROVE  member[user] = None
<1>1. \A f \in Fds : sock[f] # user
  BY DEF Hearing, UserGone
<1>2. user \in Conns
  BY SystemAssumption
<1> QED
  BY <1>1, <1>2 DEF member, Entries

(* One message more behind the JOIN, or the JOIN *)
LEMMA OneMore ==
  ASSUME FirstIsJoin, NEW m \in Sayings, AllSent' = Append(AllSent, m),
         m = "JOIN" <=> AllSent = <<>>
  PROVE  /\ FirstIsJoin' /\ Len(AllSent) \in Nat /\ Len(AllSent') = Len(AllSent) + 1
         /\ AllSent'[Len(AllSent) + 1] = m
         /\ \A i \in 1 .. Len(AllSent) : AllSent'[i] = AllSent[i]
<1>1. PICK s \in Seq(Sayings) : s = AllSent
  BY DEF FirstIsJoin
<1>2. PICK t : t = AllSent'
  OBVIOUS
<1>3. t \in Seq(Sayings) /\ t = Append(s, m)
  BY <1>1, <1>2, AppendProperties
<1>4. /\ Len(s) \in Nat /\ Len(t) = Len(s) + 1 /\ t[Len(s) + 1] = m
      /\ \A i \in 1 .. Len(s) : t[i] = s[i]
  BY <1>1, <1>3, AppendProperties, LenProperties
<1>5. s = <<>> <=> Len(s) = 0
  BY <1>1, EmptySeq
<1>6. \A i \in 1 .. Len(s) : s[i] = "JOIN" <=> i = 1
  BY <1>1 DEF FirstIsJoin
<1>7. \A i \in 1 .. Len(t) : t[i] = "JOIN" <=> i = 1
  BY <1>1, <1>4, <1>5, <1>6
<1>8. t # <<>>
  BY <1>4, EmptySeq
<1> QED
  BY <1>1, <1>2, <1>3, <1>4, <1>7, <1>8 DEF FirstIsJoin

(* What the threads send is queued behind the rest. *)
LEMMA ThreadsKeepHearing ==
  ASSUME Joint, Hearing, MainThread \/ IdleThread
  PROVE  Hearing'
<1>0. user \in Conns /\ \A c \in OtherConns : c \in Conns /\ c # user
  BY SystemAssumption DEF OtherConns
<1>1. /\ Client!MainStep \/ Client!IdleStep
      /\ Dropped \/ \E m \in Sayings : Speaks(m)
  BY ThreadIsHeard
<1>2. User!Running /\ mainPc' # "join"
  BY <1>1, ThreadSteps DEF Joint
<1>3. mainPc = "join" => AllSent = <<>>
  BY ChosenOfNone DEF Joint, UserBegins, AllSent
<1>4. ASSUME Dropped, log' \in {log, Append(log, "line")} PROVE Hearing'
  <2>1. AllSent' = AllSent
    BY <1>4, AllSentGrows, AllSentStays DEF Joint
  <2>2. UNCHANGED <<peer, backlog, sent, toServer, toPeer, pc, sock, clients, client_count>>
    BY <1>4 DEF Dropped, vars
  <2>3. member' = member /\ mainPc # "join"
    BY <1>4, <2>2 DEF member, Entries, Dropped
  <2>4. Kept
    BY <2>1, <2>2, <2>3 DEF Kept, queue
  <2>5. UserGone' /\ FirstIsJoin' /\ OthersListen' /\ (MembersListen => MembersListen')
    BY <2>1, <2>2, <2>3 DEF Hearing, UserGone, FirstIsJoin, OthersListen, MembersListen
  <2> QED
    BY <2>2, <2>4, <2>5, KeptParts DEF Hearing
<1>5. ASSUME Dropped, log' \notin {log, Append(log, "line")} PROVE Hearing'
  <2>1. PICK m \in Sayings \ {"JOIN"} : log' = Append(log, m) /\ peer[user] # "open"
    BY <1>5 DEF Dropped
  <2>2. AllSent' = Append(AllSent, m)
    BY <2>1, AllSentGrows DEF Joint, Sayings
  <2>3. UNCHANGED <<peer, backlog, sent, toServer, toPeer, pc, sock, clients, client_count>>
    BY <1>5 DEF Dropped, vars
  <2>4. member' = member /\ mainPc # "join"
    BY <1>5, <2>3 DEF member, Entries, Dropped
  <2>5. peer[user] = "done"
    <3>1. peer[user] # "new" /\ peer[user] \notin {"closed", "broken", "reset"}
      BY <1>2, <2>4 DEF Joint, UserBegins, UserEnds
    <3>2. peer[user] \in PeerStates
      BY <1>0 DEF Joint, Inductive, TypeOK
    <3> QED
      BY <2>1, <3>1, <3>2 DEF PeerStates
  <2>6. Witnesses' = {}
    BY <2>4, <2>5, GoneIsNoMember DEF Witnesses
  <2>7. FirstIsJoin'
    BY <2>1, <2>2, <2>4, OneMore DEF Hearing, FirstIsJoin
  <2>8. UserGone' /\ OthersListen' /\ (MembersListen => MembersListen')
    BY <2>3, <2>4 DEF Hearing, UserGone, OthersListen, MembersListen
  <2> QED
    BY <2>3, <2>5, <2>6, <2>7, <2>8 DEF Hearing
<1>6. ASSUME NEW m \in Sayings, Speaks(m) PROVE Hearing'
  <2>1. /\ log' = Append(log, m) /\ peer[user] = "open"
        /\ Send(user, Message(m, IF m = "JOIN" THEN user_name ELSE None))
    BY <1>6 DEF Speaks
  <2>2. PICK w \in Messages : w = Message(m, IF m = "JOIN" THEN user_name ELSE None)
    <3>1. PICK n \in Names \cup {None} : n = IF m = "JOIN" THEN user_name ELSE None
      BY SystemAssumption
    <3>2. Message(m, n) \in Messages
      BY DEF Message, Messages, Sayings
    <3> QED
      BY <3>1, <3>2
  <2>3. w.what = m
    BY <2>2 DEF Message
  <2>4. /\ sent' = [sent EXCEPT ![user] = @ + 1]
        /\ toServer' = [toServer EXCEPT ![user] = Append(@, w)]
        /\ UNCHANGED <<peer, backlog, toPeer, server>>
    BY <2>1, <2>2 DEF Send
  <2>5. AllSent' = Append(AllSent, m)
    BY <2>1, AllSentGrows DEF Joint, Sayings
  <2>6. m = "JOIN" <=> mainPc = "join"
    BY <1>1, <2>1, SaysAreFew DEF Joint
  <2>7. m = "JOIN" <=> AllSent = <<>>
    BY <1>3, <2>6 DEF Hearing, FirstIsJoin
  <2>8. /\ FirstIsJoin' /\ Len(AllSent) \in Nat /\ Len(AllSent') = Len(AllSent) + 1
        /\ AllSent'[Len(AllSent) + 1] = m
        /\ \A i \in 1 .. Len(AllSent) : AllSent'[i] = AllSent[i]
    BY <2>5, <2>7, OneMore DEF Hearing
  <2>9. UNCHANGED <<backlog, toPeer, pc, sock, clients, client_count>> /\ member' = member
    BY <2>4 DEF server, roster, member, Entries
  <2>10. /\ queue' = Append(queue, w) /\ queue \in Seq(Messages)
         /\ \A c \in OtherConns : sent'[c] = sent[c] /\ toServer'[c] = toServer[c]
    BY <1>0, <2>4 DEF queue, Joint, Inductive, TypeOK
  <2>11. /\ Len(queue) \in Nat /\ Len(queue') = Len(queue) + 1
         /\ queue'[Len(queue) + 1] = w
         /\ \A i \in 1 .. Len(queue) : queue'[i] = queue[i]
    <3>1. PICK q \in Seq(Messages) : q = queue
      BY <2>10
    <3>2. PICK r : r = queue'
      OBVIOUS
    <3>3. r = Append(q, w)
      BY <2>10, <3>1, <3>2
    <3>4. Len(q) \in Nat /\ Len(r) = Len(q) + 1 /\ r[Len(q) + 1] = w
          /\ \A i \in 1 .. Len(q) : r[i] = q[i]
      BY <3>1, <3>3, AppendProperties, LenProperties
    <3> QED
      BY <3>1, <3>2, <3>4
  <2>12. UserGone' /\ OthersListen' /\ (MembersListen => MembersListen')
    BY <1>0, <2>4, <2>9, <2>10 DEF Hearing, UserGone, OthersListen, MembersListen
  <2>13. NotBefore => NotBefore'
    BY <2>9 DEF NotBefore
  <2>14. Queued => Queued'
    <3> SUFFICES ASSUME Queued PROVE Queued'
      OBVIOUS
    <3>1. PICK k \in Nat, l \in Nat : k = Len(queue) /\ l = Len(AllSent)
      BY <2>8, <2>11
    <3>2. Len(queue') = k + 1 /\ Len(AllSent') = l + 1
      BY <2>8, <2>11, <3>1
    <3>3. /\ k <= l /\ \A i \in 1 .. k : queue[i].what = AllSent[l - k + i]
          /\ member[user] = None <=> k = l
      BY <3>1 DEF Queued
    <3>4. ASSUME NEW i \in 1 .. k + 1 PROVE queue'[i].what = AllSent'[l + 1 - (k + 1) + i]
      <4>1. CASE i = k + 1
        BY <2>3, <2>8, <2>11, <3>1, <4>1
      <4>2. CASE i \in 1 .. k
        <5>1. l - k + i \in 1 .. l /\ l + 1 - (k + 1) + i = l - k + i
          BY <3>1, <3>3, <4>2
        <5>2. queue'[i] = queue[i] /\ AllSent'[l - k + i] = AllSent[l - k + i]
          BY <2>8, <2>11, <3>1, <4>2, <5>1
        <5> QED
          BY <3>3, <4>2, <5>1, <5>2
      <4> QED
        BY <3>1, <3>4, <4>1, <4>2
    <3>5. Len(queue') <= Len(AllSent') /\ (member'[user] = None <=> Len(queue') = Len(AllSent'))
      BY <2>9, <3>2, <3>3
    <3>6. \A i \in 1 .. Len(queue') : queue'[i].what = AllSent'[Len(AllSent') - Len(queue') + i]
      BY <3>2, <3>4
    <3> QED
      BY <3>5, <3>6 DEF Queued
  <2>15. ASSUME NEW c \in Witnesses' PROVE Follows(c)'
    <3>1. Follows(c)
      BY <2>9, <2>15 DEF Witnesses, Hearing
    <3>2. HeardOf(c)' = HeardOf(c)
      BY <2>9 DEF HeardOf
    <3>3. c \in OtherConns
      BY <2>15 DEF Witnesses
    <3>4. Len(HeardOf(c)) \in Nat
      <4>1. toPeer[c] \in Seq(Answers)
        BY <1>0, <3>3 DEF Joint, Heard
      <4> QED
        BY <4>1, HeardOfIsHears, HearsType, LenProperties
    <3>9. PICK h : h = HeardOf(c)
      OBVIOUS
    <3>5. PICK k \in Nat : k = Len(h) /\ h = HeardOf(c)
      BY <3>4, <3>9
    <3>6. /\ k < Len(AllSent) /\ \A i \in 1 .. k : h[i] = AllSent[i + 1]
          /\ pc # "dead" => k + 1 + Len(queue) = Len(AllSent)
      BY <3>1, <3>5 DEF Follows
    <3>7. k < Len(AllSent') /\ \A i \in 1 .. k : h[i] = AllSent'[i + 1]
      BY <2>8, <3>6
    <3>8. pc # "dead" => k + 1 + Len(queue') = Len(AllSent')
      <4>1. PICK q \in Nat, l \in Nat : q = Len(queue) /\ l = Len(AllSent)
        BY <2>8, <2>11
      <4>2. Len(queue') = q + 1 /\ Len(AllSent') = l + 1
        BY <2>8, <2>11, <4>1
      <4>3. pc # "dead" => k + 1 + q = l
        BY <3>6, <4>1
      <4> QED
        BY <4>2, <4>3
    <3> QED
      BY <2>9, <3>2, <3>5, <3>7, <3>8 DEF Follows
  <2> QED
    BY <2>4, <2>8, <2>9, <2>12, <2>13, <2>14, <2>15 DEF Hearing
<1> QED
  BY <1>1, <1>4, <1>5, <1>6

------------------------------------------------------------------------------
(* The server's steps *)

(* What is in what one has been told, with a message more or not *)
LEMMA ToldMore ==
  ASSUME Heard, NEW c \in Conns, NEW a \in Answers,
         toPeer'[c] = toPeer[c] \/ toPeer'[c] = Append(toPeer[c], a)
  PROVE  /\ Range(toPeer'[c]) \subseteq Range(toPeer[c]) \cup {a}
         /\ a.what \notin {"SEND", "IDLE"} =>
              \A n : Hears(toPeer'[c], n) = Hears(toPeer[c], n)
<1>1. PICK s \in Seq(Answers) : s = toPeer[c]
  BY DEF Heard
<1>2. PICK r : r = toPeer'[c]
  OBVIOUS
<1>3. r = s \/ r = Append(s, a)
  BY <1>1, <1>2
<1>4. Range(r) \subseteq Range(s) \cup {a}
  <2>1. Range(Append(s, a)) = Range(s) \cup {a}
    BY <1>1, RangeGrows
  <2> QED
    BY <1>3, <2>1
<1>5. ASSUME a.what \notin {"SEND", "IDLE"}, NEW n PROVE Hears(r, n) = Hears(s, n)
  <2>1. a \notin His(n)
    BY <1>5 DEF His, Message
  <2> QED
    <3>1. Hears(Append(s, a), n) = IF a \in His(n) THEN Append(Hears(s, n), a.what) ELSE Hears(s, n)
      BY <1>1, HearsGrows
    <3> QED
      BY <1>3, <2>1, <3>1
<1> QED
  BY <1>1, <1>2, <1>4, <1>5

(* A witness follows still when it is told of something else. *)
LEMMA StillFollows ==
  ASSUME Heard, Hearing, NEW c \in Witnesses, UNCHANGED <<AllSent, queue>>,
         member'[user] = member[user], pc # "dead",
         NEW a \in Answers, a.what \notin {"SEND", "IDLE"},
         toPeer'[c] = toPeer[c] \/ toPeer'[c] = Append(toPeer[c], a)
  PROVE  Follows(c)'
<1>1. Follows(c) /\ c \in Conns
  BY DEF Hearing, Witnesses, OtherConns
<1>2. Hears(toPeer'[c], member[user]) = Hears(toPeer[c], member[user])
  BY <1>1, ToldMore
<1>3. HeardOf(c)' = Hears(toPeer'[c], member'[user])
  BY DEF HeardOf, Hears, His
<1>4. HeardOf(c)' = HeardOf(c)
  BY <1>2, <1>3, HeardOfIsHears
<1> QED
  BY <1>1, <1>4 DEF Follows

(* A refused newcomer is not heard. *)
LEMMA RefuseKeepsHearing ==
  ASSUME Joint, Joint', Hearing, UNCHANGED userVars, RefuseJoin
  PROVE  Hearing'
<1>0. user \in Conns /\ user # None /\ \A c \in OtherConns : c \in Conns /\ c # user
  BY SystemAssumption, ChatAssumption DEF OtherConns
<1>1. PICK c \in Conns : c = newcomer
  BY RefuseEffect DEF Joint
<1>2. PICK name \in Names : toPeer' = [toPeer EXCEPT ![c] = Append(@, Message("NAK", name))]
  BY <1>1, RefuseEffect DEF Joint
<1>3. /\ new_fd \in Fds /\ sock[new_fd] = c /\ member' = member /\ member[c] = None
      /\ peer' = [peer EXCEPT ![c] = "done"]
      /\ toServer' = [toServer EXCEPT ![c] = <<>>]
      /\ sock' = [sock EXCEPT ![new_fd] = None]
      /\ pc # "dead" /\ pc' # "dead"
      /\ UNCHANGED <<backlog, sent>>
  BY <1>1, RefuseEffect DEF Joint
<1>4. PICK a \in Answers : a = Message("NAK", name)
  BY DEF Answers, Message
<1>5. a.what = "NAK" /\ \A n : Message("ONLINE", n) # a
  BY <1>4 DEF Message
<1>6. \A d \in Conns : toPeer'[d] = toPeer[d] \/ toPeer'[d] = Append(toPeer[d], a)
  BY <1>2, <1>4 DEF Joint, Heard
<1>7. Heard /\ \A d \in Conns : Range(toPeer'[d]) \subseteq Range(toPeer[d]) \cup {a}
  BY <1>6, ToldMore DEF Joint
<1>8. AllSent' = AllSent /\ mainPc' = mainPc
  BY DEF userVars, AllSent
<1>9. /\ peer'[c] = "done" /\ toServer'[c] = <<>>
      /\ \A d \in Conns \ {c} : peer'[d] = peer[d] /\ toServer'[d] = toServer[d]
  BY <1>3 DEF Joint, Inductive, TypeOK
<1>10. UserGone'
  <2>1. \A f \in Fds : sock'[f] \in {sock[f], None} /\ sock'[new_fd] = None
    BY <1>3 DEF Joint, Inductive, TypeOK
  <2>2. CASE c = user
    <3>1. \A i \in 1 .. Len(backlog) : backlog[i] # user
      BY <1>0, <1>3, <2>2, NotWaiting DEF Joint
    <3>2. \A f \in Fds \ {new_fd} : sock[f] # user
      BY <1>0, <1>3, <2>2, Running DEF NoLeak, Joint
    <3> QED
      BY <1>0, <1>3, <2>1, <3>1, <3>2 DEF UserGone
  <2>3. CASE c # user
    BY <1>0, <1>3, <1>9, <2>1, <2>3 DEF Hearing, UserGone
  <2> QED
    BY <2>2, <2>3
<1>11. FirstIsJoin'
  BY <1>8 DEF Hearing, FirstIsJoin
<1>12. OthersListen'
  <2>1. ASSUME NEW d \in OtherConns
        PROVE  peer'[d] \in {"new", "open", "done"} /\ sent'[d] <= 1
               /\ Len(toServer'[d]) <= sent'[d]
    <3>1. sent[d] >= 0 /\ sent'[d] = sent[d] /\ Len(<<>>) = 0
      BY <1>0, <1>3, EmptySeq, ChatAssumption DEF Joint, Inductive, TypeOK
    <3> QED
      BY <1>0, <1>9, <3>1 DEF Hearing, OthersListen
  <2> QED
    BY <2>1 DEF OthersListen
<1>13. MembersListen'
  <2>1. MembersListen
    BY <1>3 DEF Hearing
  <2> QED
    BY <1>0, <1>3, <1>5, <1>7, <1>9, <2>1 DEF MembersListen
<1>14. peer'[user] # "done" => Queued' /\ NotBefore'
  <2> SUFFICES ASSUME peer'[user] # "done" PROVE Queued' /\ NotBefore'
    OBVIOUS
  <2>1. c # user /\ peer[user] # "done" /\ queue' = queue
    BY <1>0, <1>9 DEF queue
  <2>2. Queued /\ NotBefore
    BY <1>3, <2>1 DEF Hearing
  <2>3. Queued'
    BY <1>3, <1>8, <2>1, <2>2 DEF Queued
  <2>4. NotBefore'
    BY <1>3, <1>5, <1>7, <2>2 DEF NotBefore
  <2> QED
    BY <2>3, <2>4
<1>15. ASSUME NEW d \in Witnesses' PROVE Follows(d)'
  <2>1. d \in OtherConns /\ member[user] # None /\ member[d] # None
        /\ Message("ONLINE", member[user]) \in Range(toPeer'[d])
    BY <1>3, <1>15 DEF Witnesses
  <2>2. d \in Witnesses
    BY <1>0, <1>5, <1>7, <2>1 DEF Witnesses
  <2>3. c # user /\ queue' = queue
    BY <1>0, <1>3, <1>9, <2>1 DEF queue
  <2> QED
    BY <1>0, <1>3, <1>5, <1>6, <1>7, <1>8, <2>1, <2>2, <2>3, StillFollows
<1> QED
  BY <1>10, <1>11, <1>12, <1>13, <1>14, <1>15 DEF Hearing(* Nor is a connection accepted, or a server that dies in a recv. *)
LEMMA QuietKeepsHearing ==
  ASSUME Joint, Joint', Hearing, UNCHANGED userVars,
         Select \/ Accept \/ \E f \in Fds : RecvKills(f)
  PROVE  Hearing'
<1>0. user \in Conns /\ user # None
  BY SystemAssumption, ChatAssumption
<1>1. AllSent' = AllSent /\ mainPc' = mainPc
  BY DEF userVars, AllSent
<1>2. pc # "dead" /\ UNCHANGED <<peer, sent, toServer, toPeer>>
  BY DEF Select, Accept, RecvKills
<1>3. member' = member
  BY SelectIsUnseen, AcceptIsUnseen DEF Unseen, Joint, RecvKills, roster, member, Entries
<1>4. Kept
  BY <1>1, <1>2, <1>3 DEF Kept, queue
<1>5. FirstIsJoin' /\ OthersListen' /\ (MembersListen => MembersListen')
  BY <1>1, <1>2, <1>3 DEF Hearing, FirstIsJoin, OthersListen, MembersListen
<1>6. UserGone'
  <2> SUFFICES ASSUME peer[user] = "done" PROVE UserGone'
    BY <1>2 DEF UserGone
  <2>1. (\A f \in Fds : sock[f] # user) /\ \A i \in 1 .. Len(backlog) : backlog[i] # user
    BY DEF Hearing, UserGone
  <2>2. CASE Select \/ \E f \in Fds : RecvKills(f)
    BY <2>1, <2>2 DEF Select, RecvKills, UserGone
  <2>3. CASE Accept
    <3>1. pc = "scan" /\ NothingBlocks /\ listen_fd \in read_fds /\ backlog \in Seq(Conns)
      BY <2>3, Running DEF Accept, Current, Joint, Inductive, TypeOK
    <3>2. backlog # <<>>
      BY <3>1 DEF NothingBlocks, Readable
    <3>3. PICK f \in Fds : sock' = [sock EXCEPT ![f] = Head(backlog)] /\ backlog' = Tail(backlog)
      BY <2>3 DEF Accept
    <3>4. Head(backlog) = backlog[1] /\ 1 \in 1 .. Len(backlog)
      BY <3>1, <3>2
    <3>5. \A i \in 1 .. Len(backlog') :
            i + 1 \in 1 .. Len(backlog) /\ backlog'[i] = backlog[i + 1]
      <4>1. Len(backlog') = Len(backlog) - 1 /\ Len(backlog) \in Nat
        BY <3>1, <3>2, <3>3, HeadTailProperties, LenProperties
      <4>2. \A i \in 1 .. Len(backlog') : backlog'[i] = backlog[i + 1]
        BY <3>1, <3>2, <3>3, HeadTailProperties
      <4> QED
        BY <4>1, <4>2
    <3>6. \A g \in Fds : sock'[g] # user
      BY <2>1, <3>3, <3>4 DEF Joint, Inductive, TypeOK
    <3> QED
      BY <2>1, <3>5, <3>6 DEF UserGone
  <2> QED
    BY <2>2, <2>3
<1> QED
  BY <1>2, <1>4, <1>5, <1>6, KeptParts DEF Hearing

(* Who is dropped is the user: the others stay. *)
LEMMA DropKeepsHearing ==
  ASSUME Joint, Joint', Hearing, UNCHANGED userVars, NEW f \in Fds, DropClient(f)
  PROVE  Hearing'
<1>0. user \in Conns /\ user # None /\ \A c \in OtherConns : c \in Conns /\ c # user
  BY SystemAssumption, ChatAssumption DEF OtherConns
<1>1. PICK c : c = sock[f]
  OBVIOUS
<1>2. /\ pc # "dead" /\ f \in master /\ c \in Room!Members /\ peer[c] \in {"closed", "broken"}
      /\ member'[c] = None /\ (pc' # "dead" => member' = [member EXCEPT ![c] = None])
      /\ sock' = [sock EXCEPT ![f] = None]
      /\ UNCHANGED <<backlog, sent, toServer>>
      /\ PeersBreak([peer EXCEPT ![c] = "done"])
      /\ \A d \in Conns : \/ toPeer'[d] = toPeer[d]
                          \/ toPeer'[d] = Append(toPeer[d], Message("OFFLINE", member[c]))
  BY <1>1, DropEffect DEF Joint
<1>3. c = user
  BY <1>2 DEF Hearing, OthersListen, OtherConns, Room!Members
<1>4. PICK a \in Answers : a = Message("OFFLINE", member[c])
  <2>1. member[c] \in Names \cup {None}
    BY <1>0, <1>2, <1>3, MembersHaveNames DEF Joint
  <2> QED
    BY <2>1 DEF Answers, Message
<1>5. \A n : Message("ONLINE", n) # a
  BY <1>4 DEF Message
<1>6. \A d \in Conns : Range(toPeer'[d]) \subseteq Range(toPeer[d]) \cup {a}
  BY <1>2, <1>4, ToldMore DEF Joint
<1>7. AllSent' = AllSent /\ mainPc' = mainPc
  BY DEF userVars, AllSent
<1>8. peer'[user] = "done" /\ \A d \in OtherConns : peer'[d] = peer[d]
  BY <1>0, <1>2, <1>3 DEF PeersBreak, Joint, Inductive, TypeOK, Hearing, OthersListen
<1>9. UserGone'
  <2>1. \A g \in Fds : sock'[g] # user
    <3>1. NoLeak
      BY <1>2, Running DEF Joint
    <3> QED
      BY <1>0, <1>1, <1>2, <1>3, <3>1 DEF NoLeak, Joint, Inductive, TypeOK
  <2>2. \A i \in 1 .. Len(backlog) : backlog[i] # user
    BY <1>0, <1>1, <1>2, <1>3, NotWaiting DEF Joint
  <2> QED
    BY <1>2, <2>1, <2>2 DEF UserGone
<1>10. FirstIsJoin' /\ OthersListen'
  BY <1>2, <1>7, <1>8 DEF Hearing, FirstIsJoin, OthersListen
<1>11. pc' # "dead" => MembersListen'
  <2> SUFFICES ASSUME pc' # "dead" PROVE MembersListen'
    OBVIOUS
  <2>1. MembersListen
    BY <1>2 DEF Hearing
  <2>2. \A d \in OtherConns : member'[d] = member[d]
    BY <1>0, <1>2, <1>3 DEF member
  <2> QED
    BY <1>0, <1>2, <1>5, <1>6, <2>1, <2>2 DEF MembersListen
<1>12. Witnesses' = {}
  BY <1>2, <1>3 DEF Witnesses
<1> QED
  BY <1>8, <1>9, <1>10, <1>11, <1>12 DEF Hearing(* The queue is one shorter, which the JOIN or the next message has left. *)
LEMMA QueueTail ==
  ASSUME Joint, Hearing, Queued, queue # <<>>, queue' = Tail(queue), AllSent' = AllSent,
         member'[user] # None
  PROVE  /\ Queued' /\ Len(AllSent) \in Nat /\ Len(queue) \in Nat
         /\ Len(queue') = Len(queue) - 1 /\ 1 <= Len(queue)
         /\ Head(queue).what = AllSent[Len(AllSent) - Len(queue) + 1]
<1>1. PICK q \in Seq(Messages) : q = queue
  BY SystemAssumption DEF queue, Joint, Inductive, TypeOK
<1>2. PICK r : r = queue'
  OBVIOUS
<1>3. r = Tail(q) /\ q # <<>>
  BY <1>1, <1>2
<1>4. PICK k \in Nat : k = Len(q)
  BY <1>1, LenProperties
<1>5. Len(r) = k - 1 /\ k >= 1 /\ \A i \in 1 .. k - 1 : r[i] = q[i + 1]
  <2>1. k # 0
    BY <1>1, <1>3, <1>4, EmptySeq
  <2>2. Len(r) = k - 1 /\ \A i \in 1 .. Len(r) : r[i] = q[i + 1]
    BY <1>1, <1>3, <1>4, HeadTailProperties
  <2> QED
    BY <2>1, <2>2
<1>6. Head(q) = q[1]
  BY <1>1, <1>3, HeadTailProperties
<1>7. PICK l \in Nat : l = Len(AllSent)
  BY LenProperties DEF Hearing, FirstIsJoin
<1>8. k <= l /\ \A i \in 1 .. k : q[i].what = AllSent[l - k + i]
  BY <1>1, <1>4, <1>7 DEF Queued
<1>9. ASSUME NEW i \in 1 .. k - 1 PROVE r[i].what = AllSent[l - (k - 1) + i]
  <2>1. i + 1 \in 1 .. k /\ l - k + (i + 1) = l - (k - 1) + i
    OBVIOUS
  <2> QED
    BY <1>5, <1>8, <2>1
<1>10. Queued'
  <2>1. Len(queue') = k - 1 /\ Len(AllSent') = l
    BY <1>2, <1>5, <1>7
  <2>2. Len(queue') <= Len(AllSent') /\ Len(queue') # Len(AllSent')
    BY <1>8, <2>1
  <2>3. \A i \in 1 .. Len(queue') : queue'[i].what = AllSent'[Len(AllSent') - Len(queue') + i]
    BY <1>2, <1>9, <2>1
  <2> QED
    BY <2>2, <2>3 DEF Queued
<1>11. q[1].what = AllSent[l - k + 1]
  BY <1>5, <1>8
<1> QED
  BY <1>1, <1>2, <1>4, <1>5, <1>6, <1>7, <1>10, <1>11

(* Who becomes a member has been told nothing of the user, and the user's     *)
(* JOIN is received when he becomes one.                                      *)
LEMMA JoinKeepsHearing ==
  ASSUME Joint, Joint', Hearing, UNCHANGED userVars, AcceptJoin
  PROVE  Hearing'
<1>0. user \in Conns /\ user # None /\ \A c \in OtherConns : c \in Conns /\ c # user
  BY SystemAssumption, ChatAssumption DEF OtherConns
<1>1. PICK c \in Conns : c = newcomer
  BY JoinEffect DEF Joint
<1>2. /\ pc # "dead" /\ new_fd \in Fds /\ sock[new_fd] = c
      /\ toServer[c] # <<>> \/ peer[c] = "closed"
      /\ toServer' = Received(c) /\ member[c] = None
      /\ PeersBreak(peer)
      /\ UNCHANGED <<backlog, sent, sock>>
  BY <1>1, JoinEffect DEF Joint
<1>3. PICK name \in Names, names \in SUBSET Names :
        /\ \A d \in Conns : member[d] # name
        /\ member' = [member EXCEPT ![c] = name]
        /\ toPeer'[c] = Append(toPeer[c], Message("ACK", names))
        /\ \A d \in Conns \ {c} :
             \/ toPeer'[d] = toPeer[d]
             \/ member[d] # None /\ toPeer'[d] = Append(toPeer[d], Message("ONLINE", name))
  BY <1>1, JoinEffect DEF Joint
<1>4. PICK a \in Answers : a = Message("ACK", names)
  BY DEF Answers, Message
<1>5. PICK b \in Answers : b = Message("ONLINE", name)
  BY DEF Answers, Message
<1>6. /\ a.what \notin {"SEND", "IDLE"} /\ \A n : Message("ONLINE", n) # a
      /\ b.what \notin {"SEND", "IDLE"} /\ \A n : Message("ONLINE", n) = b => n = name
  BY <1>4, <1>5 DEF Message
<1>7. /\ member'[c] = name /\ name # None
      /\ \A d \in Conns \ {c} : member'[d] = member[d]
  BY <1>3, ChatAssumption DEF member
<1>8. /\ Range(toPeer'[c]) \subseteq Range(toPeer[c]) \cup {a}
      /\ \A d \in Conns \ {c} : Range(toPeer'[d]) \subseteq Range(toPeer[d]) \cup {b}
      /\ \A d \in Conns \ {c} : member[d] = None => toPeer'[d] = toPeer[d]
      /\ \A d \in Conns : \A n : Hears(toPeer'[d], n) = Hears(toPeer[d], n)
  BY <1>3, <1>4, <1>5, <1>6, ToldMore DEF Joint
<1>9. AllSent' = AllSent /\ mainPc' = mainPc
  BY DEF userVars, AllSent
<1>10. /\ toServer'[c] = IF toServer[c] = <<>> THEN <<>> ELSE Tail(toServer[c])
       /\ \A d \in Conns \ {c} : toServer'[d] = toServer[d]
  BY <1>2 DEF Received, Joint, Inductive, TypeOK
<1>11. peer'[user] = "done" <=> peer[user] = "done"
  BY <1>0, <1>2 DEF PeersBreak
<1>12. UserGone' /\ FirstIsJoin'
  BY <1>2, <1>9, <1>11 DEF Hearing, UserGone, FirstIsJoin
<1>13. c # user => sent[c] = 1 /\ toServer'[c] = <<>>
  <2> SUFFICES ASSUME c # user PROVE sent[c] = 1 /\ toServer'[c] = <<>>
    OBVIOUS
  <2>1. c \in OtherConns
    BY <1>0 DEF OtherConns
  <2>2. toServer[c] # <<>>
    BY <1>2, <2>1 DEF Hearing, OthersListen
  <2>3. PICK q \in Seq(Messages) : q = toServer[c]
    BY DEF Joint, Inductive, TypeOK
  <2>4. Len(q) <= sent[c] /\ sent[c] <= 1
    BY <2>1, <2>3 DEF Hearing, OthersListen
  <2>5. sent[c] \in Int
    BY ChatAssumption DEF Joint, Inductive, TypeOK
  <2>6. Len(q) \in Nat /\ Len(q) # 0
    BY <2>2, <2>3, EmptySeq, LenProperties
  <2>7. Len(Tail(q)) = 0 /\ Tail(q) \in Seq(Messages)
    <3>1. Len(q) = 1
      <4>1. PICK l \in Nat, x \in Int : l = Len(q) /\ x = sent[c]
        BY <2>5, <2>6
      <4>2. l <= x /\ x <= 1 /\ l # 0
        BY <2>4, <2>6, <4>1
      <4> QED
        BY <4>1, <4>2
    <3> QED
      BY <2>2, <2>3, <3>1, HeadTailProperties
  <2>8. Tail(q) = <<>>
    BY <2>7, EmptySeq
  <2> QED
    BY <1>10, <2>2, <2>3, <2>4, <2>5, <2>6, <2>8
<1>14. OthersListen'
  <2>1. ASSUME NEW d \in OtherConns
        PROVE  peer'[d] \in {"new", "open", "done"} /\ sent'[d] <= 1
               /\ Len(toServer'[d]) <= sent'[d]
    <3>1. peer'[d] = peer[d] /\ sent'[d] = sent[d] /\ Len(<<>>) = 0
      BY <1>0, <1>2, EmptySeq DEF Hearing, OthersListen, PeersBreak
    <3>2. CASE d = c
      BY <1>0, <1>13, <3>1, <3>2 DEF Hearing, OthersListen
    <3>3. CASE d # c
      BY <1>0, <1>10, <3>1, <3>3 DEF Hearing, OthersListen
    <3> QED
      BY <3>2, <3>3
  <2> QED
    BY <2>1 DEF OthersListen
<1>15. MembersListen'
  <2>1. MembersListen
    BY <1>2 DEF Hearing
  <2>2. ASSUME NEW d \in OtherConns
        PROVE  /\ member'[d] # None => sent'[d] = 1 /\ toServer'[d] = <<>>
               /\ \A n : Message("ONLINE", n) \in Range(toPeer'[d]) => member'[d] # None
    <3>1. CASE d = c
      BY <1>0, <1>2, <1>7, <1>13, <3>1
    <3>2. CASE d # c
      BY <1>0, <1>2, <1>7, <1>8, <1>10, <2>1, <3>2 DEF MembersListen
    <3> QED
      BY <3>1, <3>2
  <2> QED
    BY <2>2 DEF MembersListen
<1>16. c = user => /\ Queued /\ NotBefore /\ queue # <<>> /\ queue' = Tail(queue)
                   /\ Len(queue) = Len(AllSent)
  <2> SUFFICES ASSUME c = user
               PROVE  /\ Queued /\ NotBefore /\ queue # <<>> /\ queue' = Tail(queue)
                      /\ Len(queue) = Len(AllSent)
    OBVIOUS
  <2>1. peer[user] # "done"
    BY <1>2 DEF Hearing, UserGone
  <2>2. Queued /\ NotBefore
    BY <1>2, <2>1 DEF Hearing
  <2>3. Len(queue) = Len(AllSent)
    BY <1>2, <2>2 DEF Queued
  <2>4. queue # <<>>
    <3>1. CASE peer[user] = "closed"
      <4>1. AllSent # <<>> /\ AllSent \in Seq(Sayings)
        BY <3>1 DEF Joint, UserBegins, Hearing, FirstIsJoin
      <4>2. Len(AllSent) # 0
        BY <4>1, EmptySeq
      <4> QED
        BY <2>3, <4>2, EmptySeq
    <3> QED
      BY <1>2, <3>1 DEF queue
  <2> QED
    BY <1>10, <2>2, <2>3, <2>4 DEF queue
<1>17. peer'[user] # "done" => Queued' /\ NotBefore'
  <2> SUFFICES ASSUME peer'[user] # "done" PROVE Queued' /\ NotBefore'
    OBVIOUS
  <2>1. Queued /\ NotBefore
    BY <1>2, <1>11 DEF Hearing
  <2>2. Queued'
    <3>1. CASE c = user
      BY <1>7, <1>9, <1>16, <3>1, QueueTail
    <3>2. CASE c # user
      BY <1>0, <1>7, <1>9, <1>10, <2>1, <3>2 DEF Queued, queue
    <3> QED
      BY <3>1, <3>2
  <2>3. ASSUME NEW d \in Conns, NEW n \in Names, Message("ONLINE", n) \in Range(toPeer'[d])
        PROVE  \E e \in Conns : member'[e] = n
    <3>1. CASE n = name
      BY <1>7, <3>1
    <3>2. CASE n # name
      <4>1. Message("ONLINE", n) \in Range(toPeer[d])
        BY <1>6, <1>8, <2>3, <3>2
      <4>2. PICK e \in Conns : member[e] = n
        BY <2>1, <4>1 DEF NotBefore
      <4>3. e # c
        BY <1>2, <4>2, ChatAssumption
      <4> QED
        BY <1>7, <4>2, <4>3
    <3> QED
      BY <3>1, <3>2
  <2>4. ASSUME NEW d \in Conns, member'[user] = None, NEW x \in Range(toPeer'[d])
        PROVE  x.what \notin {"SEND", "IDLE"}
    <3>1. member[user] = None
      BY <1>0, <1>7, <2>4
    <3>2. x \in Range(toPeer[d]) \cup {a, b}
      BY <1>8, <2>4
    <3> QED
      BY <1>6, <2>1, <3>1, <3>2 DEF NotBefore
  <2> QED
    BY <2>2, <2>3, <2>4 DEF NotBefore
<1>18. ASSUME NEW d \in Witnesses' PROVE Follows(d)'
  <2>1. d \in OtherConns /\ member'[user] # None /\ member'[d] # None
        /\ Message("ONLINE", member'[user]) \in Range(toPeer'[d])
    BY <1>18 DEF Witnesses
  <2>2. HeardOf(d)' = Hears(toPeer'[d], member'[user])
    BY DEF HeardOf, Hears, His
  <2>3. CASE c = user
    <3>1. Hears(toPeer[d], name) = <<>>
      <4>1. toPeer[d] \in Seq(Answers) /\ \A x \in Range(toPeer[d]) : x.what \notin {"SEND", "IDLE"}
        BY <1>0, <1>2, <1>16, <2>1, <2>3 DEF Joint, Heard, NotBefore
      <4> QED
        BY <4>1, HearsNothing
    <3>2. HeardOf(d)' = <<>>
      BY <1>0, <1>7, <1>8, <2>1, <2>2, <2>3, <3>1
    <3>3. /\ Len(queue) \in Nat /\ Len(queue') = Len(queue) - 1 /\ 1 <= Len(queue)
      BY <1>7, <1>9, <1>16, <2>3, QueueTail
    <3>4. Len(<<>>) = 0 /\ Len(AllSent') = Len(queue) /\ AllSent' = AllSent
      BY <1>9, <1>16, <2>3, EmptySeq
    <3> QED
      BY <3>2, <3>3, <3>4 DEF Follows
  <2>4. CASE c # user
    <3>1. member'[user] = member[user] /\ queue' = queue
      BY <1>0, <1>7, <1>10, <2>4 DEF queue
    <3>2. Message("ONLINE", member[user]) \in Range(toPeer[d])
      <4>1. Message("ONLINE", member[user]) \notin {a, b}
        BY <1>0, <1>3, <1>6
      <4>2. Range(toPeer'[d]) \subseteq Range(toPeer[d]) \cup {a, b}
        BY <1>0, <1>8, <2>1
      <4> QED
        BY <2>1, <3>1, <4>1, <4>2
    <3>3. d # c
      <4>1. member[d] # None
        BY <1>2, <2>1, <3>2 DEF Hearing, MembersListen
      <4> QED
        BY <1>2, <4>1
    <3>4. d \in Witnesses
      BY <1>0, <1>7, <2>1, <3>1, <3>2, <3>3 DEF Witnesses
    <3>5. toPeer'[d] = toPeer[d] \/ toPeer'[d] = Append(toPeer[d], b)
      BY <1>0, <1>3, <1>5, <2>1, <3>3
    <3> QED
      BY <1>2, <1>6, <1>9, <3>1, <3>4, <3>5, StillFollows DEF Joint
  <2> QED
    BY <2>3, <2>4
<1> QED
  BY <1>12, <1>14, <1>15, <1>17, <1>18 DEF Hearing(* What is passed on is the next message of the user's. *)
LEMMA ForwardKeepsHearing ==
  ASSUME Joint, Joint', Hearing, UNCHANGED userVars, NEW f \in Fds, Forward(f)
  PROVE  Hearing'
<1>0. user \in Conns /\ user # None /\ \A c \in OtherConns : c \in Conns /\ c # user
  BY SystemAssumption, ChatAssumption DEF OtherConns
<1>1. PICK c : c = sock[f]
  OBVIOUS
<1>2. PICK a : a = Message(Kind(Head(toServer[c])), member[c])
  OBVIOUS
<1>3. /\ pc # "dead" /\ f \in master /\ c \in Room!Members
      /\ toServer[c] # <<>> /\ toServer' = [toServer EXCEPT ![c] = Tail(@)]
      /\ member' = member /\ UNCHANGED <<backlog, sent, sock>>
      /\ PeersBreak(peer)
      /\ \A d \in Conns : toPeer'[d] = toPeer[d] \/ toPeer'[d] = Append(toPeer[d], a)
      /\ pc' # "dead" => \A d \in Room!Members \ {c} : toPeer'[d] = Append(toPeer[d], a)
  BY <1>1, <1>2, ForwardEffect DEF Joint
<1>4. c = user
  BY <1>3 DEF Hearing, MembersListen, OtherConns, Room!Members
<1>5. a \in Answers /\ a = Message(Kind(Head(queue)), member[user]) /\ member[user] # None
  <2>1. member[user] \in Names \cup {None} /\ member[user] # None
    BY <1>0, <1>3, <1>4, MembersHaveNames DEF Joint, Room!Members
  <2> QED
    BY <1>2, <1>4, <2>1 DEF Answers, Message, Kind, queue
<1>6. \A n : Message("ONLINE", n) # a
  BY <1>5 DEF Message, Kind
<1>7. \A d \in Conns : Range(toPeer'[d]) \subseteq Range(toPeer[d]) \cup {a}
  BY <1>3, <1>5, ToldMore DEF Joint
<1>8. AllSent' = AllSent /\ mainPc' = mainPc
  BY DEF userVars, AllSent
<1>9. peer[user] # "done" /\ peer'[user] # "done"
  BY <1>0, <1>1, <1>3, <1>4 DEF Hearing, UserGone, PeersBreak
<1>10. Queued /\ NotBefore /\ MembersListen
  BY <1>3, <1>9 DEF Hearing
<1>11. /\ queue # <<>> /\ queue' = Tail(queue)
       /\ \A d \in OtherConns : toServer'[d] = toServer[d]
  BY <1>0, <1>3, <1>4 DEF queue, Joint, Inductive, TypeOK
<1>12. /\ Queued' /\ Len(AllSent) \in Nat /\ Len(queue) \in Nat
       /\ Len(queue') = Len(queue) - 1 /\ 1 <= Len(queue)
       /\ Head(queue).what = AllSent[Len(AllSent) - Len(queue) + 1]
  BY <1>3, <1>5, <1>8, <1>10, <1>11, QueueTail
<1>13. PICK w : w = Head(queue).what
  OBVIOUS
<1>14. w \in {"SEND", "IDLE"} /\ a = Message(w, member[user])
  <2>1. PICK k \in Nat, l \in Nat : k = Len(queue) /\ l = Len(AllSent)
    BY <1>12
  <2>2. 1 <= k /\ k < l
    BY <1>5, <1>10, <1>12, <2>1 DEF Queued
  <2>3. PICK i \in 1 .. l : i = l - k + 1 /\ i # 1
    BY <2>2
  <2>4. w = AllSent[i]
    BY <1>12, <1>13, <2>1, <2>3
  <2>5. AllSent[i] \in Sayings /\ AllSent[i] # "JOIN"
    BY <2>1, <2>3, ElementOfSeq DEF Hearing, FirstIsJoin
  <2>6. w \in {"SEND", "IDLE"}
    BY <2>4, <2>5 DEF Sayings
  <2> QED
    BY <1>5, <1>13, <2>6 DEF Kind
<1>15. UserGone' /\ FirstIsJoin'
  BY <1>3, <1>8, <1>9 DEF Hearing, UserGone, FirstIsJoin
<1>16. OthersListen'
  BY <1>0, <1>3, <1>11 DEF Hearing, OthersListen, PeersBreak
<1>17. MembersListen'
  BY <1>0, <1>3, <1>6, <1>7, <1>10, <1>11 DEF MembersListen
<1>18. NotBefore'
  BY <1>3, <1>5, <1>6, <1>7, <1>10 DEF NotBefore
<1>19. ASSUME NEW d \in Witnesses' PROVE Follows(d)'
  <2>1. /\ d \in OtherConns /\ d \in Conns /\ d # user /\ member[d] # None
        /\ Message("ONLINE", member[user]) \in Range(toPeer'[d])
    BY <1>0, <1>3, <1>19 DEF Witnesses
  <2>2. d \in Witnesses
    BY <1>3, <1>5, <1>6, <1>7, <2>1 DEF Witnesses
  <2>3. Follows(d)
    BY <2>2 DEF Hearing
  <2>4. HeardOf(d)' = Hears(toPeer'[d], member[user])
    BY <1>3 DEF HeardOf, Hears, His
  <2>5. PICK h \in Seq({"SEND", "IDLE"}) : h = HeardOf(d)
    BY <2>1, HeardOfIsHears, HearsType DEF Joint, Heard
  <2>6. PICK k \in Nat, l \in Nat, n \in Nat :
          k = Len(queue) /\ l = Len(AllSent) /\ n = Len(h)
    BY <1>12, <2>5, LenProperties
  <2>7. /\ n + 1 + k = l /\ 1 <= k
        /\ \A i \in 1 .. n : h[i] = AllSent[i + 1]
    BY <1>3, <1>12, <2>3, <2>5, <2>6 DEF Follows
  <2>8. Len(queue') = k - 1 /\ Len(AllSent') = l /\ w = AllSent[l - k + 1]
    BY <1>8, <1>12, <1>13, <2>6
  <2>9. CASE toPeer'[d] = Append(toPeer[d], a)
    <3>1. a \in His(member[user]) /\ a.what = w
      BY <1>14 DEF His, Message
    <3>2. toPeer[d] \in Seq(Answers) /\ h = Hears(toPeer[d], member[user])
      BY <2>1, <2>5, HeardOfIsHears DEF Joint, Heard
    <3>3. HeardOf(d)' = Append(h, w)
      BY <1>5, <2>4, <2>9, <3>1, <3>2, HearsGrows
    <3>4. PICK g : g = HeardOf(d)'
      OBVIOUS
    <3>5. Len(g) = n + 1 /\ g[n + 1] = w /\ \A i \in 1 .. n : g[i] = h[i]
      BY <1>14, <2>5, <2>6, <3>3, <3>4, AppendProperties
    <3>6. l - k + 1 = (n + 1) + 1 /\ n + 1 < l
      BY <2>7
    <3>7. ASSUME NEW i \in 1 .. n + 1 PROVE g[i] = AllSent[i + 1]
      <4>1. CASE i = n + 1
        BY <2>8, <3>5, <3>6, <4>1
      <4>2. CASE i \in 1 .. n
        BY <2>7, <3>5, <4>2
      <4> QED
        BY <4>1, <4>2
    <3>8. Len(g) < Len(AllSent') /\ Len(g) + 1 + Len(queue') = Len(AllSent')
      BY <2>7, <2>8, <3>5, <3>6
    <3> QED
      BY <1>8, <3>4, <3>5, <3>7, <3>8 DEF Follows
  <2>10. CASE toPeer'[d] = toPeer[d] /\ pc' = "dead"
    <3>1. HeardOf(d)' = HeardOf(d)
      BY <2>4, <2>10, HeardOfIsHears
    <3> QED
      BY <1>8, <2>3, <2>10, <3>1 DEF Follows
  <2> QED
    BY <1>3, <1>4, <2>1, <2>9, <2>10 DEF Room!Members
<1> QED
  BY <1>12, <1>15, <1>16, <1>17, <1>18, <1>19 DEF Hearing

(* So every step keeps the invariant. *)
LEMMA HearingStep ==
  ASSUME Joint, Joint', Hearing, [SystemNext]_systemVars
  PROVE  Hearing'
<1>1. CASE Server
  BY <1>1, QuietKeepsHearing, RefuseKeepsHearing, JoinKeepsHearing, ForwardKeepsHearing,
     DropKeepsHearing DEF Server, ServerStep
<1>2. CASE \/ \E c \in Conns : Arrive(c)
           \/ \E c \in OtherConns : OtherJoins(c)
  BY <1>2, OthersKeepHearing
<1>3. CASE MainThread \/ IdleThread
  BY <1>3, ThreadsKeepHearing
<1>4. CASE Input \/ Time \/ Deliver \/ DeliverEnd \/ CloseAtEnd \/ UNCHANGED systemVars
  BY <1>4, OutsideKeepsHearing
<1> QED
  BY <1>1, <1>2, <1>3, <1>4 DEF SystemNext

(* A start of what was sent behind the JOIN *)
LEMMA FollowersHearAPrefix ==
  ASSUME FirstIsJoin, Heard, NEW c \in OtherConns, Follows(c)
  PROVE  IsPrefix(HeardOf(c), Said)
<1>1. PICK h \in Seq({"SEND", "IDLE"}) : h = HeardOf(c)
  BY HeardOfIsHears, HearsType DEF Heard, OtherConns
<1>2. PICK s \in Seq(Sayings) : s = AllSent
  BY DEF FirstIsJoin
<1>3. PICK n \in Nat, l \in Nat : n = Len(h) /\ l = Len(s)
  BY LenProperties
<1>4. n < l /\ \A i \in 1 .. n : h[i] = s[i + 1]
  BY <1>1, <1>2, <1>3 DEF Follows
<1>5. s # <<>>
  BY <1>3, <1>4, EmptySeq
<1>6. PICK t \in Seq(Sayings) : t = Said /\ t = Tail(s)
  BY <1>2, <1>5, HeadTailProperties DEF Said
<1>7. Len(t) = l - 1 /\ \A i \in 1 .. l - 1 : t[i] = s[i + 1]
  BY <1>2, <1>3, <1>5, <1>6, HeadTailProperties
<1>8. n <= Len(t) /\ \A i \in 1 .. n : h[i] = t[i]
  BY <1>4, <1>7
<1>9. SubSeq(h, 1, n) = h
  BY <1>3, SubSeqFull
<1>10. SubSeq(t, 1, n) = h
  <2>1. PICK r : r = SubSeq(t, 1, n)
    OBVIOUS
  <2>2. \A i \in 1 .. n : t[i] \in Sayings
    BY <1>6, <1>8, ElementOfSeq
  <2>3. r \in Seq(Sayings) /\ Len(r) = n /\ \A i \in 1 .. n : r[i] = t[i]
    <3>1. \A i \in 1 .. n : 1 + i - 1 = i
      OBVIOUS
    <3> QED
      BY <1>6, <1>8, <2>1, <2>2, <3>1, SubSeqProperties
  <2>4. h \in Seq(Sayings)
    BY <1>1 DEF Sayings
  <2> QED
    BY <1>3, <1>8, <2>1, <2>3, <2>4, SeqEqual
<1> QED
  BY <1>1, <1>3, <1>6, <1>8, <1>9, <1>10 DEF IsPrefix

------------------------------------------------------------------------------
(* The theorems about the system *)

LEMMA SystemHolds == SystemSpec => [](Joint /\ Hearing)
<1>1. Joint /\ Hearing /\ [SystemNext]_systemVars => (Joint /\ Hearing)'
  BY JointStep, HearingStep
<1> QED
  BY <1>1, JointInit, HearingInit, PTL DEF SystemSpec

(* The server and the client together do what ChatServer lets a server and    *)
(* its clients do: what is proved of it holds with the real client, too.      *)
THEOREM SystemIsServer == SystemSpec => Spec
<1>1. SystemInit => Init
  BY DEF SystemInit
<1>2. Joint /\ [SystemNext]_systemVars => [Next]_vars
  BY StepOfServer
<1> QED
  BY <1>1, <1>2, SystemHolds, PTL DEF SystemSpec, Spec

(* And what the client does is what ChatClient lets a client do. *)
THEOREM SystemIsClient == SystemSpec => User!Init /\ [][User!Next]_(User!vars)
<1>1. SystemInit => User!Init
  BY DEF SystemInit
<1>2. Joint /\ [SystemNext]_systemVars => [User!Next]_(User!vars)
  BY StepOfClient, UserStepIsClients
<1> QED
  BY <1>1, <1>2, SystemHolds, PTL DEF SystemSpec

(* Every member that has heard of the user's arrival hears of him what both   *)
(* threads of his client have sent, in that order, none missing and none      *)
(* twice: whatever the others, the threads and the server's loops do between, *)
(* and also when the server dies.                                             *)
THEOREM HeardAsSent == SystemSpec => []HeardInOrder
<1>1. Joint /\ Hearing => HeardInOrder
  <2> SUFFICES ASSUME Joint, Hearing, NEW c \in Witnesses PROVE IsPrefix(HeardOf(c), Said)
    BY DEF HeardInOrder
  <2>1. c \in OtherConns /\ Follows(c)
    BY DEF Hearing, Witnesses
  <2> QED
    BY <2>1, FollowersHearAPrefix DEF Hearing, Joint
<1> QED
  BY <1>1, SystemHolds, PTL
=============================================================================
