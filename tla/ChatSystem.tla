----------------------------- MODULE ChatSystem -----------------------------
(* The chat server with a user's client in full: ChatServer, in which one     *)
(* connection is that of a ChatClient with its two threads, and the others    *)
(* join and listen. What the client hands to send is received by the server,  *)
(* and what the server sends reaches the client some time later.              *)
EXTENDS ChatServer, SequencesExt

CONSTANTS
  user,         \* the connection of the client that is modelled in full
  user_name,    \* the name it joins with
  IDLE_WAIT_TIME, MaxLines, MaxTold

(* The clients of ChatServer may do what this one does: end, and send as many *)
(* messages, which are a JOIN, one for each line, and as many IDLEs and one.  *)
ASSUME SystemAssumption ==
  /\ user \in Conns /\ user_name \in Names
  /\ IDLE_WAIT_TIME \in Nat \ {0} /\ MaxLines \in Nat /\ MaxTold \in Nat
  /\ Faults = {"close", "reset"} /\ MaxSays >= 2 * MaxLines + 1

VARIABLES
  isIdleMessage, mainPc, ready, idlePc, timeLeft, tvNsecValid, terminal, keyboard,
  buffered, eof, inbox, told, log,
  link          \* the connection as the client sees it

userVars == <<isIdleMessage, mainPc, ready, idlePc, timeLeft, tvNsecValid, terminal,
              keyboard, buffered, eof, inbox, told, log, link>>
systemVars == <<vars, userVars>>

User == INSTANCE ChatClient WITH peer <- link

OtherConns == Conns \ {user}

(* The user sits at a terminal and reaches the server; the wait of the idle   *)
(* thread works. ChatClient has the other cases.                              *)
SystemInit == Init /\ User!Init /\ terminal /\ link = "up" /\ tvNsecValid

------------------------------------------------------------------------------
(* The client's end of the connection. *)

(* The first message is the JOIN: the user's name is short enough for one. *)
Transmit(what) ==
  Send(user, Message(what, IF what = "JOIN" THEN user_name ELSE None))

(* What a step of the client adds to its log, but for "line", is a message. A *)
(* server that has closed the connection drops it.                            *)
Sends == log' # log /\ Last(log') # "line" /\ peer[user] = "open"
Carried == IF Sends THEN Transmit(Last(log')) ELSE UNCHANGED vars

MainThread ==
  /\ peer[user] # "new" /\ User!Running
  /\ User!MainStep /\ (mainPc = "join" => log' # log)
  /\ Carried
IdleThread == User!IdleStep /\ Carried

(* A message that is not received is still under way, or in the buffer of the *)
(* socket: one at most is put there ahead.                                    *)
Deliver ==
  /\ User!Running /\ told < Len(toPeer[user]) /\ inbox = <<>>
  /\ User!Tell(IF toPeer[user][told + 1].what = "NAK" THEN "NAK" ELSE "FWD")
  /\ UNCHANGED vars

DeliverEnd ==
  /\ User!Running /\ told = Len(toPeer[user]) /\ (peer[user] = "done" \/ pc = "dead")
  /\ User!CloseServer
  /\ UNCHANGED vars

(* A process that has ended closes its socket: with a RST when there is text  *)
(* it has not received.                                                       *)
CloseAtEnd ==
  /\ ~User!Running /\ peer[user] = "open"
  /\ peer' = [peer EXCEPT ![user] =
                IF inbox # <<>> \/ told < Len(toPeer[user]) THEN "reset" ELSE "closed"]
  /\ UNCHANGED <<backlog, sent, toServer, toPeer, server, userVars>>

Time == User!Running /\ User!Tick /\ UNCHANGED vars
Input == User!Running /\ (User!Type \/ User!EndInput) /\ UNCHANGED vars

Server == ServerStep /\ UNCHANGED userVars

OtherJoins(c) == SendJoin(c) /\ UNCHANGED userVars
Arrive(c) == Connect(c) /\ UNCHANGED userVars

SystemNext ==
  \/ Server
  \/ \E c \in Conns : Arrive(c)
  \/ \E c \in OtherConns : OtherJoins(c)
  \/ Input \/ Time \/ MainThread \/ IdleThread
  \/ Deliver \/ DeliverEnd \/ CloseAtEnd

(* As in ChatServer and ChatClient; and what is sent arrives. *)
SystemSpec ==
  /\ SystemInit /\ [][SystemNext]_systemVars
  /\ WF_systemVars(Server) /\ \A c \in OtherConns : WF_systemVars(OtherJoins(c))
  /\ WF_systemVars(MainThread) /\ WF_systemVars(IdleThread) /\ WF_systemVars(Time)
  /\ WF_systemVars(Deliver \/ DeliverEnd) /\ WF_systemVars(CloseAtEnd)

------------------------------------------------------------------------------
(* Properties. *)

(* The elements of a sequence that are in a set, in their order *)
Chosen(s, set) ==
  LET upTo[n \in 0 .. Len(s)] ==
        IF n = 0 THEN <<>>
        ELSE IF s[n] \in set THEN Append(upTo[n - 1], s[n]) ELSE upTo[n - 1]
  IN upTo[Len(s)]

(* What a member that has heard of the user's arrival hears of him is what    *)
(* both threads of his client have sent, in that order, behind the JOIN.      *)
AllSent == Chosen(log, {"JOIN", "SEND", "IDLE"})
Said == IF AllSent = <<>> THEN AllSent ELSE Tail(AllSent)

HeardOf(c) ==
  LET his == Chosen(toPeer[c], {Message(what, member[user]) : what \in {"SEND", "IDLE"}})
  IN [i \in DOMAIN his |-> his[i].what]

Witnesses == {c \in OtherConns : /\ member[user] # None /\ member[c] # None
                              /\ Message("ONLINE", member[user]) \in Range(toPeer[c])}

HeardInOrder == \A c \in Witnesses : IsPrefix(HeardOf(c), Said)

(* In the end they have heard all of it, the last IDLE too, or the server has *)
(* died.                                                                      *)
HeardInTheEnd == <>[](pc = "dead" \/ \A c \in Witnesses : HeardOf(c) = Said)
=============================================================================
