------------------------------ MODULE ChatRoom ------------------------------
(* What the chat server promises its users: a room with a limited number of   *)
(* members under different names. Whoever joins, speaks or leaves is heard by *)
(* every other member, once and in one order, and by nobody else. The room    *)
(* may close, and then any part of the members heard the last message.        *)
EXTENDS Integers, Sequences, FiniteSets

CONSTANTS Conns, Names, MaxClient, None

VARIABLES
  member,       \* connection -> the name it joined under, or None
  heard,        \* connection -> all it was told, in order
  open          \* FALSE when the room has closed

vars == <<member, heard, open>>

Members == {c \in Conns : member[c] # None}

Message(what, name) == [what |-> what, name |-> name]

Tell(who, m) ==
  [c \in Conns |-> IF c \in who THEN Append(heard[c], m) ELSE heard[c]]

Init ==
  /\ member = [c \in Conns |-> None]
  /\ heard = [c \in Conns |-> <<>>]
  /\ open = TRUE

(* A newcomer is told who is there, and the others are told of the newcomer. *)
Join(c, name) ==
  /\ open /\ c \notin Members
  /\ Cardinality(Members) < MaxClient
  /\ \A d \in Members : member[d] # name
  /\ member' = [member EXCEPT ![c] = name]
  /\ heard' = [Tell(Members, Message("ONLINE", name)) EXCEPT
                 ![c] = Append(@, Message("ACK", {member[d] : d \in Members}))]
  /\ UNCHANGED open

(* A newcomer is turned away only from a full room or for a name in use. *)
Refuse(c, name) ==
  /\ open /\ c \notin Members
  /\ Cardinality(Members) = MaxClient \/ \E d \in Members : member[d] = name
  /\ heard' = Tell({c}, Message("NAK", name))
  /\ UNCHANGED <<member, open>>

Say(c, what) ==
  /\ open /\ c \in Members
  /\ heard' = Tell(Members \ {c}, Message(what, member[c]))
  /\ UNCHANGED <<member, open>>

Leave(c) ==
  /\ open /\ c \in Members
  /\ heard' = Tell(Members \ {c}, Message("OFFLINE", member[c]))
  /\ member' = [member EXCEPT ![c] = None]
  /\ UNCHANGED open

Close ==
  /\ open /\ open' = FALSE
  /\ \A c \in Conns : /\ Len(heard'[c]) \in {Len(heard[c]), Len(heard[c]) + 1}
                      /\ SubSeq(heard'[c], 1, Len(heard[c])) = heard[c]

Next ==
  \/ \E c \in Conns, name \in Names : Join(c, name) \/ Refuse(c, name)
  \/ \E c \in Conns : Leave(c) \/ Say(c, "SEND") \/ Say(c, "IDLE")
  \/ Close

Spec == Init /\ [][Next]_vars
=============================================================================
