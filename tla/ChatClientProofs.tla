-------------------------- MODULE ChatClientProofs --------------------------
(* Proofs about ChatClient: however its two threads interleave, and whatever  *)
(* user and server do, no IDLE is sent too often and no line is left unsent.  *)
EXTENDS ChatClient, SequenceTheorems, FiniteSetTheorems, TLAPS

------------------------------------------------------------------------------
(* The invariant. *)

Notes == {"line", "JOIN", "SEND", "IDLE"}

(* 1 for a condition that holds, else 0 *)
One(condition) == IF condition THEN 1 ELSE 0

(* The idle thread sets the flag only when it is clear: an IDLE that is sent, *)
(* or about to be, is paid for by the flag, by a line, or is the first.       *)
FlagPays ==
  /\ idlePc = "set" => ~isIdleMessage
  /\ Count("IDLE") + One(idlePc = "send") <= Count("line") + One(isIdleMessage)

(* A line is sent right after the flag is cleared for it. *)
LinesAreSent ==
  mainPc # "killed" => Count("line") = Count("SEND") + One(mainPc = "send")

(* The lines that are read, are in a buffer or can be read are as many as     *)
(* were entered; fgets is called when it has something to return.             *)
LinesAreCounted ==
  /\ Count("line") + keyboard + buffered + One(mainPc = "clear") <= MaxLines
  /\ mainPc = "input" => keyboard > 0 \/ eof
  /\ mainPc = "eof" => buffered = 0

Messages ==
  /\ terminal \in BOOLEAN /\ eof \in BOOLEAN
  /\ inbox \in Seq({"FWD", "NAK"}) /\ Len(inbox) <= told
  /\ log \in Seq(Notes)

Inductive == TypeOK /\ Messages /\ FlagPays /\ LinesAreSent /\ LinesAreCounted

------------------------------------------------------------------------------
(* The log. *)

(* How often a note is in a log, and ... *)
Often(s, w) == Cardinality({i \in DOMAIN s : s[i] = w})

(* ... in a longer one *)
LEMMA NotesAreCounted ==
  ASSUME NEW s \in Seq(Notes), NEW w
  PROVE  /\ Often(s, w) \in Nat
         /\ \A m \in Notes : Often(Append(s, m), w) = Often(s, w) + One(m = w)
<1> DEFINE T == {i \in DOMAIN s : s[i] = w}
<1>1. Len(s) \in Nat /\ DOMAIN s = 1 .. Len(s)
  BY LenProperties
<1>2. IsFiniteSet(T) /\ Cardinality(T) \in Nat
  <2>1. IsFiniteSet(1 .. Len(s)) /\ T \in SUBSET (1 .. Len(s))
    BY <1>1, FS_Interval
  <2>2. IsFiniteSet(T)
    BY <2>1, FS_Subset
  <2> QED
    BY <2>2, FS_CardinalityType
<1>3. ASSUME NEW m \in Notes
      PROVE  Often(Append(s, m), w) = Cardinality(T) + One(m = w)
  <2>1. PICK a \in Seq(Notes) : a = Append(s, m)
    BY AppendProperties
  <2>2. /\ Len(a) = Len(s) + 1 /\ a[Len(s) + 1] = m
        /\ \A i \in 1 .. Len(s) : a[i] = s[i]
    BY <2>1, AppendProperties
  <2>3. DOMAIN a = 1 .. Len(s) + 1
    BY <2>2, LenProperties
  <2> DEFINE A == {i \in DOMAIN a : a[i] = w}
  <2>4. Len(s) + 1 \notin T
    BY <1>1
  <2>5. \A i : i \in 1 .. Len(s) + 1 <=> i \in 1 .. Len(s) \/ i = Len(s) + 1
    BY <1>1
  <2>6. A = IF m = w THEN T \cup {Len(s) + 1} ELSE T
    BY <1>1, <2>2, <2>3, <2>5
  <2>7. Cardinality(A) = Cardinality(T) + One(m = w)
    <3> HIDE DEF A, T
    <3>1. CASE m = w
      BY <1>2, <2>4, <2>6, <3>1, FS_AddElement DEF One
    <3>2. CASE m # w
      BY <1>2, <2>6, <3>2 DEF One
    <3> QED
      BY <3>1, <3>2
  <2> QED
    BY <2>1, <2>7 DEF Often
<1> QED
  BY <1>2, <1>3 DEF Often

(* The counts are numbers. *)
LEMMA CountType ==
  ASSUME Messages, NEW w
  PROVE  Count(w) \in Nat
<1>1. log \in Seq(Notes) /\ Count(w) = Often(log, w)
  BY DEF Messages, Count, Often
<1> QED
  BY <1>1, NotesAreCounted

(* What a longer log counts *)
LEMMA Noted ==
  ASSUME Messages, NEW m \in Notes, log' = Append(log, m), NEW w
  PROVE  log' \in Seq(Notes) /\ Count(w)' = Count(w) + One(m = w)
<1>1. log \in Seq(Notes)
  BY DEF Messages
<1>2. log' \in Seq(Notes)
  BY <1>1, AppendProperties
<1>3. Count(w)' = Often(log', w) /\ Count(w) = Often(log, w)
  BY DEF Count, Often
<1>4. Often(Append(log, m), w) = Often(log, w) + One(m = w)
  BY <1>1, NotesAreCounted
<1> QED
  BY <1>2, <1>3, <1>4

(* send hands the message on, or the signal kills. *)
LEMMA Sending ==
  ASSUME Inductive, NEW m \in {"JOIN", "SEND", "IDLE"}, SendMessage(m), NEW w
  PROVE  /\ log' \in Seq(Notes) /\ peer' \in {"none", "up", "closed", "broken"}
         /\ Count(w) \in Nat
         /\ Count(w)' = Count(w) + One(Survives /\ m = w)
<1>1. Count(w) \in Nat
  BY CountType DEF Inductive
<1>2. peer' \in {"none", "up", "closed", "broken"}
  BY DEF SendMessage, Inductive, TypeOK
<1>3. CASE Survives
  BY <1>1, <1>2, <1>3, Noted DEF Inductive, SendMessage, Notes, One
<1>4. CASE ~Survives
  BY <1>1, <1>2, <1>4 DEF Inductive, Messages, SendMessage, Count, One
<1> QED
  BY <1>3, <1>4

------------------------------------------------------------------------------
(* The steps. *)

(* The constants are numbers. *)
LEMMA Constants ==
  /\ IDLE_WAIT_TIME \in Nat /\ IDLE_WAIT_TIME >= 1 /\ MaxLines \in Nat /\ MaxTold \in Nat
BY ClientAssumption

(* At the start nothing is entered, sent or received. *)
LEMMA InductiveInit == Init => Inductive
<1> SUFFICES ASSUME Init PROVE Inductive
  OBVIOUS
<1>1. inbox \in Seq({"FWD", "NAK"}) /\ Len(inbox) = 0 /\ log \in Seq(Notes)
  BY EmptySeq DEF Init
<1>2. \A w : Count(w) = 0
  <2>1. \A w : {i \in DOMAIN log : log[i] = w} = {}
    BY DEF Init
  <2> QED
    BY <2>1, FS_EmptySet DEF Count
<1>3. inbox \in BoundedSeq({"FWD", "NAK"}, MaxTold)
  <2>1. inbox \in [1 .. 0 -> {"FWD", "NAK"}] /\ 0 \in 0 .. MaxTold
    BY <1>1, Constants, LenProperties
  <2> QED
    BY <2>1 DEF BoundedSeq, SeqOf
<1>4. TypeOK
  <2>1. isIdleMessage \in BOOLEAN /\ tvNsecValid \in BOOLEAN
    BY DEF Init
  <2>2. /\ mainPc = "join" /\ ready = {} /\ idlePc = "none" /\ timeLeft = 0
        /\ keyboard = 0 /\ buffered = 0 /\ peer \in {"none", "up"} /\ told = 0
    BY DEF Init
  <2>3. 0 \in 0 .. IDLE_WAIT_TIME /\ 0 \in 0 .. MaxLines /\ 0 \in 0 .. MaxTold
    BY Constants
  <2> QED
    BY <1>3, <2>1, <2>2, <2>3 DEF TypeOK
<1>5. Messages
  <2>1. terminal \in BOOLEAN /\ eof \in BOOLEAN
    BY DEF Init
  <2>2. Len(inbox) <= told
    BY <1>1 DEF Init
  <2> QED
    BY <1>1, <2>1, <2>2 DEF Messages
<1>6. FlagPays /\ LinesAreSent /\ LinesAreCounted
  BY <1>2, Constants DEF Init, FlagPays, LinesAreSent, LinesAreCounted, One
<1> QED
  BY <1>4, <1>5, <1>6 DEF Inductive

(* A step that notes nothing changes no count. *)
LEMMA Quiet ==
  ASSUME Inductive, log' = log
  PROVE  /\ log' \in Seq(Notes)
         /\ \A w : Count(w) \in Nat /\ Count(w)' = Count(w)
<1>1. \A w : Count(w) \in Nat
  BY CountType DEF Inductive
<1> QED
  BY <1>1 DEF Inductive, Messages, Count

(* A message of the server is one more to receive. *)
LEMMA TellKeeps ==
  ASSUME Inductive, NEW m \in {"FWD", "NAK"}, Tell(m)
  PROVE  Inductive'
<1>1. /\ inbox \in Seq({"FWD", "NAK"}) /\ Len(inbox) \in Nat /\ Len(inbox) <= told
      /\ told \in Nat /\ told < MaxTold /\ inbox' = Append(inbox, m) /\ told' = told + 1
  BY Constants, LenProperties DEF Inductive, Messages, TypeOK, Tell
<1>2. inbox' \in Seq({"FWD", "NAK"}) /\ Len(inbox') = Len(inbox) + 1
  BY <1>1, AppendProperties
<1>3. inbox' \in BoundedSeq({"FWD", "NAK"}, MaxTold)
  <2>1. Len(inbox') \in 0 .. MaxTold
    BY <1>1, <1>2, Constants
  <2>2. inbox' \in [1 .. Len(inbox') -> {"FWD", "NAK"}]
    BY <1>2, LenProperties
  <2> QED
    BY <2>1, <2>2 DEF BoundedSeq, SeqOf
<1>4. UNCHANGED <<isIdleMessage, mainPc, ready, idlePc, timeLeft, tvNsecValid, terminal, keyboard,
                  buffered, eof, peer, log>>
  BY DEF Tell, idleVars, inputVars
<1>5. TypeOK'
  <2>1. told' \in 0 .. MaxTold
    BY <1>1, Constants
  <2> QED
    BY <1>3, <1>4, <2>1 DEF Inductive, TypeOK
<1>6. Messages'
  <2>1. Len(inbox') <= told'
    BY <1>1, <1>2
  <2> QED
    BY <1>2, <1>4, <2>1 DEF Inductive, Messages
<1>7. FlagPays' /\ LinesAreSent' /\ LinesAreCounted'
  BY <1>4, Quiet DEF Inductive, FlagPays, LinesAreSent, LinesAreCounted
<1> QED
  BY <1>5, <1>6, <1>7 DEF Inductive

(* The user enters a line or ends the input, the server closes, time passes,  *)
(* or nothing happens.                                                        *)
LEMMA OutsideKeeps ==
  ASSUME Inductive, Type \/ EndInput \/ CloseServer \/ Tick \/ UNCHANGED vars
  PROVE  Inductive'
<1>1. UNCHANGED <<isIdleMessage, mainPc, ready, idlePc, tvNsecValid, terminal, buffered, inbox,
                  told, log>>
  BY DEF Type, EndInput, CloseServer, Tick, vars, idleVars, inputVars, serverVars
<1>2. /\ log' \in Seq(Notes)
      /\ \A w : Count(w) \in Nat /\ Count(w)' = Count(w)
  BY <1>1, Quiet
<1>3. keyboard \in Nat /\ buffered \in Nat /\ timeLeft \in Nat
  BY Constants DEF Inductive, TypeOK
<1>4. /\ keyboard' \in Nat
      /\ Count("line") + keyboard' + buffered + One(mainPc = "clear") <= MaxLines
      /\ keyboard' >= keyboard /\ (eof => eof') /\ eof' \in BOOLEAN
  <2>1. CASE Type
    <3>1. keyboard' = keyboard + 1 /\ eof' = eof /\ Entered < MaxLines
      BY <2>1 DEF Type
    <3>2. eof' \in BOOLEAN /\ (eof => eof')
      BY <3>1 DEF Inductive, Messages
    <3>3. PICK one \in {0, 1} : one = One(mainPc = "clear")
      BY DEF One
    <3>4. Count("line") + keyboard + buffered + one < MaxLines
      BY <3>1, <3>3 DEF Entered, One
    <3>5. Count("line") + (keyboard + 1) + buffered + one <= MaxLines
      BY <1>2, <1>3, <3>3, <3>4, Constants
    <3> QED
      BY <1>3, <3>1, <3>2, <3>3, <3>5
  <2>2. CASE ~Type
    <3>1. keyboard' = keyboard /\ eof' \in BOOLEAN /\ (eof => eof')
      BY <2>2 DEF EndInput, CloseServer, Tick, vars, inputVars, Inductive, Messages
    <3> QED
      BY <1>3, <3>1 DEF Inductive, LinesAreCounted
  <2> QED
    BY <2>1, <2>2
<1>5. keyboard' \in 0 .. MaxLines
  <2>1. One(mainPc = "clear") \in {0, 1}
    BY DEF One
  <2> QED
    BY <1>2, <1>3, <1>4, <2>1, Constants
<1>6. timeLeft' \in 0 .. IDLE_WAIT_TIME /\ peer' \in {"none", "up", "closed", "broken"}
  BY <1>3, Constants
  DEF Inductive, TypeOK, Type, EndInput, CloseServer, Tick, vars, idleVars
<1>7. TypeOK'
  BY <1>1, <1>5, <1>6 DEF Inductive, TypeOK
<1>8. Messages'
  BY <1>1, <1>2, <1>4 DEF Inductive, Messages
<1>9. LinesAreCounted'
  <2>1. mainPc = "input" => keyboard' > 0 \/ eof'
    BY <1>3, <1>4 DEF Inductive, LinesAreCounted
  <2> QED
    BY <1>1, <1>2, <1>4, <2>1 DEF Inductive, LinesAreCounted
<1>10. FlagPays' /\ LinesAreSent'
  BY <1>1, <1>2 DEF Inductive, FlagPays, LinesAreSent
<1> QED
  BY <1>7, <1>8, <1>9, <1>10 DEF Inductive

(* The client joins. *)
LEMMA JoinKeeps ==
  ASSUME Inductive, Join
  PROVE  Inductive'
<1>1. UNCHANGED <<isIdleMessage, ready, timeLeft, tvNsecValid, terminal, keyboard, buffered, eof,
                  inbox, told>>
      /\ idlePc' = "time" /\ mainPc = "join" /\ mainPc' \in {"select", "killed"}
  BY DEF Join, MainAt, inputVars, serverVars
<1>2. /\ log' \in Seq(Notes) /\ peer' \in {"none", "up", "closed", "broken"}
      /\ Count("IDLE") \in Nat /\ Count("line") \in Nat
      /\ Count("IDLE")' = Count("IDLE") /\ Count("line")' = Count("line")
      /\ Count("SEND")' = Count("SEND")
  <2>1. CASE SendMessage("JOIN")
    BY <2>1, Sending DEF One
  <2>2. CASE UNCHANGED <<log, peer>>
    BY <2>2, Quiet DEF Inductive, TypeOK
  <2> QED
    BY <2>1, <2>2 DEF Join
<1>3. TypeOK'
  BY <1>1, <1>2 DEF Inductive, TypeOK, Ends
<1>4. Messages'
  BY <1>1, <1>2 DEF Inductive, Messages
<1>5. FlagPays' /\ LinesAreSent' /\ LinesAreCounted'
  BY <1>1, <1>2 DEF Inductive, TypeOK, FlagPays, LinesAreSent, LinesAreCounted, One
<1> QED
  BY <1>3, <1>4, <1>5 DEF Inductive

(* Select finds something to read, ... *)
LEMMA SelectKeeps ==
  ASSUME Inductive, Select
  PROVE  Inductive'
<1>1. /\ UNCHANGED <<isIdleMessage, idlePc, timeLeft, tvNsecValid, terminal, keyboard, buffered,
                     eof, peer, inbox, told, log>>
      /\ mainPc = "select" /\ mainPc' \in {"input", "server"}
      /\ mainPc' = "input" => keyboard > 0 \/ eof
      /\ ready' \subseteq {"stdin", "socket"}
  BY DEF Select, MainAt, inputVars, serverVars, idleVars, Watched, Readable
<1>2. log' \in Seq(Notes) /\ \A w : Count(w) \in Nat /\ Count(w)' = Count(w)
  BY <1>1, Quiet
<1>3. TypeOK'
  BY <1>1 DEF Inductive, TypeOK
<1>4. Messages'
  BY <1>1 DEF Inductive, Messages
<1>5. FlagPays' /\ LinesAreSent' /\ LinesAreCounted'
  BY <1>1, <1>2 DEF Inductive, FlagPays, LinesAreSent, LinesAreCounted, One
<1> QED
  BY <1>3, <1>4, <1>5 DEF Inductive

(* ... fgets returns a line of what there is, or all of it is read, ... *)
LEMMA GetLineKeeps ==
  ASSUME Inductive, GetLine
  PROVE  Inductive'
<1>1. /\ UNCHANGED <<isIdleMessage, ready, idlePc, timeLeft, tvNsecValid, terminal, eof, peer,
                     inbox, told, log>>
      /\ mainPc = "input" /\ mainPc' = "clear" /\ ~AtEof
  BY DEF GetLine, MainAt, serverVars, idleVars
<1>2. log' \in Seq(Notes) /\ \A w : Count(w) \in Nat /\ Count(w)' = Count(w)
  BY <1>1, Quiet
<1>3. keyboard \in Nat /\ buffered \in Nat /\ (keyboard > 0 \/ buffered > 0)
  <2>1. keyboard \in Nat /\ buffered \in Nat /\ (keyboard > 0 \/ eof)
    BY <1>1, Constants DEF Inductive, TypeOK, LinesAreCounted
  <2> QED
    BY <1>1, <2>1 DEF AtEof
<1>4. /\ keyboard' \in Nat /\ buffered' \in Nat
      /\ keyboard' + buffered' + 1 = keyboard + buffered
  BY <1>3 DEF GetLine
<1>5. PICK lines \in Nat : lines = Count("line")
  BY <1>2
<1>6. Count("line") + keyboard' + buffered' + 1 <= MaxLines
  <2>1. lines + keyboard + buffered + 0 <= MaxLines
    BY <1>1, <1>5 DEF Inductive, LinesAreCounted, One
  <2>2. PICK k \in Nat, b \in Nat : k = keyboard' /\ b = buffered'
    BY <1>4
  <2>3. PICK i \in Nat, j \in Nat : i = keyboard /\ j = buffered
    BY <1>3
  <2>4. k + b + 1 = i + j
    BY <1>4, <2>2, <2>3
  <2>5. lines + i + j + 0 <= MaxLines
    BY <2>1, <2>3
  <2>6. lines + k + b + 1 <= MaxLines
    BY <2>4, <2>5, Constants
  <2> QED
    BY <1>5, <2>2, <2>6
<1>7. keyboard' \in 0 .. MaxLines /\ buffered' \in 0 .. MaxLines
  BY <1>2, <1>4, <1>6, Constants
<1>8. TypeOK'
  BY <1>1, <1>7 DEF Inductive, TypeOK
<1>9. Messages'
  BY <1>1 DEF Inductive, Messages
<1>10. FlagPays' /\ LinesAreSent'
  BY <1>1, <1>2 DEF Inductive, FlagPays, LinesAreSent, One
<1>11. LinesAreCounted'
  BY <1>1, <1>2, <1>6 DEF LinesAreCounted, One
<1> QED
  BY <1>8, <1>9, <1>10, <1>11 DEF Inductive

(* ... and then the client ends. *)
LEMMA InputEndsKeeps ==
  ASSUME Inductive, InputEnds
  PROVE  Inductive'
<1>1. /\ UNCHANGED <<isIdleMessage, ready, idlePc, timeLeft, tvNsecValid, terminal, keyboard,
                     buffered, eof, peer, inbox, told, log>>
      /\ mainPc = "input" /\ mainPc' = "eof" /\ buffered = 0
  BY DEF InputEnds, MainAt, inputVars, serverVars, idleVars, AtEof
<1>2. log' \in Seq(Notes) /\ \A w : Count(w) \in Nat /\ Count(w)' = Count(w)
  BY <1>1, Quiet
<1>3. TypeOK'
  BY <1>1 DEF Inductive, TypeOK, Ends
<1>4. Messages'
  BY <1>1 DEF Inductive, Messages
<1>5. FlagPays' /\ LinesAreSent' /\ LinesAreCounted'
  BY <1>1, <1>2 DEF Inductive, FlagPays, LinesAreSent, LinesAreCounted, One
<1> QED
  BY <1>3, <1>4, <1>5 DEF Inductive

(* The flag is cleared for a line, whatever the idle thread is about to do,   *)
(* ...                                                                        *)
LEMMA ClearFlagKeeps ==
  ASSUME Inductive, ClearFlag
  PROVE  Inductive'
<1>1. /\ UNCHANGED <<ready, timeLeft, tvNsecValid, terminal, keyboard, buffered, eof, peer, inbox,
                     told>>
      /\ mainPc = "clear" /\ mainPc' = "send" /\ isIdleMessage' = FALSE
      /\ idlePc' = IF idlePc = "wait" THEN "time" ELSE idlePc
      /\ log' = Append(log, "line") /\ "line" \in Notes
  BY DEF ClearFlag, MainAt, inputVars, serverVars, Cleared, Notes
<1>2. /\ log' \in Seq(Notes)
      /\ Count("IDLE")' = Count("IDLE") /\ Count("SEND")' = Count("SEND")
      /\ Count("line")' = Count("line") + 1
  <2>1. \A w : Count(w) \in Nat
    BY CountType DEF Inductive
  <2> QED
    BY <1>1, <2>1, Noted DEF Inductive, One
<1>3. Count("IDLE") \in Nat /\ Count("line") \in Nat /\ Count("SEND") \in Nat
  BY CountType DEF Inductive
<1>4. TypeOK'
  BY <1>1 DEF Inductive, TypeOK
<1>5. Messages'
  BY <1>1, <1>2 DEF Inductive, Messages
<1>6. FlagPays'
  BY <1>1, <1>2, <1>3 DEF Inductive, FlagPays, One
<1>7. LinesAreSent'
  BY <1>1, <1>2, <1>3 DEF Inductive, LinesAreSent, One
<1>8. LinesAreCounted'
  <2>1. keyboard \in Nat /\ buffered \in Nat
    BY Constants DEF Inductive, TypeOK
  <2>2. Count("line") + keyboard + buffered + 1 <= MaxLines
    BY <1>1 DEF Inductive, LinesAreCounted, One
  <2>3. Count("line") + 1 + keyboard + buffered + 0 <= MaxLines
    BY <1>3, <2>1, <2>2, Constants
  <2> QED
    BY <1>1, <1>2, <2>3 DEF LinesAreCounted, One
<1> QED
  BY <1>4, <1>5, <1>6, <1>7, <1>8 DEF Inductive

(* ... which is sent, ... *)
LEMMA SendLineKeeps ==
  ASSUME Inductive, SendLine
  PROVE  Inductive'
<1>1. /\ UNCHANGED <<isIdleMessage, ready, idlePc, timeLeft, tvNsecValid, terminal, keyboard,
                     buffered, eof, inbox, told>>
      /\ mainPc = "send" /\ mainPc' \in {"server", "select", "killed"}
      /\ mainPc' # "killed" => Survives
  BY DEF SendLine, MainAt, inputVars, serverVars, idleVars, AfterInput
<1>2. /\ log' \in Seq(Notes) /\ peer' \in {"none", "up", "closed", "broken"}
      /\ Count("IDLE") \in Nat /\ Count("line") \in Nat /\ Count("SEND") \in Nat
      /\ Count("IDLE")' = Count("IDLE") /\ Count("line")' = Count("line")
      /\ Count("SEND")' = Count("SEND") + One(Survives)
  BY Sending DEF SendLine, One
<1>3. TypeOK'
  BY <1>1, <1>2 DEF Inductive, TypeOK, Ends
<1>4. Messages'
  BY <1>1, <1>2 DEF Inductive, Messages
<1>5. FlagPays' /\ LinesAreSent' /\ LinesAreCounted'
  BY <1>1, <1>2 DEF Inductive, FlagPays, LinesAreSent, LinesAreCounted, One
<1> QED
  BY <1>3, <1>4, <1>5 DEF Inductive

(* ... and a message of the server received. *)
LEMMA HearServerKeeps ==
  ASSUME Inductive, HearServer
  PROVE  Inductive'
<1>1. /\ UNCHANGED <<isIdleMessage, ready, idlePc, timeLeft, tvNsecValid, terminal, keyboard,
                     buffered, eof, peer, told, log>>
      /\ mainPc = "server" /\ mainPc' \in {"select", "refused"}
      /\ inbox' = IF inbox = <<>> THEN inbox ELSE Tail(inbox)
  BY DEF HearServer, MainAt, inputVars, idleVars
<1>2. log' \in Seq(Notes) /\ \A w : Count(w) \in Nat /\ Count(w)' = Count(w)
  BY <1>1, Quiet
<1>3. /\ inbox \in Seq({"FWD", "NAK"}) /\ Len(inbox) \in Nat /\ Len(inbox) <= told
      /\ told \in Nat /\ told <= MaxTold
  BY Constants, LenProperties DEF Inductive, Messages, TypeOK
<1>4. inbox' \in Seq({"FWD", "NAK"}) /\ Len(inbox') <= told /\ Len(inbox') \in Nat
  <2>1. CASE inbox = <<>>
    BY <1>1, <1>3, <2>1
  <2>2. CASE inbox # <<>>
    <3>1. inbox' \in Seq({"FWD", "NAK"}) /\ Len(inbox') = Len(inbox) - 1
      BY <1>1, <1>3, <2>2, HeadTailProperties
    <3>2. Len(inbox') \in Nat
      BY <3>1, LenProperties
    <3> QED
      BY <1>3, <3>1, <3>2
  <2> QED
    BY <2>1, <2>2
<1>5. inbox' \in BoundedSeq({"FWD", "NAK"}, MaxTold)
  <2>1. Len(inbox') \in 0 .. MaxTold
    BY <1>3, <1>4, Constants
  <2>2. inbox' \in [1 .. Len(inbox') -> {"FWD", "NAK"}]
    BY <1>4, LenProperties
  <2> QED
    BY <2>1, <2>2 DEF BoundedSeq, SeqOf
<1>6. TypeOK'
  BY <1>1, <1>5 DEF Inductive, TypeOK, Ends
<1>7. Messages'
  BY <1>1, <1>4 DEF Inductive, Messages
<1>8. FlagPays' /\ LinesAreSent' /\ LinesAreCounted'
  BY <1>1, <1>2 DEF Inductive, FlagPays, LinesAreSent, LinesAreCounted, One
<1> QED
  BY <1>6, <1>7, <1>8 DEF Inductive

(* The idle thread waits, and tests the flag, ... *)
LEMMA WaitingKeeps ==
  ASSUME Inductive, SetTimeout \/ StartWaiting \/ TimesOut \/ TestFlag
  PROVE  Inductive'
<1>1. /\ UNCHANGED <<isIdleMessage, mainPc, ready, tvNsecValid, terminal, keyboard, buffered, eof,
                     peer, inbox, told, log>>
      /\ idlePc \in {"time", "lock", "wait", "test"}
      /\ idlePc' \in {"lock", "wait", "test", "time", "set"}
      /\ idlePc' = "set" => ~isIdleMessage
      /\ timeLeft' \in {timeLeft, IDLE_WAIT_TIME}
  BY DEF SetTimeout, StartWaiting, TimesOut, TestFlag, IdleAt, inputVars, serverVars, Timeout
<1>2. log' \in Seq(Notes) /\ \A w : Count(w) \in Nat /\ Count(w)' = Count(w)
  BY <1>1, Quiet
<1>3. TypeOK'
  <2>1. timeLeft' \in 0 .. IDLE_WAIT_TIME
    BY <1>1, Constants DEF Inductive, TypeOK
  <2> QED
    BY <1>1, <2>1 DEF Inductive, TypeOK
<1>4. Messages'
  BY <1>1 DEF Inductive, Messages
<1>5. FlagPays' /\ LinesAreSent' /\ LinesAreCounted'
  BY <1>1, <1>2 DEF Inductive, FlagPays, LinesAreSent, LinesAreCounted, One
<1> QED
  BY <1>3, <1>4, <1>5 DEF Inductive

(* ... sets it, which is still clear, ... *)
LEMMA SetFlagKeeps ==
  ASSUME Inductive, SetFlag
  PROVE  Inductive'
<1>1. /\ UNCHANGED <<mainPc, ready, timeLeft, tvNsecValid, terminal, keyboard, buffered, eof,
                     peer, inbox, told, log>>
      /\ idlePc = "set" /\ idlePc' = "send" /\ isIdleMessage' = TRUE
  BY DEF SetFlag, IdleAt, inputVars, serverVars, Announced
<1>2. log' \in Seq(Notes) /\ \A w : Count(w) \in Nat /\ Count(w)' = Count(w)
  BY <1>1, Quiet
<1>3. TypeOK'
  BY <1>1 DEF Inductive, TypeOK
<1>4. Messages'
  BY <1>1 DEF Inductive, Messages
<1>5. FlagPays'
  <2>1. ~isIdleMessage /\ Count("IDLE") <= Count("line")
    BY <1>1, <1>2 DEF Inductive, FlagPays, One
  <2> QED
    BY <1>1, <1>2, <2>1 DEF FlagPays, One
<1>6. LinesAreSent' /\ LinesAreCounted'
  BY <1>1, <1>2 DEF Inductive, LinesAreSent, LinesAreCounted
<1> QED
  BY <1>3, <1>4, <1>5, <1>6 DEF Inductive

(* ... and announces the silence. *)
LEMMA SendIdleKeeps ==
  ASSUME Inductive, SendIdle
  PROVE  Inductive'
<1>1. /\ UNCHANGED <<isIdleMessage, ready, timeLeft, tvNsecValid, terminal, keyboard, buffered,
                     eof, inbox, told>>
      /\ idlePc = "send" /\ idlePc' = "time" /\ mainPc' \in {mainPc, "killed"}
      /\ mainPc \notin Ends
  BY DEF SendIdle, IdleAt, Running, inputVars, serverVars
<1>2. /\ log' \in Seq(Notes) /\ peer' \in {"none", "up", "closed", "broken"}
      /\ Count("IDLE") \in Nat /\ Count("line") \in Nat /\ Count("SEND") \in Nat
      /\ Count("IDLE")' = Count("IDLE") + One(Survives)
      /\ Count("line")' = Count("line") /\ Count("SEND")' = Count("SEND")
  BY Sending DEF SendIdle, One
<1>3. TypeOK'
  BY <1>1, <1>2 DEF Inductive, TypeOK, Ends
<1>4. Messages'
  BY <1>1, <1>2 DEF Inductive, Messages
<1>5. FlagPays'
  BY <1>1, <1>2 DEF Inductive, FlagPays, One
<1>6. LinesAreSent'
  BY <1>1, <1>2 DEF Inductive, LinesAreSent, Ends
<1>7. LinesAreCounted'
  <2>1. keyboard \in Nat /\ buffered \in Nat
    BY Constants DEF Inductive, TypeOK
  <2> QED
    BY <1>1, <1>2, <2>1, Constants DEF Inductive, LinesAreCounted, One
<1> QED
  BY <1>3, <1>4, <1>5, <1>6, <1>7 DEF Inductive

(* Every step keeps the invariant. *)
LEMMA InductiveStep == Inductive /\ [Next]_vars => Inductive'
<1> SUFFICES ASSUME Inductive, [Next]_vars PROVE Inductive'
  OBVIOUS
<1>1. CASE Type \/ EndInput \/ CloseServer \/ Tick \/ UNCHANGED vars
  BY <1>1, OutsideKeeps
<1>2. CASE \E m \in {"FWD", "NAK"} : Tell(m)
  BY <1>2, TellKeeps
<1>3. CASE MainStep
  BY <1>3, JoinKeeps, SelectKeeps, GetLineKeeps, InputEndsKeeps, ClearFlagKeeps, SendLineKeeps,
     HearServerKeeps DEF MainStep
<1>4. CASE IdleStep
  BY <1>4, WaitingKeeps, SetFlagKeeps, SendIdleKeeps DEF IdleStep
<1> QED
  BY <1>1, <1>2, <1>3, <1>4 DEF Next

(* The invariant holds. *)
LEMMA InductiveHolds == Spec => []Inductive
<1> QED
  BY InductiveInit, InductiveStep, PTL DEF Spec

------------------------------------------------------------------------------
(* The properties. *)

(* The variables of the client have their types. *)
THEOREM TypeCorrect == Spec => []TypeOK
<1>1. Inductive => TypeOK
  BY DEF Inductive
<1> QED
  BY <1>1, InductiveHolds, PTL

(* send_idle_message announces the user at most once at the start and once    *)
(* for each line entered: although it tests and sets isIdleMessage without    *)
(* the mutex, only send_chat_message clears it, and no test is overtaken.     *)
THEOREM SilenceIsToldOnce == Spec => []OneIdlePerLine
<1>1. ASSUME Inductive PROVE OneIdlePerLine
  <2>1. Count("IDLE") \in Nat /\ Count("line") \in Nat
    BY <1>1, CountType DEF Inductive
  <2> QED
    BY <1>1, <2>1 DEF Inductive, FlagPays, One, OneIdlePerLine
<1> QED
  BY <1>1, InductiveHolds, PTL

(* The client that ends at the end of its input has sent every line of it,    *)
(* also those that one read of a pipe brought together.                       *)
THEOREM NoLineIsLeft == Spec => []EndOfInputIsLast
<1>1. ASSUME Inductive PROVE EndOfInputIsLast
  <2>1. Count("SEND") \in Nat /\ Count("line") \in Nat
    BY <1>1, CountType DEF Inductive
  <2> QED
    BY <1>1, <2>1 DEF Inductive, LinesAreSent, LinesAreCounted, One, EndOfInputIsLast
<1> QED
  BY <1>1, InductiveHolds, PTL
=============================================================================
