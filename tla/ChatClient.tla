----------------------------- MODULE ChatClient -----------------------------
(* The chat client (src/MP2/src/client.c): the main thread waits in select    *)
(* for the keyboard and the server; another thread announces with IDLE that   *)
(* the user has been silent for IDLE_WAIT_TIME. They share isIdleMessage,     *)
(* which the main thread clears under ready_mutex and the idle thread tests   *)
(* and sets outside.                                                          *)
EXTENDS Integers, Sequences, SequencesExt

CONSTANTS
  IDLE_WAIT_TIME,
  MaxLines,     \* lines the user enters, for TLC
  MaxTold       \* messages of the server, for TLC

ASSUME ClientAssumption ==
  IDLE_WAIT_TIME \in Nat \ {0} /\ MaxLines \in Nat /\ MaxTold \in Nat

VARIABLES
  isIdleMessage,
  mainPc,       \* a place in main, or how the process has ended
  ready,        \* the descriptors that select has reported
  idlePc,       \* a place in send_idle_message
  timeLeft,     \* until timeout.tv_sec
  tvNsecValid,  \* timeout.tv_nsec is never written; is it a number below 10^9?
  terminal,     \* standard input is a terminal: a read returns one line
  keyboard,     \* lines that can be read from standard input
  buffered,     \* lines in the buffer of fgets
  eof,          \* nothing more will be entered
  peer,         \* the connection: "none", "up", "closed" by the server, "broken"
  inbox,        \* messages of the server that are not yet received
  told,         \* how many there were
  log           \* "line": the flag is cleared for a line; "JOIN", "SEND", "IDLE":
                \* the message is handed to send

inputVars == <<terminal, keyboard, buffered, eof>>
serverVars == <<inbox, told>>
idleVars == <<idlePc, timeLeft, tvNsecValid>>
vars == <<isIdleMessage, mainPc, ready, idleVars, inputVars, peer, serverVars, log>>

Ends == {"eof", "refused", "killed"}
Running == mainPc \notin Ends

Count(what) == Cardinality({i \in DOMAIN log : log[i] = what})
Entered == Count("line") + keyboard + buffered + (IF mainPc = "clear" THEN 1 ELSE 0)

Init ==
  /\ isIdleMessage = FALSE
  /\ mainPc = "join" /\ ready = {}
  /\ idlePc = "none" /\ timeLeft = 0 /\ tvNsecValid \in BOOLEAN
  /\ terminal \in BOOLEAN /\ keyboard = 0 /\ buffered = 0 /\ eof = FALSE
  /\ peer \in {"none", "up"}           \* a failed connect is reported, no more
  /\ inbox = <<>> /\ told = 0 /\ log = <<>>

------------------------------------------------------------------------------
(* The user and the server. *)

Type ==
  /\ ~eof /\ Entered < MaxLines
  /\ keyboard' = keyboard + 1
  /\ UNCHANGED <<isIdleMessage, mainPc, ready, idleVars, terminal, buffered, eof, peer,
                 serverVars, log>>

EndInput ==
  /\ ~eof /\ eof' = TRUE
  /\ UNCHANGED <<isIdleMessage, mainPc, ready, idleVars, terminal, keyboard, buffered,
                 peer, serverVars, log>>

Tell(m) ==
  /\ peer = "up" /\ told < MaxTold
  /\ inbox' = Append(inbox, m) /\ told' = told + 1
  /\ UNCHANGED <<isIdleMessage, mainPc, ready, idleVars, inputVars, peer, log>>

CloseServer ==
  /\ peer = "up" /\ peer' = "closed"
  /\ UNCHANGED <<isIdleMessage, mainPc, ready, idleVars, inputVars, serverVars, log>>

(* Time passes; only the idle thread looks at it. *)
Tick ==
  /\ timeLeft > 0 /\ timeLeft' = timeLeft - 1
  /\ UNCHANGED <<isIdleMessage, mainPc, ready, idlePc, tvNsecValid, inputVars, peer,
                 serverVars, log>>

------------------------------------------------------------------------------
(* send: a server that has closed answers the first message with RST; the     *)
(* next one, and one without a connection, raises SIGPIPE.                    *)

Survives == peer \in {"up", "closed"}

SendMessage(m) ==
  /\ log' = IF Survives THEN Append(log, m) ELSE log
  /\ peer' = IF peer = "closed" THEN "broken" ELSE peer

MainAt(label) == mainPc = label
IdleAt(label) == Running /\ idlePc = label

------------------------------------------------------------------------------
(* The main thread. *)

(* send_join_message, which sends nothing when the name is too long, and the  *)
(* start of the idle thread.                                                  *)
Join ==
  /\ MainAt("join")
  /\ \/ SendMessage("JOIN") /\ mainPc' = IF Survives THEN "select" ELSE "killed"
     \/ mainPc' = "select" /\ UNCHANGED <<log, peer>>
  /\ idlePc' = "time"
  /\ UNCHANGED <<isIdleMessage, ready, timeLeft, tvNsecValid, inputVars, serverVars>>

Watched == {"stdin", "socket"}

Readable(fd) ==
  IF fd = "stdin" THEN keyboard > 0 \/ eof
                  ELSE inbox # <<>> \/ peer # "up"

Select ==
  /\ MainAt("select")
  /\ ready' = {fd \in Watched : Readable(fd)}
  /\ ready' # {}
  /\ mainPc' = IF "stdin" \in ready' THEN "input" ELSE "server"
  /\ UNCHANGED <<isIdleMessage, idleVars, inputVars, peer, serverVars, log>>

AfterInput == IF "socket" \in ready THEN "server" ELSE "select"

AtEofEarly == eof /\ keyboard = 0      \* variant: what is buffered is forgotten
AtEof == eof /\ keyboard = 0 /\ buffered = 0

(* handle_user_input: fgets takes a line from its buffer or fills it; ...     *)
GetLine ==
  /\ MainAt("input") /\ ~AtEof
  /\ mainPc' = "clear"
  /\ IF buffered > 0
       THEN buffered' = buffered - 1 /\ UNCHANGED keyboard
     ELSE IF terminal
       THEN keyboard' = keyboard - 1 /\ UNCHANGED buffered
     ELSE keyboard' = 0 /\ buffered' = keyboard - 1
  /\ UNCHANGED <<isIdleMessage, ready, idleVars, terminal, eof, peer, serverVars, log>>

(* ... at the end of the input the client exits; ...                          *)
InputEnds ==
  /\ MainAt("input") /\ AtEof
  /\ mainPc' = "eof"
  /\ UNCHANGED <<isIdleMessage, ready, idleVars, inputVars, peer, serverVars, log>>

(* ... send_chat_message clears the flag and signals, with the mutex held     *)
(* (a signal is lost unless the idle thread waits), ...                       *)
ClearedNot == isIdleMessage            \* variant: the flag stays
Cleared == FALSE

ClearFlag ==
  /\ MainAt("clear")
  /\ isIdleMessage' = Cleared
  /\ idlePc' = IF idlePc = "wait" THEN "time" ELSE idlePc
  /\ log' = Append(log, "line")
  /\ mainPc' = "send"
  /\ UNCHANGED <<ready, timeLeft, tvNsecValid, inputVars, peer, serverVars>>

(* ... and sends the line after the mutex is released.                        *)
SendLine ==
  /\ MainAt("send")
  /\ SendMessage("SEND")
  /\ mainPc' = IF Survives THEN AfterInput ELSE "killed"
  /\ UNCHANGED <<isIdleMessage, ready, idleVars, inputVars, serverVars>>

(* handle_server_messages: recv returns a message, or 0 or -1 when there is   *)
(* none and no connection any more. A NAK ends the client, nothing else does. *)
HearServer ==
  /\ MainAt("server")
  /\ mainPc' = IF inbox # <<>> /\ Head(inbox) = "NAK" THEN "refused" ELSE "select"
  /\ inbox' = IF inbox = <<>> THEN inbox ELSE Tail(inbox)
  /\ UNCHANGED <<isIdleMessage, ready, idleVars, inputVars, peer, told, log>>

MainStep ==
  Join \/ Select \/ GetLine \/ InputEnds \/ ClearFlag \/ SendLine \/ HearServer

------------------------------------------------------------------------------
(* The idle thread. *)

Timeout == IDLE_WAIT_TIME

SetTimeout ==
  /\ IdleAt("time")
  /\ timeLeft' = Timeout /\ idlePc' = "lock"
  /\ UNCHANGED <<isIdleMessage, mainPc, ready, tvNsecValid, inputVars, peer, serverVars, log>>

(* pthread_cond_timedwait returns EINVAL at once when tv_nsec is out of range *)
(* and ETIMEDOUT when the time has come. errno, which the code looks at       *)
(* instead, is never EAGAIN here.                                             *)
StartWaiting ==
  /\ IdleAt("lock")
  /\ idlePc' = IF tvNsecValid THEN "wait" ELSE "test"
  /\ UNCHANGED <<isIdleMessage, mainPc, ready, timeLeft, tvNsecValid, inputVars, peer,
                 serverVars, log>>

TimesOut ==
  /\ IdleAt("wait") /\ timeLeft = 0
  /\ idlePc' = "test"
  /\ UNCHANGED <<isIdleMessage, mainPc, ready, timeLeft, tvNsecValid, inputVars, peer,
                 serverVars, log>>

TestFlag ==
  /\ IdleAt("test")
  /\ idlePc' = IF isIdleMessage THEN "time" ELSE "set"
  /\ UNCHANGED <<isIdleMessage, mainPc, ready, timeLeft, tvNsecValid, inputVars, peer,
                 serverVars, log>>

AnnouncedNot == isIdleMessage          \* variant: IDLE is sent again and again
Announced == TRUE

SetFlag ==
  /\ IdleAt("set")
  /\ isIdleMessage' = Announced /\ idlePc' = "send"
  /\ UNCHANGED <<mainPc, ready, timeLeft, tvNsecValid, inputVars, peer, serverVars, log>>

SendIdle ==
  /\ IdleAt("send")
  /\ SendMessage("IDLE")
  /\ mainPc' = IF Survives THEN mainPc ELSE "killed"
  /\ idlePc' = "time"
  /\ UNCHANGED <<isIdleMessage, ready, timeLeft, tvNsecValid, inputVars, serverVars>>

IdleStep ==
  SetTimeout \/ StartWaiting \/ TimesOut \/ TestFlag \/ SetFlag \/ SendIdle

------------------------------------------------------------------------------
Next ==
  \/ Running /\ (Type \/ EndInput \/ CloseServer \/ Tick \/ MainStep)
  \/ Running /\ \E m \in {"FWD", "NAK"} : Tell(m)
  \/ IdleStep

(* Both threads run when they can, and time goes on. Nothing is assumed of    *)
(* the user and the server.                                                   *)
Spec ==
  /\ Init /\ [][Next]_vars
  /\ WF_vars(MainStep) /\ WF_vars(IdleStep) /\ WF_vars(Running /\ Tick)

------------------------------------------------------------------------------
(* Properties. *)

(* The variables have their types. *)
TypeOK ==
  /\ isIdleMessage \in BOOLEAN /\ tvNsecValid \in BOOLEAN
  /\ mainPc \in {"join", "select", "input", "clear", "send", "server"} \cup Ends
  /\ ready \subseteq {"stdin", "socket"}
  /\ idlePc \in {"none", "time", "lock", "wait", "test", "set", "send"}
  /\ timeLeft \in 0 .. IDLE_WAIT_TIME
  /\ keyboard \in 0 .. MaxLines /\ buffered \in 0 .. MaxLines
  /\ peer \in {"none", "up", "closed", "broken"}
  /\ inbox \in BoundedSeq({"FWD", "NAK"}, MaxTold) /\ told \in 0 .. MaxTold

(* The user is announced as idle at most once at the start and once for each  *)
(* line entered, although the flag is set outside the mutex.                  *)
OneIdlePerLine == Count("IDLE") <= Count("line") + 1

(* The client that ends at the end of its input has sent every line of it,    *)
(* also those that one read of a pipe brought together.                       *)
EndOfInputIsLast == mainPc = "eof" => buffered = 0 /\ Count("SEND") = Count("line")


LastLine == Max({0} \cup {i \in DOMAIN log : log[i] = "line"})
AnnouncedSince == \E i \in DOMAIN log : i > LastLine /\ log[i] = "IDLE"

(* When the user has entered his last line, an IDLE is sent at some time      *)
(* after the flag was cleared for it: no race of the threads loses it. (It    *)
(* may be sent before the line itself.)                                       *)
SilenceIsAnnounced == <>[](Running => AnnouncedSince)
=============================================================================
