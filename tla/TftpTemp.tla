------------------------------ MODULE TftpTemp ------------------------------
(* The temporary files of netascii read sessions (src/MP3/src/tftpserver.c):  *)
(* each child converts the requested file into a file whose name is the first *)
(* random number of the second it starts in, opens it again to send it, and   *)
(* removes the name when the transfer has succeeded. Children of different    *)
(* sessions run at the same time in one directory. stdio moves BufLen         *)
(* characters at a time between a child and a file, and a write to the disk   *)
(* may fail; a file (inode) is known by the session that created it.          *)
EXTENDS Netascii

CONSTANTS
  Sessions,     \* the children that serve netascii reads
  Texts,        \* what the requested files hold
  BufLen,       \* characters in a stdio buffer
  LastSecond,   \* the clock stops here
  NoFile        \* not a session

ASSUME TempAssumption ==
  /\ Texts \subseteq Seq(Chars)
  /\ BufLen \in Nat \ {0} /\ LastSecond \in Nat /\ NoFile \notin Sessions

VARIABLES
  clock,
  pc,           \* per session: a member of States (TftpTempProofs)
  text,         \* the file the client asked for
  loop,         \* the conversion loop
  stream,       \* what stdio knows of the file that is written
  start,        \* the second that time(0) gave the session
  open,         \* the temporary file the session has open
  sent,         \* what the client was sent
  dir,          \* the file a name stands for
  content       \* what a file holds

vars == <<clock, pc, text, loop, stream, start, open, sent, dir, content>>

(* A stream just opened for writing: how many characters fputc was given,     *)
(* those in the buffer, and how far the file is written.                      *)
Opened == [given |-> 0, buf |-> <<>>, offset |-> 0]

Init ==
  /\ clock = 0
  /\ pc = [s \in Sessions |-> "new"]
  /\ text \in [Sessions -> Texts]
  /\ loop = [s \in Sessions |-> LoopStart]
  /\ stream = [s \in Sessions |-> Opened]
  /\ start = [s \in Sessions |-> 0]
  /\ open = [s \in Sessions |-> NoFile]
  /\ sent = [s \in Sessions |-> <<>>]
  /\ dir = [n \in 0 .. LastSecond |-> NoFile]
  /\ content = [s \in Sessions |-> <<>>]

(* srand(time(0)) and rand(): a name for each second. *)
TempNameUnseeded(second) == 0          \* variant: no srand
TempName(second) == second

Tick ==
  /\ clock < LastSecond /\ clock' = clock + 1
  /\ UNCHANGED <<pc, text, loop, stream, start, open, sent, dir, content>>

(* fopen "w" empties the file of that name, or creates it. *)
Create(s) ==
  /\ pc[s] = "new"
  /\ LET n == TempName(clock)
         f == IF dir[n] = NoFile THEN s ELSE dir[n]
     IN /\ dir' = [dir EXCEPT ![n] = f]
        /\ open' = [open EXCEPT ![s] = f]
        /\ content' = [content EXCEPT ![f] = <<>>]
  /\ start' = [start EXCEPT ![s] = clock]
  /\ pc' = [pc EXCEPT ![s] = "convert"]
  /\ UNCHANGED <<clock, text, loop, stream, sent>>

(* It returns NULL, which fputc is then given. *)
CannotCreate(s) ==
  /\ pc[s] = "new"
  /\ start' = [start EXCEPT ![s] = clock]
  /\ pc' = [pc EXCEPT ![s] = "uncreated"]
  /\ UNCHANGED <<clock, text, loop, stream, open, sent, dir, content>>

(* The loop goes on when fputc has returned, whatever it returned.            *)
Given(s) == stream[s].given = Len(loop[s].out)

Convert(s) ==
  /\ pc[s] = "convert" /\ Given(s) /\ getc(text[s], loop[s]) # EOF
  /\ loop' = [loop EXCEPT ![s] = ConvertChar(text[s], @)]
  /\ UNCHANGED <<clock, pc, text, stream, start, open, sent, dir, content>>

(* A file after chars is written at offset from. *)
Written(file, from, chars) ==
  LET to == from + Len(chars)
  IN [i \in 1 .. (IF to > Len(file) /\ chars # <<>> THEN to ELSE Len(file)) |->
        IF i \in from + 1 .. to THEN chars[i - from]
        ELSE IF i <= Len(file) THEN file[i] ELSE NUL]

(* The system takes n characters of the buffer. When it takes fewer than      *)
(* there are the write has failed, and stdio drops the rest.                  *)
WriteOut(s, n) ==
  content' = [content EXCEPT ![open[s]] =
                Written(@, stream[s].offset, SubSeq(stream[s].buf, 1, n))]

Emptied(st, n) == [st EXCEPT !.offset = @ + n, !.buf = <<>>]

(* No write has failed: what fputc was given is in the file or in the buffer. *)
Whole(st) == st.given = st.offset + Len(st.buf)

(* fputc: the character goes into the buffer. A full buffer is written out    *)
(* before; when that fails, the character is lost as well.                    *)
Takes(st, char) == [st EXCEPT !.given = @ + 1, !.buf = Append(@, char)]
Loses(st) == [st EXCEPT !.given = @ + 1]

Put(s) ==
  LET st == stream[s]
      char == loop[s].out[st.given + 1]
  IN /\ pc[s] \in {"convert", "end"} /\ ~Given(s)
     /\ \/ /\ Len(st.buf) < BufLen
           /\ stream' = [stream EXCEPT ![s] = Takes(st, char)]
           /\ UNCHANGED content
        \/ /\ Len(st.buf) = BufLen
           /\ \E n \in 0 .. BufLen :
                /\ WriteOut(s, n)
                /\ stream' = [stream EXCEPT ![s] =
                     IF n = BufLen THEN Takes(Emptied(st, n), char) ELSE Loses(Emptied(st, n))]
     /\ UNCHANGED <<clock, pc, text, loop, start, open, sent, dir>>

(* The end of the text. What ferror says is printed, and nothing else.        *)
EndOfText(s) ==
  /\ pc[s] = "convert" /\ Given(s) /\ getc(text[s], loop[s]) = EOF
  /\ loop' = [loop EXCEPT ![s] = ConvertEnd(@)]
  /\ pc' = [pc EXCEPT ![s] = "end"]
  /\ UNCHANGED <<clock, text, stream, start, open, sent, dir, content>>

(* fclose writes what the buffer still has; nobody looks at what it returns.  *)
Close(s) ==
  /\ pc[s] = "end" /\ Given(s)
  /\ \E n \in 0 .. Len(stream[s].buf) :
       /\ WriteOut(s, n)
       /\ stream' = [stream EXCEPT ![s] = Emptied(@, n)]
  /\ pc' = [pc EXCEPT ![s] = "closed"]
  /\ open' = [open EXCEPT ![s] = NoFile]
  /\ UNCHANGED <<clock, text, loop, start, sent, dir>>

(* fopen "r" by name. Without such a file, or when it cannot be opened, it    *)
(* returns NULL, which fread is then given.                                   *)
Reopen(s) ==
  /\ pc[s] = "closed"
  /\ \E f \in {NoFile, dir[TempName(start[s])]} :
       /\ open' = [open EXCEPT ![s] = f]
       /\ pc' = [pc EXCEPT ![s] = IF f = NoFile THEN "crashed" ELSE "send"]
  /\ UNCHANGED <<clock, text, loop, stream, start, sent, dir, content>>

(* A buffer of the file is read, sent and acknowledged; a short one is the    *)
(* last.                                                                      *)
Send(s) ==
  /\ pc[s] = "send"
  /\ LET file == content[open[s]]
         from == Len(sent[s])
         to == IF from + BufLen <= Len(file) THEN from + BufLen ELSE Len(file)
     IN /\ sent' = [sent EXCEPT ![s] = @ \o SubSeq(file, from + 1, to)]
        /\ pc' = [pc EXCEPT ![s] = IF to < from + BufLen THEN "sent" ELSE "send"]
  /\ UNCHANGED <<clock, text, loop, stream, start, open, dir, content>>

(* remove deletes the name, whatever file it stands for by now. *)
RemovedNot(n) == dir                   \* variant: the name stays
Removed(n) == [dir EXCEPT ![n] = NoFile]

Finish(s) ==
  /\ pc[s] = "sent"
  /\ dir' = Removed(TempName(start[s]))
  /\ pc' = [pc EXCEPT ![s] = "done"]
  /\ open' = [open EXCEPT ![s] = NoFile]
  /\ UNCHANGED <<clock, text, loop, stream, start, sent, content>>

(* Every exit of the transfer but this one leaves the temporary file behind.  *)
Fail(s) ==
  /\ pc[s] = "send"
  /\ pc' = [pc EXCEPT ![s] = "failed"]
  /\ open' = [open EXCEPT ![s] = NoFile]
  /\ UNCHANGED <<clock, text, loop, stream, start, sent, dir, content>>

SessionStep(s) ==
  \/ Create(s) \/ CannotCreate(s) \/ Convert(s) \/ Put(s) \/ EndOfText(s) \/ Close(s)
  \/ Reopen(s) \/ Send(s) \/ Finish(s) \/ Fail(s)

Next == Tick \/ \E s \in Sessions : SessionStep(s)

Spec == Init /\ [][Next]_vars

------------------------------------------------------------------------------
(* Properties. *)

Waiting(c) == IF c.nextChar = None THEN <<>> ELSE <<c.nextChar>>

(* What fputc was given and what waits is, after every character, the         *)
(* netascii form of what has been read, whatever the text.                    *)
ConvertedSoFar ==
  \A s \in Sessions :
    IsNetascii(text[s], loop[s].pos, loop[s].out \o Waiting(loop[s]))

(* What was sent can be read back as the text asked for and as no other.      *)
ClientGetsText(s) ==
  \A t \in Texts : IsNetascii(t, Len(t), sent[s]) <=> t = text[s]

Shares(s) == \E t \in Sessions \ {s} : pc[t] # "new" /\ start[t] = start[s]

(* A client whose session reports success reads back the text it asked for    *)
(* when no other session started in the same second and no write to its       *)
(* temporary file failed, whatever the others do; and that file is there when *)
(* it is to be opened again, even when writes have failed. (Sessions of one   *)
(* second may send one another's conversion; a failed write sends a text with *)
(* a gap or without its end, and succeeds.)                                   *)
SeparateSecondsAreSafe ==
  \A s \in Sessions :
    pc[s] # "new" /\ ~Shares(s) =>
      /\ pc[s] = "done" /\ Whole(stream[s]) => ClientGetsText(s)
      /\ pc[s] = "closed" => dir[TempName(start[s])] = s

(* A temporary file that is left belongs to a session that still runs or that *)
(* failed: success cleans up, even when two sessions used the same name.      *)
LeftoversAreFailures ==
  \A n \in DOMAIN dir : dir[n] # NoFile =>
    \E s \in Sessions : /\ pc[s] \notin {"new", "uncreated", "done"}
                        /\ TempName(start[s]) = n
=============================================================================
