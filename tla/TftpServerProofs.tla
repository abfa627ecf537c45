-------------------------- MODULE TftpServerProofs --------------------------
(* Proofs about TftpServer: the signal handler, and the files that children   *)
(* share, for any requests, process table and length of files.                *)
EXTENDS TftpServer, SequenceTheorems, TLAPS

------------------------------------------------------------------------------
(* The invariant. *)

(* As long as signals come from children that end, a pending one and a        *)
(* handler that runs each have a zombie of their own: merged signals only     *)
(* lose the count of what is beyond.                                          *)
SignalsMatch ==
  /\ (sigchld \/ mainPc = "handler") /\ ~stopped => Zombies # {}
  /\ sigchld /\ mainPc = "handler" /\ ~stopped => \E s, t \in Zombies : s # t

(* A child that has not opened its file has done nothing. *)
Fresh(s) == child[s].state = "starting" => child[s] = NewChild(child[s].request)

(* An upload ends with its last block. *)
UploadFits(s) ==
  Serves(s, "WRQ") =>
    /\ Received(s) <= FileLen
    /\ child[s].at_end <=> Received(s) = FileLen

(* Nobody else writes the file of a child that is alone. *)
Exclusive(s) ==
  child[s].state = "serving" /\ child[s].alone =>
    Writers(child[s].request.name) \subseteq {s}

(* What such a child has received goes to the file in order, if the disk      *)
(* takes it.                                                                  *)
UploadInOrder(s) ==
  Serves(s, "WRQ") /\ child[s].alone /\ child[s].lost = 0 =>
    /\ disk[child[s].request.name] = Part(child[s].request, child[s].pos)
    /\ \A i \in 1 .. Len(child[s].buffer) :
         child[s].buffer[i] = Block(child[s].request, child[s].pos + i)

(* A download that began with the whole of an upload, and is alone, is still  *)
(* reading it.                                                                *)
DownloadSoFar(s) ==
  Serves(s, "RRQ") /\ child[s].alone /\ child[s].expects # None =>
    /\ leftBy[child[s].request.name] = child[s].expects
    /\ child[s].buffer = Part(child[s].expects, child[s].pos)
    /\ child[s].at_end => child[s].pos = FileLen

Sound(s) ==
  Fresh(s) /\ UploadFits(s) /\ Exclusive(s) /\ UploadInOrder(s) /\ DownloadSoFar(s)

(* leftBy is true of the file, which nobody writes. *)
FileIsUpload(n) ==
  leftBy[n] # None => Writers(n) = {} /\ disk[n] = Part(leftBy[n], FileLen)

Inductive ==
  /\ TypeOK /\ SignalsMatch
  /\ \A s \in Pids : Sound(s)
  /\ \A n \in Names : FileIsUpload(n)

------------------------------------------------------------------------------
(* Blocks and files. *)

(* The blocks of a transfer are blocks. *)
LEMMA PartType ==
  ASSUME NEW r \in Transfers, NEW n \in 0 .. FileLen
  PROVE  /\ Part(r, n) \in Seq(Blocks) /\ Len(Part(r, n)) = n
         /\ \A i \in 1 .. n : Part(r, n)[i] = Block(r, i)
<1>1. \A i \in 1 .. n : Block(r, i) \in Blocks
  BY ServerAssumption DEF Blocks
<1> QED
  BY <1>1, ServerAssumption DEF Part

(* The longer of two lengths. *)
LEMMA MaxOfTwo ==
  ASSUME NEW a \in Nat, NEW b \in Nat
  PROVE  /\ Max({a, b}) \in {a, b}
         /\ Max({a, b}) >= a /\ Max({a, b}) >= b
<1>1. \E m \in {a, b} : \A k \in {a, b} : k <= m
  <2>1. CASE a <= b
    BY <2>1
  <2>2. CASE ~(a <= b)
    BY <2>2
  <2> QED
    BY <2>1, <2>2
<1> QED
  BY <1>1 DEF Max

(* What write makes of a file is a file, as long as it was or as what is      *)
(* written reaches.                                                           *)
LEMMA PutType ==
  ASSUME NEW f \in Seq(Blocks), NEW blocks \in Seq(Blocks), NEW at \in Nat
  PROVE  /\ Put(f, at, blocks) \in Seq(Blocks)
         /\ Len(Put(f, at, blocks)) \in {Len(f), at + Len(blocks)}
<1> DEFINE top == Reach(f, at, blocks)
           whole == Put(f, at, blocks)
<1>1. top \in {Len(f), at + Len(blocks)} /\ top \in Nat
  BY MaxOfTwo DEF Reach
<1>2. whole = [i \in 1 .. top |-> IF i \in at + 1 .. at + Len(blocks) THEN blocks[i - at]
                                  ELSE IF i <= Len(f) THEN f[i] ELSE Hole]
  BY DEF Put
<1> HIDE DEF top, whole
<1>3. \A i \in 1 .. top : whole[i] \in Blocks
  BY <1>1, <1>2 DEF Blocks
<1>4. whole \in Seq(Blocks) /\ Len(whole) = top
  BY <1>1, <1>2, <1>3
<1> QED
  BY <1>1, <1>4 DEF whole

(* At the end of an initial part of an upload, write appends: the next blocks *)
(* make a longer part.                                                        *)
LEMMA PutInOrder ==
  ASSUME NEW r \in Transfers, NEW p \in 0 .. FileLen, NEW blocks \in Seq(Blocks),
         p + Len(blocks) <= FileLen,
         \A i \in 1 .. Len(blocks) : blocks[i] = Block(r, p + i)
  PROVE  Put(Part(r, p), p, blocks) = Part(r, p + Len(blocks))
<1>1. Len(Part(r, p)) = p /\ \A i \in 1 .. p : Part(r, p)[i] = Block(r, i)
  BY PartType
<1>2. FileLen \in Nat /\ p \in Nat /\ Len(blocks) \in Nat
  BY ServerAssumption
<1>3. Reach(Part(r, p), p, blocks) = p + Len(blocks)
  <2>1. CASE blocks = <<>>
    BY <1>1, <1>2, <2>1 DEF Reach
  <2>2. CASE blocks # <<>>
    BY <1>1, <1>2, <2>2, MaxOfTwo DEF Reach
  <2> QED
    BY <2>1, <2>2
<1>4. ASSUME NEW i \in 1 .. p + Len(blocks)
      PROVE  (IF i \in p + 1 .. p + Len(blocks) THEN blocks[i - p]
              ELSE IF i <= Len(Part(r, p)) THEN Part(r, p)[i] ELSE Hole) = Block(r, i)
  <2>1. CASE i \in p + 1 .. p + Len(blocks)
    <3>1. i - p \in 1 .. Len(blocks) /\ p + (i - p) = i
      BY <1>2, <2>1
    <3> QED
      BY <2>1, <3>1
  <2>2. CASE i \notin p + 1 .. p + Len(blocks)
    <3>1. i \in 1 .. p
      BY <1>2, <2>2
    <3> QED
      BY <1>1, <1>2, <2>2, <3>1
  <2> QED
    BY <2>1, <2>2
<1>5. Put(Part(r, p), p, blocks) = [i \in 1 .. p + Len(blocks) |-> Block(r, i)]
  BY <1>3, <1>4 DEF Put
<1> QED
  BY <1>5 DEF Part

(* A part of an upload and the blocks that follow it in a longer part. *)
LEMMA PartGrows ==
  ASSUME NEW r \in Transfers, NEW q \in 0 .. FileLen, NEW p \in 0 .. q, NEW n \in 1 .. q - p
  PROVE  Part(r, p) \o SubSeq(Part(r, q), p + 1, p + n) = Part(r, p + n)
<1> DEFINE more == SubSeq(Part(r, q), p + 1, p + n)
<1>1. FileLen \in Nat /\ q \in Nat /\ p \in Nat /\ n \in Nat /\ p + n <= q
  BY ServerAssumption
<1>2. p \in 0 .. FileLen /\ p + n \in 0 .. FileLen
  BY <1>1
<1>3. /\ Part(r, q) \in Seq(Blocks) /\ Len(Part(r, q)) = q
      /\ \A i \in 1 .. q : Part(r, q)[i] = Block(r, i)
  BY PartType
<1>4. /\ Part(r, p) \in Seq(Blocks) /\ Len(Part(r, p)) = p
      /\ \A i \in 1 .. p : Part(r, p)[i] = Block(r, i)
  BY <1>2, PartType
<1>5. /\ Part(r, p + n) \in Seq(Blocks) /\ Len(Part(r, p + n)) = p + n
      /\ \A i \in 1 .. p + n : Part(r, p + n)[i] = Block(r, i)
  BY <1>2, PartType
<1>6. /\ more \in Seq(Blocks) /\ Len(more) = n
      /\ \A i \in 1 .. n : more[i] = Block(r, p + i)
  <2>1. \A i \in 1 .. q : Part(r, q)[i] \in Blocks
    BY <1>3, ElementOfSeq
  <2>2. \A i \in p + 1 .. p + n : i \in 1 .. q
    BY <1>1
  <2>3. more \in Seq(Blocks) /\ Len(more) = n
    BY <1>1, <2>1, <2>2, SubSeqProperties
  <2>4. ASSUME NEW i \in 1 .. n PROVE more[i] = Block(r, p + i)
    <3>1. p + i \in 1 .. q
      BY <1>1
    <3>2. more[i] = Part(r, q)[p + i]
      BY <1>1, <1>3
    <3> QED
      BY <1>3, <3>1, <3>2
  <2> QED
    BY <2>3, <2>4
<1> HIDE DEF more
<1>7. Part(r, p) \o more \in Seq(Blocks) /\ Len(Part(r, p) \o more) = p + n
  BY <1>4, <1>6, ConcatProperties
<1>8. ASSUME NEW i \in 1 .. p + n PROVE (Part(r, p) \o more)[i] = Part(r, p + n)[i]
  <2>1. Part(r, p + n)[i] = Block(r, i)
    BY <1>5
  <2>2. CASE i <= p
    <3>1. i \in 1 .. p
      BY <1>1, <2>2
    <3>2. (Part(r, p) \o more)[i] = Part(r, p)[i]
      BY <1>1, <1>4, <1>6, <3>1
    <3> QED
      BY <1>4, <2>1, <3>1, <3>2
  <2>3. CASE i > p
    <3>1. i - p \in 1 .. n /\ p + (i - p) = i
      BY <1>1, <2>3
    <3>2. (Part(r, p) \o more)[i] = more[i - p]
      BY <1>1, <1>4, <1>6, <2>3, <3>1
    <3> QED
      BY <1>6, <2>1, <3>1, <3>2
  <2>4. i <= p \/ i > p
    BY <1>1
  <2> QED
    BY <2>2, <2>3, <2>4
<1> QED
  BY <1>5, <1>7, <1>8, SeqEqual DEF more

(* The first n blocks of stdio's buffer, and the others. *)
LEMMA SplitBuffer ==
  ASSUME NEW b \in Seq(Blocks), NEW n \in 0 .. Len(b)
  PROVE  /\ SubSeq(b, 1, n) \in Seq(Blocks) /\ Len(SubSeq(b, 1, n)) = n
         /\ \A i \in 1 .. n : SubSeq(b, 1, n)[i] = b[i]
         /\ SubSeq(b, n + 1, Len(b)) \in Seq(Blocks)
         /\ Len(SubSeq(b, n + 1, Len(b))) = Len(b) - n
         /\ \A i \in 1 .. Len(b) - n : SubSeq(b, n + 1, Len(b))[i] = b[n + i]
<1>1. \A i \in 1 .. Len(b) : b[i] \in Blocks
  BY ElementOfSeq
<1>2. Len(b) \in Nat /\ n \in Nat
  BY LenProperties
<1> QED
  BY <1>1, <1>2

------------------------------------------------------------------------------
(* The process table. *)

(* A process that runs has the record of a child, for a transfer. *)
LEMMA Running ==
  ASSUME TypeOK, NEW s \in Pids, child[s].state \in {"starting", "serving"}
  PROVE  /\ child[s] \in Children
         /\ child[s].request \in Transfers /\ child[s].request.name \in Names
         /\ child[s].request.op \in {"RRQ", "WRQ"}
<1>1. child[s] \in Children
  BY DEF TypeOK, NoChild, Zombie
<1> QED
  BY <1>1, ServerAssumption DEF Children, Transfers, Names

(* A child keeps what holds of it through the steps of others, if those leave *)
(* the file of a child that is alone as it is.                                *)
LEMMA OthersStaySound ==
  ASSUME NEW s \in Pids, Sound(s), child'[s] = child[s],
         child[s].state = "serving" /\ child[s].alone =>
           LET n == child[s].request.name
           IN  /\ disk'[n] = disk[n] /\ leftBy'[n] = leftBy[n]
               /\ Writers(n)' \subseteq Writers(n)
  PROVE  Sound(s)'
<1>1. Fresh(s)' /\ UploadFits(s)'
  BY DEF Sound, Fresh, UploadFits, Serves, Received
<1>2. Exclusive(s)'
  BY DEF Sound, Exclusive
<1>3. UploadInOrder(s)'
  BY DEF Sound, UploadInOrder, Serves
<1>4. DownloadSoFar(s)'
  BY DEF Sound, DownloadSoFar, Serves
<1> QED
  BY <1>1, <1>2, <1>3, <1>4 DEF Sound

(* A process that does not serve, or a free slot. *)
LEMMA IdleIsSound ==
  ASSUME NEW s \in Pids, Fresh(s), child[s].state # "serving"
  PROVE  Sound(s)
BY DEF Sound, UploadFits, Exclusive, UploadInOrder, DownloadSoFar, Serves

(* A step in which nobody serves who did not, or otherwise than before, and   *)
(* which touches no file, keeps what holds of files and children.             *)
LEMMA QuietStep ==
  ASSUME Inductive, UNCHANGED files,
         \A s \in Pids : \/ child'[s] = child[s]
                         \/ child'[s].state # "serving" /\ Fresh(s)'
  PROVE  (\A s \in Pids : Sound(s)') /\ (\A n \in Names : FileIsUpload(n)')
<1>1. \A n : Writers(n)' \subseteq Writers(n)
  BY DEF Writers, Serves
<1>2. disk' = disk /\ leftBy' = leftBy
  BY DEF files
<1>3. ASSUME NEW s \in Pids PROVE Sound(s)'
  <2>1. CASE child'[s] = child[s]
    BY <1>1, <1>2, <2>1, OthersStaySound DEF Inductive
  <2>2. CASE child'[s].state # "serving" /\ Fresh(s)'
    BY <2>2 DEF Sound, UploadFits, Exclusive, UploadInOrder, DownloadSoFar, Serves
  <2> QED
    BY <2>1, <2>2
<1>4. ASSUME NEW n \in Names PROVE FileIsUpload(n)'
  BY <1>1, <1>2 DEF Inductive, FileIsUpload
<1> QED
  BY <1>3, <1>4

(* The invariant holds at the start: every slot is free. *)
LEMMA InductiveInit == Init => Inductive
<1> SUFFICES ASSUME Init PROVE Inductive
  OBVIOUS
<1>1. \A s \in Pids : child[s].state = "free"
  BY DEF Init, NoChild
<1>2. TypeOK
  <2>1. disk \in [Names -> Seq(Blocks)] /\ \A n \in Names : Len(disk[n]) = 1
    BY DEF Init, Blocks
  <2>2. FileLen \in Nat /\ 1 <= FileLen
    BY ServerAssumption
  <2>3. copies \in [Requests -> Nat] /\ \A r \in Requests : copies[r] <= MaxCopies[r]
    BY ServerAssumption DEF Init
  <2>4. child \in [Pids -> Children \cup {NoChild, Zombie}]
    BY DEF Init
  <2> QED
    BY <2>1, <2>2, <2>3, <2>4 DEF Init, TypeOK
<1>3. SignalsMatch
  BY DEF Init, SignalsMatch
<1>4. \A s \in Pids : Sound(s)
  BY <1>1, IdleIsSound DEF Fresh
<1>5. \A n \in Names : FileIsUpload(n)
  BY DEF Init, FileIsUpload
<1> QED
  BY <1>2, <1>3, <1>4, <1>5 DEF Inductive

------------------------------------------------------------------------------
(* The dispatcher's steps. *)

(* A datagram is delivered once more, and no more often than it may be. *)
LEMMA TakenIsCounted ==
  ASSUME TypeOK, NEW r \in Requests, TakeRequest(r)
  PROVE  copies' \in [Requests -> Nat] /\ \A q \in Requests : copies'[q] <= MaxCopies[q]
<1>1. copies \in [Requests -> Nat] /\ \A q \in Requests : copies[q] <= MaxCopies[q]
  BY DEF TypeOK
<1> SUFFICES ASSUME IsTransfer(r)
             PROVE  copies' \in [Requests -> Nat] /\ \A q \in Requests : copies'[q] <= MaxCopies[q]
  BY <1>1 DEF TakeRequest
<1>2. copies' = [copies EXCEPT ![r] = copies[r] + 1] /\ copies[r] < MaxCopies[r]
  BY DEF TakeRequest
<1>3. copies' \in [Requests -> Nat]
  BY <1>1, <1>2
<1>4. ASSUME NEW q \in Requests PROVE copies'[q] <= MaxCopies[q]
  <2>1. copies[q] \in Nat /\ MaxCopies[q] \in Nat /\ copies[q] <= MaxCopies[q]
    BY <1>1, ServerAssumption
  <2>2. copies'[q] = IF q = r THEN copies[q] + 1 ELSE copies[q]
    BY <1>1, <1>2
  <2> QED
    BY <1>2, <2>1, <2>2
<1> QED
  BY <1>3, <1>4

(* A new child is waiting to open its file. *)
LEMMA TakeRequestSound ==
  ASSUME Inductive, NEW r \in Requests, TakeRequest(r)
  PROVE  Inductive'
<1>1. CASE IsTransfer(r) /\ HasRoom
  <2>1. PICK s \in NextPid(r) : child' = [child EXCEPT ![s] = NewChild(r)]
    BY <1>1 DEF TakeRequest
  <2>2. s \in Pids /\ child[s].state = "free" /\ r \in Transfers
    BY <1>1, <2>1 DEF NextPid, Free, IsTransfer, Transfers
  <2>3. child \in [Pids -> Children \cup {NoChild, Zombie}]
    BY DEF Inductive, TypeOK
  <2>4. child'[s] = NewChild(r) /\ \A t \in Pids \ {s} : child'[t] = child[t]
    BY <2>1, <2>2, <2>3
  <2>5. NewChild(r) \in Children
    BY <2>2, ServerAssumption DEF NewChild, Children
  <2>6. TypeOK'
    <3>1. child' \in [Pids -> Children \cup {NoChild, Zombie}]
      BY <2>1, <2>2, <2>3, <2>5
    <3> QED
      BY <3>1, TakenIsCounted DEF Inductive, TypeOK, TakeRequest, files
  <2>7. Zombies' = Zombies
    BY <2>2, <2>4 DEF Zombies, NewChild
  <2>8. SignalsMatch'
    BY <2>7 DEF Inductive, SignalsMatch, TakeRequest
  <2>9. child'[s].state # "serving" /\ Fresh(s)'
    BY <2>4 DEF NewChild, Fresh
  <2>10. (\A t \in Pids : Sound(t)') /\ (\A n \in Names : FileIsUpload(n)')
    <3>1. UNCHANGED files
      BY DEF TakeRequest
    <3> QED
      BY <2>4, <2>9, <3>1, QuietStep
  <2> QED
    BY <2>6, <2>8, <2>10 DEF Inductive
<1>2. CASE ~(IsTransfer(r) /\ HasRoom)
  <2>1. child' = child /\ UNCHANGED <<mainPc, sigchld, stopped, answered, files>>
    BY <1>2 DEF TakeRequest
  <2>2. TypeOK'
    BY <2>1, TakenIsCounted DEF Inductive, TypeOK, files
  <2>3. SignalsMatch'
    BY <2>1 DEF Inductive, SignalsMatch, Zombies
  <2>4. (\A t \in Pids : Sound(t)') /\ (\A n \in Names : FileIsUpload(n)')
    BY <2>1, QuietStep
  <2> QED
    BY <2>2, <2>3, <2>4 DEF Inductive
<1> QED
  BY <1>1, <1>2

(* A pending signal comes with a zombie, which the handler finds. *)
LEMMA EnterHandlerSound ==
  ASSUME Inductive, EnterHandler
  PROVE  Inductive'
<1>1. TypeOK'
  BY DEF Inductive, TypeOK, EnterHandler, files
<1>2. SignalsMatch'
  BY DEF Inductive, SignalsMatch, EnterHandler, Zombies
<1>3. (\A t \in Pids : Sound(t)') /\ (\A n \in Names : FileIsUpload(n)')
  <2>1. child' = child /\ UNCHANGED files
    BY DEF EnterHandler
  <2> QED
    BY <2>1, QuietStep
<1> QED
  BY <1>1, <1>2, <1>3 DEF Inductive

(* The handler takes one zombie; if a signal is pending there is another. *)
LEMMA WaitForChildSound ==
  ASSUME Inductive, WaitForChild
  PROVE  Inductive'
<1>1. CASE Free = Pids
  <2>1. child' = child /\ UNCHANGED <<sigchld, stopped, copies, answered, files>> /\ mainPc' = "recv"
    <3>1. child' = [s \in Pids |-> child[s]]
      BY <1>1 DEF WaitForChild, Reap
    <3>2. child \in [Pids -> Children \cup {NoChild, Zombie}]
      BY DEF Inductive, TypeOK
    <3> QED
      BY <3>1, <3>2 DEF WaitForChild
  <2>2. TypeOK'
    BY <2>1 DEF Inductive, TypeOK, files
  <2>3. SignalsMatch'
    BY <2>1 DEF Inductive, SignalsMatch, Zombies
  <2>4. (\A t \in Pids : Sound(t)') /\ (\A n \in Names : FileIsUpload(n)')
    BY <2>1, QuietStep
  <2> QED
    BY <2>2, <2>3, <2>4 DEF Inductive
<1>2. CASE Free # Pids
  <2>1. PICK z \in Zombies : child' = [s \in Pids |-> IF s \in {z} THEN NoChild ELSE child[s]]
    BY <1>2 DEF WaitForChild, Reap
  <2>2. z \in Pids /\ child[z].state = "zombie"
    BY DEF Zombies
  <2>3. child'[z] = NoChild /\ \A t \in Pids \ {z} : child'[t] = child[t]
    BY <2>1, <2>2
  <2>4. TypeOK'
    <3>1. child' \in [Pids -> Children \cup {NoChild, Zombie}]
      BY <2>1 DEF Inductive, TypeOK
    <3> QED
      BY <3>1 DEF Inductive, TypeOK, WaitForChild, files
  <2>5. SignalsMatch'
    <3>1. mainPc' = "recv" /\ sigchld' = sigchld /\ stopped' = stopped /\ mainPc = "handler"
      BY DEF WaitForChild
    <3>2. Zombies' = Zombies \ {z}
      BY <2>3 DEF Zombies, NoChild
    <3>3. ASSUME sigchld, ~stopped PROVE Zombies \ {z} # {}
      BY <3>1, <3>3 DEF Inductive, SignalsMatch
    <3> QED
      BY <3>1, <3>2, <3>3 DEF SignalsMatch
  <2>6. (\A t \in Pids : Sound(t)') /\ (\A n \in Names : FileIsUpload(n)')
    <3>1. child'[z].state # "serving" /\ Fresh(z)'
      BY <2>3 DEF NoChild, Fresh
    <3>2. UNCHANGED files
      BY DEF WaitForChild
    <3> QED
      BY <2>3, <3>1, <3>2, QuietStep
  <2> QED
    BY <2>4, <2>5, <2>6 DEF Inductive
<1> QED
  BY <1>1, <1>2

------------------------------------------------------------------------------
(* The children's steps. *)

(* The last process to end leaves a zombie, and so does every other. *)
LEMMA SignalsOfChildren ==
  ASSUME Inductive, NEW s \in Pids, child[s].state \in {"starting", "serving"},
         \/ child'[s].state \in {"starting", "serving"} /\ sigchld' = sigchld
         \/ child'[s].state = "zombie",
         \A t \in Pids \ {s} : child'[t].state = child[t].state,
         mainPc' = mainPc, stopped' = stopped
  PROVE  SignalsMatch'
<1>1. s \notin Zombies
  BY DEF Zombies
<1>2. CASE child'[s].state \in {"starting", "serving"} /\ sigchld' = sigchld
  <2>1. Zombies' = Zombies
    BY <1>1, <1>2 DEF Zombies
  <2> QED
    BY <1>2, <2>1 DEF Inductive, SignalsMatch
<1>3. CASE child'[s].state = "zombie"
  <2>1. Zombies' = Zombies \cup {s}
    BY <1>3 DEF Zombies
  <2> QED
    BY <1>1, <2>1 DEF Inductive, SignalsMatch
<1> QED
  BY <1>2, <1>3

(* A child that is alone and another that writes have different files. *)
LEMMA AloneElsewhere ==
  ASSUME Inductive, NEW s \in Pids, NEW t \in Pids \ {s}, Serves(s, "WRQ"),
         child[t].state = "serving", child[t].alone
  PROVE  child[t].request.name # child[s].request.name
<1>1. Writers(child[t].request.name) \subseteq {t}
  BY DEF Inductive, Sound, Exclusive
<1> QED
  BY <1>1 DEF Writers

(* A file that is the whole of an upload has no writer. *)
LEMMA LeftByNobodyWrites ==
  ASSUME Inductive, NEW s \in Pids, Serves(s, "WRQ")
  PROVE  leftBy[child[s].request.name] = None
<1>1. child[s].request.name \in Names
  BY Running DEF Serves, Inductive
<1> QED
  BY <1>1 DEF Inductive, FileIsUpload, Writers

(* A child that opens its file for writing empties it, and whoever has it     *)
(* open is not alone any more.                                                *)
LEMMA OpenSound ==
  ASSUME Inductive, NEW s \in Pids, Open(s)
  PROVE  Inductive'
<1> DEFINE r == child[s].request
           writes == r.op = "WRQ"
<1>1. /\ child[s].state = "starting" /\ child[s] = NewChild(r)
      /\ child[s] \in Children
      /\ r \in Transfers /\ r.name \in Names /\ r.op \in {"RRQ", "WRQ"}
  BY Running DEF Open, Inductive, Sound, Fresh
<1>2. /\ disk' = [disk EXCEPT ![r.name] = Opened(r.op, @)]
      /\ leftBy' = IF writes THEN [leftBy EXCEPT ![r.name] = None] ELSE leftBy
      /\ answered' = answered \cup {r}
      /\ UNCHANGED <<mainPc, sigchld, stopped, copies>>
      /\ child' = [t \in Pids |->
             IF t = s
               THEN [child[s] EXCEPT !.state = "serving", !.attached = r \notin answered,
                                     !.alone = Writers(r.name) = {},
                                     !.expects = leftBy[r.name]]
             ELSE IF writes /\ t \in Users(r.name)
               THEN [child[t] EXCEPT !.alone = FALSE]
             ELSE child[t]]
  BY DEF Open
<1>3. child'[s] = [state |-> "serving", request |-> r, pos |-> 0, buffer |-> <<>>,
                   at_end |-> FALSE, lost |-> 0, attached |-> r \notin answered,
                   alone |-> Writers(r.name) = {}, expects |-> leftBy[r.name]]
  <2>1. child'[s] = [NewChild(r) EXCEPT !.state = "serving", !.attached = r \notin answered,
                                        !.alone = Writers(r.name) = {},
                                        !.expects = leftBy[r.name]]
    <3> HIDE DEF r, writes
    <3> QED
      BY <1>1, <1>2
  <2> QED
    BY <2>1 DEF NewChild
<1>4. ASSUME NEW t \in Pids \ {s}
      PROVE  \/ child'[t] = child[t] /\ ~(writes /\ t \in Users(r.name))
             \/ /\ child[t].state = "serving" /\ child[t] \in Children
                /\ child'[t] = [child[t] EXCEPT !.alone = FALSE]
  <2>1. child'[t] = IF writes /\ t \in Users(r.name) THEN [child[t] EXCEPT !.alone = FALSE]
                    ELSE child[t]
    BY <1>2
  <2> QED
    BY <2>1, Running DEF Users, Inductive
<1>5. /\ disk \in [Names -> Seq(Blocks)] /\ \A n \in Names : Len(disk[n]) <= FileLen
      /\ leftBy \in [Names -> Transfers \cup {None}]
      /\ child \in [Pids -> Children \cup {NoChild, Zombie}]
  BY DEF Inductive, TypeOK
<1>6. /\ \A n \in Names \ {r.name} : disk'[n] = disk[n] /\ leftBy'[n] = leftBy[n]
      /\ writes => disk'[r.name] = <<>> /\ leftBy'[r.name] = None
      /\ ~writes => disk'[r.name] = disk[r.name] /\ leftBy' = leftBy
  BY <1>1, <1>2, <1>5 DEF Opened
<1> HIDE DEF r, writes
<1>7. TypeOK'
  <2>1. disk' \in [Names -> Seq(Blocks)] /\ \A n \in Names : Len(disk'[n]) <= FileLen
    <3>1. <<>> \in Seq(Blocks) /\ Len(<<>>) <= FileLen
      BY ServerAssumption
    <3>2. disk' = [disk EXCEPT ![r.name] = disk'[r.name]]
      BY <1>1, <1>2, <1>5
    <3>3. disk'[r.name] \in Seq(Blocks) /\ Len(disk'[r.name]) <= FileLen
      BY <1>1, <1>5, <1>6, <3>1
    <3> QED
      BY <1>5, <1>6, <3>2, <3>3
  <2>2. leftBy' \in [Names -> Transfers \cup {None}]
    BY <1>2, <1>5
  <2>3. child' \in [Pids -> Children \cup {NoChild, Zombie}]
    <3>1. child'[s] \in Children
      <4>1. 0 \in 0 .. FileLen /\ <<>> \in Seq(Blocks)
        BY ServerAssumption
      <4>2. leftBy[r.name] \in Transfers \cup {None}
        BY <1>1, <1>5
      <4> QED
        BY <1>1, <1>3, <4>1, <4>2 DEF Children
    <3>2. ASSUME NEW t \in Pids \ {s} PROVE child'[t] \in Children \cup {NoChild, Zombie}
      <4>1. CASE child'[t] = child[t]
        BY <1>5, <4>1
      <4>2. CASE child[t] \in Children /\ child'[t] = [child[t] EXCEPT !.alone = FALSE]
        <5>1. \A k \in Children : [k EXCEPT !.alone = FALSE] \in Children
          BY DEF Children
        <5> QED
          BY <4>2, <5>1
      <4> QED
        BY <1>4, <4>1, <4>2
    <3>3. child' = [t \in Pids |-> child'[t]]
      BY <1>2
    <3> QED
      BY <3>1, <3>2, <3>3
  <2> QED
    BY <1>1, <1>2, <2>1, <2>2, <2>3 DEF TypeOK, Inductive
<1>8. SignalsMatch'
  <2>1. \A t \in Pids \ {s} : child'[t].state = child[t].state
    BY <1>4 DEF Children
  <2>2. child[s].state = "starting" /\ child'[s].state = "serving"
    BY <1>1, <1>3
  <2>3. sigchld' = sigchld /\ stopped' = stopped /\ mainPc' = mainPc
    BY <1>2
  <2> QED
    BY <2>1, <2>2, <2>3, SignalsOfChildren
<1>9. /\ \A n : Writers(n)' \subseteq Writers(n) \cup {s}
      /\ \A n : ~(writes /\ n = r.name) => Writers(n)' \subseteq Writers(n)
  <2>1. \A t \in Pids \ {s} : child'[t].state = child[t].state
                               /\ (child[t].state = "serving" => child'[t].request = child[t].request)
    BY <1>4 DEF Children
  <2>2. Serves(s, "WRQ")' => writes /\ child'[s].request.name = r.name
    BY <1>3 DEF Serves, writes
  <2> QED
    BY <2>1, <2>2 DEF Writers, Serves
<1>10. ASSUME NEW t \in Pids PROVE Sound(t)'
  <2>1. CASE t = s
    <3>1. Fresh(s)' /\ UploadFits(s)'
      BY <1>3, ServerAssumption DEF Fresh, UploadFits, Serves, Received
    <3>2. Exclusive(s)'
      <4>1. ASSUME child'[s].alone PROVE Writers(r.name) = {}
        <5>1. child'[s].alone = (Writers(r.name) = {})
          BY <1>3
        <5> QED
          BY <4>1, <5>1
      <4>2. child'[s].request.name = r.name
        BY <1>3
      <4> QED
        BY <1>9, <4>1, <4>2 DEF Exclusive
    <3>3. UploadInOrder(s)'
      <4>1. ASSUME Serves(s, "WRQ")' PROVE disk'[r.name] = Part(r, 0)
        BY <1>3, <1>6, <4>1 DEF Serves, writes, Part
      <4> QED
        BY <1>3, <4>1 DEF UploadInOrder
    <3>4. DownloadSoFar(s)'
      <4>1. ASSUME Serves(s, "RRQ")' PROVE leftBy' = leftBy
        BY <1>3, <1>6, <4>1 DEF Serves, writes
      <4>2. <<>> = Part(leftBy[r.name], 0)
        BY DEF Part
      <4> QED
        BY <1>3, <4>1, <4>2 DEF DownloadSoFar
    <3> QED
      BY <2>1, <3>1, <3>2, <3>3, <3>4 DEF Sound
  <2>2. CASE t # s /\ child'[t] = child[t] /\ ~(writes /\ t \in Users(r.name))
    <3>1. ASSUME child[t].state = "serving"
          PROVE  LET n == child[t].request.name
                 IN  /\ disk'[n] = disk[n] /\ leftBy'[n] = leftBy[n]
                     /\ Writers(n)' \subseteq Writers(n)
      <4>1. child[t].request.name \in Names
        BY <3>1, Running DEF Inductive
      <4>2. ~(writes /\ child[t].request.name = r.name)
        BY <2>2, <3>1 DEF Users
      <4> DEFINE n == child[t].request.name
      <4>3. Writers(n)' \subseteq Writers(n)
        BY <1>9, <2>2, <4>2 DEF Writers, Serves
      <4>4. disk'[n] = disk[n] /\ leftBy'[n] = leftBy[n]
        <5>1. CASE n = r.name
          BY <1>6, <4>2, <5>1
        <5>2. CASE n # r.name
          BY <1>6, <4>1, <5>2
        <5> QED
          BY <5>1, <5>2
      <4> QED
        BY <4>3, <4>4
    <3> QED
      BY <2>2, <3>1, OthersStaySound DEF Inductive
  <2>3. CASE /\ t # s /\ child[t].state = "serving" /\ child[t] \in Children
             /\ child'[t] = [child[t] EXCEPT !.alone = FALSE]
    <3>1. /\ child'[t].state = "serving" /\ child'[t].alone = FALSE
          /\ child'[t].request = child[t].request /\ child'[t].pos = child[t].pos
          /\ child'[t].buffer = child[t].buffer /\ child'[t].at_end = child[t].at_end
          /\ child'[t].lost = child[t].lost
      BY <2>3 DEF Children
    <3>2. UploadFits(t)'
      BY <3>1, <2>3 DEF Inductive, Sound, UploadFits, Serves, Received
    <3> QED
      BY <3>1, <3>2 DEF Sound, Fresh, Exclusive, UploadInOrder, DownloadSoFar
  <2> QED
    BY <1>4, <2>1, <2>2, <2>3
<1>11. ASSUME NEW n \in Names PROVE FileIsUpload(n)'
  BY <1>6, <1>9 DEF Inductive, FileIsUpload
<1> QED
  BY <1>7, <1>8, <1>10, <1>11 DEF Inductive

(* A step of a child that serves on leaves the others alone, and changes no   *)
(* file but the one it writes: it is enough to look at its own progress.      *)
LEMMA ServingStep ==
  ASSUME Inductive, NEW s \in Pids, child[s].state = "serving", child'[s].state = "serving",
         child'[s].request = child[s].request, child'[s].alone = child[s].alone,
         \A t \in Pids \ {s} : child'[t] = child[t],
         UNCHANGED <<mainPc, sigchld, stopped, leftBy>>,
         \A n \in Names : disk'[n] = disk[n] \/ (Serves(s, "WRQ") /\ n = child[s].request.name),
         UploadFits(s)', UploadInOrder(s)', DownloadSoFar(s)'
  PROVE  SignalsMatch' /\ (\A t \in Pids : Sound(t)') /\ (\A n \in Names : FileIsUpload(n)')
<1>1. SignalsMatch'
  BY SignalsOfChildren
<1>2. \A n : Writers(n)' = Writers(n)
  BY DEF Writers, Serves
<1>3. ASSUME NEW t \in Pids \ {s} PROVE Sound(t)'
  <2>1. ASSUME child[t].state = "serving", child[t].alone
        PROVE  disk'[child[t].request.name] = disk[child[t].request.name]
    <3>1. child[t].request.name \in Names
      BY <2>1, Running DEF Inductive
    <3> QED
      BY <2>1, <3>1, AloneElsewhere
  <2>2. Writers(child[t].request.name)' \subseteq Writers(child[t].request.name)
    BY DEF Writers, Serves
  <2> QED
    BY <2>1, <2>2, OthersStaySound DEF Inductive
<1>4. Sound(s)'
  <2>1. Fresh(s)'
    BY DEF Fresh
  <2>2. Exclusive(s)'
    <3>1. child[s].alone => Writers(child[s].request.name) \subseteq {s}
      BY DEF Inductive, Sound, Exclusive
    <3> QED
      BY <3>1 DEF Exclusive, Writers, Serves
  <2> QED
    BY <2>1, <2>2 DEF Sound
<1>5. ASSUME NEW n \in Names PROVE FileIsUpload(n)'
  <2>1. CASE disk'[n] = disk[n]
    BY <1>2, <2>1 DEF Inductive, FileIsUpload
  <2>2. CASE Serves(s, "WRQ") /\ n = child[s].request.name
    BY <2>2, LeftByNobodyWrites DEF FileIsUpload
  <2> QED
    BY <2>1, <2>2
<1> QED
  BY <1>1, <1>3, <1>4, <1>5

(* The types of a step that changes one child. *)
LEMMA ChildType ==
  ASSUME TypeOK, NEW s \in Pids, NEW c \in Children \cup {Zombie},
         child' = [child EXCEPT ![s] = c],
         UNCHANGED <<copies, answered, mainPc, stopped>>, sigchld' \in BOOLEAN,
         disk' \in [Names -> Seq(Blocks)], \A n \in Names : Len(disk'[n]) <= FileLen,
         leftBy' \in [Names -> Transfers \cup {None}]
  PROVE  TypeOK' /\ child'[s] = c /\ \A t \in Pids \ {s} : child'[t] = child[t]
<1>1. child \in [Pids -> Children \cup {NoChild, Zombie}]
  BY DEF TypeOK
<1>2. child' \in [Pids -> Children \cup {NoChild, Zombie}]
  BY <1>1
<1> QED
  BY <1>1, <1>2 DEF TypeOK

(* A block received goes to the end of the buffer. *)
LEMMA TakeBlockSound ==
  ASSUME Inductive, NEW s \in Pids, TakeBlock(s)
  PROVE  Inductive'
<1> DEFINE c == child[s]
           k == Received(s) + 1
           b == Append(c.buffer, Block(c.request, k))
           d == [c EXCEPT !.buffer = b, !.at_end = k = FileLen]
<1>1. /\ Serves(s, "WRQ") /\ ~c.at_end
      /\ c \in Children /\ c.request \in Transfers
      /\ c.pos \in Nat /\ c.lost \in Nat /\ c.buffer \in Seq(Blocks) /\ FileLen \in Nat
  BY Running, ServerAssumption DEF TakeBlock, Serves, Inductive, Children
<1>2. k = c.pos + c.lost + Len(c.buffer) + 1 /\ k <= FileLen /\ k \in 1 .. FileLen
  <2>1. Received(s) <= FileLen /\ Received(s) # FileLen
    BY <1>1 DEF Inductive, Sound, UploadFits
  <2>2. Received(s) = c.pos + c.lost + Len(c.buffer)
    BY DEF Received
  <2>3. Len(c.buffer) \in Nat
    BY <1>1
  <2>4. c.pos + c.lost + Len(c.buffer) \in Nat
    <3> HIDE DEF c
    <3> QED
      BY <1>1, <2>3
  <2> QED
    BY <1>1, <2>1, <2>2, <2>4
<1>3. child' = [child EXCEPT ![s] = d] /\ UNCHANGED <<mainPc, sigchld, stopped, copies, answered, files>>
  <2>1. child \in [Pids -> Children \cup {NoChild, Zombie}]
    BY DEF Inductive, TypeOK
  <2> QED
    BY <2>1 DEF TakeBlock
<1>4. /\ b \in Seq(Blocks) /\ Len(b) = Len(c.buffer) + 1
      /\ \A i \in 1 .. Len(c.buffer) : b[i] = c.buffer[i]
      /\ b[Len(c.buffer) + 1] = Block(c.request, k)
  <2>1. Block(c.request, k) \in Blocks
    BY <1>1, <1>2 DEF Blocks
  <2> QED
    BY <1>1, <2>1
<1> HIDE DEF k, b
<1>5. /\ d \in Children /\ d.state = c.state /\ d.request = c.request /\ d.pos = c.pos
      /\ d.buffer = b /\ d.lost = c.lost /\ d.alone = c.alone /\ d.at_end = (k = FileLen)
  BY <1>1, <1>4 DEF Children
<1> HIDE DEF d
<1>6. TypeOK' /\ child'[s] = d /\ \A t \in Pids \ {s} : child'[t] = child[t]
  BY <1>3, <1>5, ChildType DEF Inductive, TypeOK, files
<1>7. UploadFits(s)'
  <2>1. Received(s)' = k
    <3>1. Received(s)' = c.pos + c.lost + Len(b)
      BY <1>5, <1>6 DEF Received
    <3>2. c.pos \in Nat /\ c.lost \in Nat /\ Len(c.buffer) \in Nat
      BY <1>1
    <3>3. Len(b) = Len(c.buffer) + 1
      BY <1>4
    <3>4. k = c.pos + c.lost + Len(c.buffer) + 1
      BY <1>2
    <3> QED
      BY <3>1, <3>2, <3>3, <3>4
  <2>2. d.at_end <=> k = FileLen
    BY <1>5
  <2> QED
    BY <1>2, <1>6, <2>1, <2>2 DEF UploadFits
<1>8. UploadInOrder(s)'
  <2>1. ASSUME Serves(s, "WRQ")', child'[s].alone, child'[s].lost = 0,
               NEW i \in 1 .. Len(b)
        PROVE  b[i] = Block(c.request, c.pos + i)
    <3>1. CASE i \in 1 .. Len(c.buffer)
      BY <1>1, <1>4, <1>5, <1>6, <2>1, <3>1 DEF Inductive, Sound, UploadInOrder
    <3>2. CASE i = Len(c.buffer) + 1
      <4>1. k = c.pos + i
        BY <1>1, <1>2, <1>5, <1>6, <2>1, <3>2
      <4> QED
        BY <1>4, <3>2, <4>1
    <3>3. Len(c.buffer) \in Nat
      BY <1>1
    <3> QED
      BY <1>4, <3>1, <3>2, <3>3
  <2>2. ASSUME child'[s].alone, child'[s].lost = 0
        PROVE  disk[c.request.name] = Part(c.request, c.pos)
    BY <1>1, <1>5, <1>6, <2>2 DEF Inductive, Sound, UploadInOrder
  <2> QED
    BY <1>3, <1>5, <1>6, <2>1, <2>2 DEF UploadInOrder, files
<1>9. DownloadSoFar(s)'
  BY <1>1, <1>5, <1>6 DEF DownloadSoFar, Serves
<1> QED
  <2>1. UNCHANGED <<mainPc, sigchld, stopped, leftBy>> /\ disk' = disk
    BY <1>3 DEF files
  <2>2. child[s].state = "serving" /\ child'[s].state = "serving"
    BY <1>1, <1>5, <1>6 DEF Serves
  <2>3. SignalsMatch' /\ (\A t \in Pids : Sound(t)') /\ (\A n \in Names : FileIsUpload(n)')
    BY <1>5, <1>6, <1>7, <1>8, <1>9, <2>1, <2>2, ServingStep
  <2> QED
    BY <1>6, <2>3 DEF Inductive

(* What write of n blocks of a child's buffer does to the files. *)
LEMMA WrittenType ==
  ASSUME Inductive, NEW s \in Pids, Serves(s, "WRQ"), NEW n \in 0 .. Len(child[s].buffer)
  PROVE  LET c == child[s]
         IN  /\ Written(s, n) \in [Names -> Seq(Blocks)]
             /\ \A m \in Names : Len(Written(s, n)[m]) <= FileLen
             /\ \A m \in Names \ {c.request.name} : Written(s, n)[m] = disk[m]
             /\ c.alone /\ c.lost = 0 =>
                  Written(s, n)[c.request.name] = Part(c.request, c.pos + n)
<1> DEFINE c == child[s]
           name == c.request.name
           front == SubSeq(c.buffer, 1, n)
           new == Put(disk[name], c.pos, front)
<1>1. /\ c \in Children /\ c.request \in Transfers /\ name \in Names
      /\ c.pos \in 0 .. FileLen /\ c.lost \in 0 .. FileLen /\ c.buffer \in Seq(Blocks)
  BY Running DEF Serves, Inductive, Children
<1>2. FileLen \in Nat /\ c.pos \in Nat /\ c.lost \in Nat /\ Len(c.buffer) \in Nat
  BY <1>1, ServerAssumption
<1>3. /\ front \in Seq(Blocks) /\ Len(front) = n
      /\ \A i \in 1 .. n : front[i] = c.buffer[i]
  BY <1>1, SplitBuffer
<1>4. disk \in [Names -> Seq(Blocks)] /\ \A m \in Names : Len(disk[m]) <= FileLen
  BY DEF Inductive, TypeOK
<1>5. c.pos + Len(front) <= FileLen
  <2>1. c.pos + c.lost + Len(c.buffer) <= FileLen
    BY DEF Inductive, Sound, UploadFits, Received
  <2>2. Len(front) <= Len(c.buffer) /\ Len(front) \in Nat
    BY <1>2, <1>3
  <2> QED
    BY <1>2, <2>1, <2>2
<1>6. new \in Seq(Blocks) /\ Len(new) <= FileLen
  <2>1. disk[name] \in Seq(Blocks) /\ Len(disk[name]) <= FileLen
    BY <1>1, <1>4
  <2> QED
    BY <1>2, <1>3, <1>5, <2>1, PutType
<1>7. Written(s, n) = [disk EXCEPT ![name] = new]
  BY <1>1, <1>4 DEF Written
<1> HIDE DEF front, new
<1>8. Written(s, n) \in [Names -> Seq(Blocks)]
  BY <1>1, <1>4, <1>6, <1>7
<1>9. Written(s, n)[name] = new /\ \A m \in Names \ {name} : Written(s, n)[m] = disk[m]
  BY <1>1, <1>4, <1>7
<1>10. ASSUME c.alone, c.lost = 0 PROVE new = Part(c.request, c.pos + n)
  <2>1. /\ disk[name] = Part(c.request, c.pos)
        /\ \A i \in 1 .. Len(c.buffer) : c.buffer[i] = Block(c.request, c.pos + i)
    BY <1>10 DEF Inductive, Sound, UploadInOrder
  <2>2. \A i \in 1 .. Len(front) : front[i] = Block(c.request, c.pos + i)
    <3>1. Len(front) = n /\ \A i \in 1 .. n : i \in 1 .. Len(c.buffer)
      BY <1>2, <1>3
    <3>2. \A i \in 1 .. n : front[i] = c.buffer[i]
      BY <1>3
    <3> QED
      BY <2>1, <3>1, <3>2
  <2>3. Put(Part(c.request, c.pos), c.pos, front) = Part(c.request, c.pos + Len(front))
    BY <1>1, <1>3, <1>5, <2>2, PutInOrder
  <2> QED
    BY <1>3, <2>1, <2>3 DEF new
<1> QED
  BY <1>4, <1>6, <1>8, <1>9, <1>10

(* write moves blocks from the buffer to the file. *)
LEMMA FlushSound ==
  ASSUME Inductive, NEW s \in Pids, Flush(s)
  PROVE  Inductive'
<1> DEFINE c == child[s]
           name == c.request.name
<1>1. /\ Serves(s, "WRQ") /\ c \in Children /\ c.request \in Transfers
      /\ c.pos \in Nat /\ c.lost \in Nat /\ c.buffer \in Seq(Blocks)
  BY Running, ServerAssumption DEF Flush, Serves, Inductive, Children
<1>2. FileLen \in Nat /\ Len(c.buffer) \in Nat
  BY <1>1, ServerAssumption
<1>3. PICK n \in 1 .. Len(c.buffer) :
        /\ disk' = Written(s, n)
        /\ child' = [child EXCEPT ![s].pos = @ + n,
                                  ![s].buffer = SubSeq(@, n + 1, Len(@))]
  BY DEF Flush
<1> DEFINE b == SubSeq(c.buffer, n + 1, Len(c.buffer))
           d == [c EXCEPT !.pos = c.pos + n, !.buffer = b]
<1>4. child' = [child EXCEPT ![s] = d] /\ UNCHANGED <<mainPc, sigchld, stopped, copies, answered, leftBy>>
  <2>1. child \in [Pids -> Children \cup {NoChild, Zombie}]
    BY DEF Inductive, TypeOK
  <2> QED
    BY <1>3, <2>1 DEF Flush
<1>5. n \in 0 .. Len(c.buffer) /\ n \in Nat
  BY <1>2
<1>6. /\ b \in Seq(Blocks) /\ Len(b) = Len(c.buffer) - n
      /\ \A i \in 1 .. Len(c.buffer) - n : b[i] = c.buffer[n + i]
  BY <1>1, <1>5, SplitBuffer
<1> HIDE DEF b
<1>7. /\ c.pos + c.lost + Len(c.buffer) <= FileLen
      /\ c.at_end <=> c.pos + c.lost + Len(c.buffer) = FileLen
  BY <1>1 DEF Inductive, Sound, UploadFits, Received
<1>8. c.pos + n \in 0 .. FileLen
  BY <1>1, <1>2, <1>5, <1>7
<1>9. /\ d \in Children /\ d.state = c.state /\ d.request = c.request /\ d.pos = c.pos + n
      /\ d.buffer = b /\ d.lost = c.lost /\ d.alone = c.alone /\ d.at_end = c.at_end
  BY <1>1, <1>6, <1>8 DEF Children
<1> HIDE DEF d
<1>10. /\ disk' \in [Names -> Seq(Blocks)]
       /\ \A m \in Names : Len(disk'[m]) <= FileLen
       /\ \A m \in Names \ {name} : disk'[m] = disk[m]
       /\ c.alone /\ c.lost = 0 => disk'[name] = Part(c.request, c.pos + n)
  BY <1>1, <1>3, <1>5, WrittenType
<1>11. TypeOK' /\ child'[s] = d /\ \A t \in Pids \ {s} : child'[t] = child[t]
  <2>1. sigchld' \in BOOLEAN /\ leftBy' \in [Names -> Transfers \cup {None}]
    BY <1>4 DEF Inductive, TypeOK
  <2> QED
    BY <1>4, <1>9, <1>10, <2>1, ChildType DEF Inductive
<1>12. UploadFits(s)'
  <2>1. Received(s)' = (c.pos + n) + c.lost + Len(b)
    BY <1>9, <1>11 DEF Received
  <2>2. Len(b) = Len(c.buffer) - n
    BY <1>6
  <2>3. Received(s)' = c.pos + c.lost + Len(c.buffer)
    BY <1>1, <1>2, <1>5, <2>1, <2>2
  <2>4. child'[s].at_end = c.at_end
    BY <1>9, <1>11
  <2> QED
    BY <1>7, <2>3, <2>4 DEF UploadFits
<1>13. UploadInOrder(s)'
  <2>1. ASSUME child'[s].alone, child'[s].lost = 0, NEW i \in 1 .. Len(b)
        PROVE  b[i] = Block(c.request, (c.pos + n) + i)
    <3>1. \A j \in 1 .. Len(c.buffer) : c.buffer[j] = Block(c.request, c.pos + j)
      BY <1>1, <1>9, <1>11, <2>1 DEF Inductive, Sound, UploadInOrder
    <3>2. Len(b) = Len(c.buffer) - n
      BY <1>6
    <3>3. n + i \in 1 .. Len(c.buffer) /\ i \in 1 .. Len(c.buffer) - n
      BY <1>2, <1>5, <3>2
    <3>4. c.pos + (n + i) = (c.pos + n) + i
      BY <1>1, <1>5, <3>3
    <3>5. b[i] = c.buffer[n + i]
      BY <1>6, <3>3
    <3> QED
      BY <3>1, <3>3, <3>4, <3>5
  <2>2. child'[s].alone /\ child'[s].lost = 0 => disk'[name] = Part(c.request, c.pos + n)
    BY <1>9, <1>10, <1>11
  <2> QED
    BY <1>9, <1>11, <2>1, <2>2 DEF UploadInOrder
<1>14. DownloadSoFar(s)'
  BY <1>1, <1>9, <1>11 DEF DownloadSoFar, Serves
<1> QED
  <2>1. UNCHANGED <<mainPc, sigchld, stopped, leftBy>>
    BY <1>4
  <2>2. child[s].state = "serving" /\ child'[s].state = "serving"
    BY <1>1, <1>9, <1>11 DEF Serves
  <2>3. \A m \in Names : disk'[m] = disk[m] \/ (Serves(s, "WRQ") /\ m = child[s].request.name)
    BY <1>1, <1>10
  <2>4. SignalsMatch' /\ (\A t \in Pids : Sound(t)') /\ (\A m \in Names : FileIsUpload(m)')
    BY <1>9, <1>11, <1>12, <1>13, <1>14, <2>1, <2>2, <2>3, ServingStep
  <2> QED
    BY <1>11, <2>4 DEF Inductive

(* What a failed write drops is counted: the blocks that are left are not in  *)
(* order any more.                                                            *)
LEMMA FlushFailsSound ==
  ASSUME Inductive, NEW s \in Pids, FlushFails(s)
  PROVE  Inductive'
<1> DEFINE c == child[s]
           name == c.request.name
<1>1. /\ Serves(s, "WRQ") /\ c \in Children /\ c.request \in Transfers
      /\ c.pos \in Nat /\ c.lost \in Nat /\ c.buffer \in Seq(Blocks)
  BY Running, ServerAssumption DEF FlushFails, Serves, Inductive, Children
<1>2. FileLen \in Nat /\ Len(c.buffer) \in Nat
  BY <1>1, ServerAssumption
<1>3. PICK n \in 0 .. Len(c.buffer) - 1 :
        /\ disk' = Written(s, n)
        /\ child' = [child EXCEPT ![s].pos = @ + n,
                                  ![s].lost = @ + Len(c.buffer) - n,
                                  ![s].buffer = <<>>]
  BY DEF FlushFails
<1> DEFINE l == c.lost + Len(c.buffer) - n
           d == [c EXCEPT !.pos = c.pos + n, !.lost = l, !.buffer = <<>>]
<1>4. child' = [child EXCEPT ![s] = d] /\ UNCHANGED <<mainPc, sigchld, stopped, copies, answered, leftBy>>
  <2>1. child \in [Pids -> Children \cup {NoChild, Zombie}]
    BY DEF Inductive, TypeOK
  <2> QED
    BY <1>3, <2>1 DEF FlushFails
<1>5. n \in 0 .. Len(c.buffer) /\ n \in Nat /\ Len(c.buffer) - n >= 1
  BY <1>2
<1>6. /\ c.pos + c.lost + Len(c.buffer) <= FileLen
      /\ c.at_end <=> c.pos + c.lost + Len(c.buffer) = FileLen
  BY <1>1 DEF Inductive, Sound, UploadFits, Received
<1>7. /\ c.pos + n \in 0 .. FileLen /\ l \in 0 .. FileLen /\ l >= 1
      /\ (c.pos + n) + l + 0 = c.pos + c.lost + Len(c.buffer)
  <2> DEFINE p == c.pos
             x == c.lost
             y == Len(c.buffer)
  <2>1. p \in Nat /\ x \in Nat /\ y \in Nat /\ l = x + y - n
    BY <1>1, <1>2
  <2>2. n \in Nat /\ n <= y /\ y - n >= 1
    BY <1>2, <1>5
  <2>3. p + x + y <= FileLen /\ FileLen \in Nat
    BY <1>2, <1>6
  <2> HIDE DEF p, x, y, l
  <2>4. p + n \in 0 .. FileLen /\ l \in 0 .. FileLen /\ l >= 1 /\ (p + n) + l + 0 = p + x + y
    BY <2>1, <2>2, <2>3
  <2> QED
    BY <2>4 DEF p, x, y
<1> HIDE DEF l
<1>8. /\ d \in Children /\ d.state = c.state /\ d.request = c.request /\ d.pos = c.pos + n
      /\ d.buffer = <<>> /\ d.lost = l /\ d.alone = c.alone /\ d.at_end = c.at_end
  <2>1. <<>> \in Seq(Blocks)
    OBVIOUS
  <2> QED
    BY <1>1, <1>7, <2>1 DEF Children
<1> HIDE DEF d
<1>9. /\ disk' \in [Names -> Seq(Blocks)]
      /\ \A m \in Names : Len(disk'[m]) <= FileLen
      /\ \A m \in Names \ {name} : disk'[m] = disk[m]
  BY <1>1, <1>3, <1>5, WrittenType
<1>10. TypeOK' /\ child'[s] = d /\ \A t \in Pids \ {s} : child'[t] = child[t]
  <2>1. sigchld' \in BOOLEAN /\ leftBy' \in [Names -> Transfers \cup {None}]
    BY <1>4 DEF Inductive, TypeOK
  <2> QED
    BY <1>4, <1>8, <1>9, <2>1, ChildType DEF Inductive
<1>11. UploadFits(s)'
  <2>1. Received(s)' = (c.pos + n) + l + 0
    BY <1>8, <1>10 DEF Received
  <2>2. child'[s].at_end = c.at_end
    BY <1>8, <1>10
  <2> QED
    BY <1>6, <1>7, <2>1, <2>2 DEF UploadFits
<1>12. UploadInOrder(s)' /\ DownloadSoFar(s)'
  BY <1>1, <1>7, <1>8, <1>10 DEF UploadInOrder, DownloadSoFar, Serves
<1> QED
  <2>1. UNCHANGED <<mainPc, sigchld, stopped, leftBy>>
    BY <1>4
  <2>2. child[s].state = "serving" /\ child'[s].state = "serving"
    BY <1>1, <1>8, <1>10 DEF Serves
  <2>3. \A m \in Names : disk'[m] = disk[m] \/ (Serves(s, "WRQ") /\ m = child[s].request.name)
    BY <1>1, <1>9
  <2>4. SignalsMatch' /\ (\A t \in Pids : Sound(t)') /\ (\A m \in Names : FileIsUpload(m)')
    BY <1>8, <1>10, <1>11, <1>12, <2>1, <2>2, <2>3, ServingStep
  <2> QED
    BY <1>10, <2>4 DEF Inductive

(* A download takes the next blocks of a file that nobody has touched since   *)
(* it was the whole of an upload, and ends where that upload ended.           *)
LEMMA ReadAheadSound ==
  ASSUME Inductive, NEW s \in Pids, ReadAhead(s)
  PROVE  Inductive'
<1> DEFINE c == child[s]
           name == c.request.name
           f == disk[name]
<1>1. /\ Serves(s, "RRQ") /\ ~c.at_end /\ c \in Children
      /\ c.request \in Transfers /\ name \in Names
      /\ c.pos \in 0 .. FileLen /\ c.buffer \in Seq(Blocks)
  BY Running DEF ReadAhead, Serves, Inductive, Children
<1>2. FileLen \in Nat /\ c.pos \in Nat
  BY <1>1, ServerAssumption
<1>3. f \in Seq(Blocks) /\ Len(f) <= FileLen /\ Len(f) \in Nat
  BY <1>1 DEF Inductive, TypeOK
<1>4. UNCHANGED <<mainPc, sigchld, stopped, copies, answered, files>>
  BY DEF ReadAhead
<1>5. PICK q \in 0 .. FileLen, b \in Seq(Blocks), e \in BOOLEAN :
        /\ child' = [child EXCEPT ![s] = [c EXCEPT !.pos = q, !.buffer = b, !.at_end = e]]
        /\ \/ q = c.pos /\ b = c.buffer /\ e /\ c.pos >= Len(f)
           \/ ~e /\ \E n \in 1 .. Len(f) - c.pos :
                      q = c.pos + n /\ b = c.buffer \o SubSeq(f, c.pos + 1, c.pos + n)
  <2>1. child \in [Pids -> Children \cup {NoChild, Zombie}]
    BY DEF Inductive, TypeOK
  <2>2. CASE c.pos >= Len(f)
    <3>1. child' = [child EXCEPT ![s].at_end = TRUE]
      BY <2>2 DEF ReadAhead
    <3>2. child' = [child EXCEPT ![s] = [c EXCEPT !.pos = c.pos, !.buffer = c.buffer, !.at_end = TRUE]]
      BY <1>1, <2>1, <3>1 DEF Children
    <3> QED
      BY <1>1, <2>2, <3>2
  <2>3. CASE ~(c.pos >= Len(f))
    <3>1. PICK n \in 1 .. Len(f) - c.pos :
            child' = [child EXCEPT ![s].pos = c.pos + n,
                                   ![s].buffer = @ \o SubSeq(f, c.pos + 1, c.pos + n)]
      BY <2>3 DEF ReadAhead
    <3> DEFINE b == c.buffer \o SubSeq(f, c.pos + 1, c.pos + n)
    <3>2. c.pos + n \in 0 .. FileLen
      BY <1>2, <1>3
    <3>3. b \in Seq(Blocks)
      <4>1. \A i \in 1 .. Len(f) : f[i] \in Blocks
        BY <1>3, ElementOfSeq
      <4>2. \A i \in c.pos + 1 .. c.pos + n : f[i] \in Blocks
        BY <1>2, <1>3, <4>1
      <4>3. SubSeq(f, c.pos + 1, c.pos + n) \in Seq(Blocks)
        BY <1>2, <4>2, SubSeqProperties
      <4> QED
        BY <1>1, <4>3, ConcatProperties
    <3> HIDE DEF b
    <3>4. child' = [child EXCEPT ![s] = [c EXCEPT !.pos = c.pos + n, !.buffer = b, !.at_end = FALSE]]
      <4>1. child' = [child EXCEPT ![s].pos = c.pos + n, ![s].buffer = b]
        BY <3>1 DEF b
      <4> QED
        BY <1>1, <2>1, <4>1 DEF Children
    <3> QED
      BY <3>2, <3>3, <3>4 DEF b
  <2> QED
    BY <2>2, <2>3
<1> DEFINE d == [c EXCEPT !.pos = q, !.buffer = b, !.at_end = e]
<1>6. /\ d \in Children /\ d.state = c.state /\ d.request = c.request /\ d.pos = q
      /\ d.buffer = b /\ d.alone = c.alone /\ d.at_end = e /\ d.expects = c.expects
  BY <1>1 DEF Children
<1>7. child' = [child EXCEPT ![s] = d]
  BY <1>5
<1> HIDE DEF d
<1>8. TypeOK' /\ child'[s] = d /\ \A t \in Pids \ {s} : child'[t] = child[t]
  BY <1>4, <1>6, <1>7, ChildType DEF Inductive, TypeOK, files
<1>9. UploadFits(s)' /\ UploadInOrder(s)'
  BY <1>1, <1>6, <1>8 DEF UploadFits, UploadInOrder, Serves
<1>10. DownloadSoFar(s)'
  <2> SUFFICES ASSUME c.alone, c.expects # None
               PROVE  /\ leftBy'[name] = c.expects
                      /\ b = Part(c.expects, q)
                      /\ e => q = FileLen
    BY <1>6, <1>8 DEF DownloadSoFar
  <2>1. leftBy[name] = c.expects /\ c.buffer = Part(c.expects, c.pos)
    BY <1>1 DEF Inductive, Sound, DownloadSoFar
  <2>2. f = Part(c.expects, FileLen)
    BY <1>1, <2>1 DEF Inductive, FileIsUpload
  <2>3. c.expects \in Transfers
    BY <1>1 DEF Children
  <2>4. Len(f) = FileLen
    BY <1>2, <2>2, <2>3, PartType
  <2>5. CASE q = c.pos /\ b = c.buffer /\ e /\ c.pos >= Len(f)
    <3>1. c.pos = FileLen
      BY <1>1, <1>2, <2>4, <2>5
    <3> QED
      BY <1>4, <2>1, <2>5, <3>1 DEF files
  <2>6. CASE ~e /\ \E n \in 1 .. Len(f) - c.pos :
                      q = c.pos + n /\ b = c.buffer \o SubSeq(f, c.pos + 1, c.pos + n)
    <3>1. PICK n \in 1 .. FileLen - c.pos :
            q = c.pos + n /\ b = Part(c.expects, c.pos)
                                 \o SubSeq(Part(c.expects, FileLen), c.pos + 1, c.pos + n)
      BY <2>1, <2>2, <2>4, <2>6
    <3>2. b = Part(c.expects, c.pos + n)
      <4>1. FileLen \in 0 .. FileLen
        BY <1>2
      <4> QED
        BY <1>1, <2>3, <3>1, <4>1, PartGrows
    <3> QED
      BY <1>4, <2>1, <2>6, <3>1, <3>2 DEF files
  <2> QED
    BY <1>5, <2>5, <2>6
<1> QED
  <2>1. UNCHANGED <<mainPc, sigchld, stopped, leftBy>> /\ disk' = disk
    BY <1>4 DEF files
  <2>2. child[s].state = "serving" /\ child'[s].state = "serving"
    BY <1>1, <1>6, <1>8 DEF Serves
  <2>3. SignalsMatch' /\ (\A t \in Pids : Sound(t)') /\ (\A m \in Names : FileIsUpload(m)')
    BY <1>6, <1>8, <1>9, <1>10, <2>1, <2>2, ServingStep
  <2> QED
    BY <1>8, <2>3 DEF Inductive

(* exit writes the rest of the buffer: the file of an upload that came to its *)
(* end alone is the whole of it, and nobody writes it any more.               *)
LEMMA EndSound ==
  ASSUME Inductive, NEW s \in Pids, End(s)
  PROVE  Inductive'
<1> DEFINE c == child[s]
           name == c.request.name
<1>1. /\ c.state \in {"starting", "serving"} /\ c \in Children
      /\ c.request \in Transfers /\ name \in Names
      /\ c.pos \in 0 .. FileLen /\ c.buffer \in Seq(Blocks)
  BY Running DEF End, Inductive, Children
<1>0. PICK w \in 0 .. Len(c.buffer) :
        /\ disk' = Flushed(s, w)
        /\ leftBy' = IF Serves(s, "WRQ") /\ IsWhole(c, w)
                       THEN [leftBy EXCEPT ![name] = c.request] ELSE leftBy
  BY DEF End
<1> DEFINE whole == Serves(s, "WRQ") /\ IsWhole(c, w)
<1>2. /\ leftBy' = IF whole THEN [leftBy EXCEPT ![name] = c.request] ELSE leftBy
      /\ child' = [child EXCEPT ![s] = Zombie]
      /\ sigchld' = TRUE
      /\ UNCHANGED <<mainPc, stopped, copies, answered>>
  BY <1>0 DEF End
<1>3. /\ disk \in [Names -> Seq(Blocks)] /\ \A n \in Names : Len(disk[n]) <= FileLen
      /\ leftBy \in [Names -> Transfers \cup {None}]
  BY DEF Inductive, TypeOK
<1> HIDE DEF whole
<1>4. /\ disk' \in [Names -> Seq(Blocks)]
      /\ \A m \in Names : Len(disk'[m]) <= FileLen
      /\ \A m \in Names : disk'[m] = disk[m] \/ (Serves(s, "WRQ") /\ m = name)
      /\ whole => disk'[name] = Part(c.request, FileLen)
  <2>1. CASE Serves(s, "WRQ")
    <3>1. disk' = Written(s, w)
      BY <1>0, <2>1 DEF Flushed
    <3>2. IsWhole(c, w) => c.alone /\ c.lost = 0 /\ c.pos + w = FileLen
      <4>1. c.pos \in Nat /\ Len(c.buffer) \in Nat
        BY <1>1, ServerAssumption
      <4> QED
        BY <2>1, <4>1 DEF Inductive, Sound, UploadFits, Received, IsWhole
    <3>3. /\ Written(s, w) \in [Names -> Seq(Blocks)]
          /\ \A m \in Names : Len(Written(s, w)[m]) <= FileLen
          /\ \A m \in Names \ {name} : Written(s, w)[m] = disk[m]
          /\ c.alone /\ c.lost = 0 => Written(s, w)[name] = Part(c.request, c.pos + w)
      BY <2>1, WrittenType
    <3> QED
      BY <2>1, <3>1, <3>2, <3>3 DEF whole
  <2>2. CASE ~Serves(s, "WRQ")
    BY <1>0, <1>3, <2>2 DEF Flushed, whole
  <2> QED
    BY <2>1, <2>2
<1>5. TypeOK' /\ child'[s] = Zombie /\ \A t \in Pids \ {s} : child'[t] = child[t]
  <2>1. leftBy' \in [Names -> Transfers \cup {None}]
    BY <1>1, <1>2, <1>3
  <2> QED
    BY <1>2, <1>4, <2>1, ChildType DEF Inductive
<1>6. SignalsMatch'
  <2>1. child'[s].state = "zombie" /\ \A t \in Pids \ {s} : child'[t].state = child[t].state
    BY <1>5 DEF Zombie
  <2>2. mainPc' = mainPc /\ stopped' = stopped
    BY <1>2
  <2> QED
    BY <1>1, <2>1, <2>2, SignalsOfChildren
<1>7. \A n : Writers(n)' = Writers(n) \ {s}
  BY <1>5 DEF Writers, Serves, Zombie
<1>8. \A n \in Names : leftBy'[n] = leftBy[n] \/ (whole /\ n = name /\ leftBy'[n] = c.request)
  BY <1>1, <1>2, <1>3
<1>9. ASSUME NEW t \in Pids PROVE Sound(t)'
  <2>1. CASE t = s
    BY <1>5, <2>1 DEF Zombie, Sound, Fresh, UploadFits, Exclusive, UploadInOrder, DownloadSoFar,
                      Serves
  <2>2. CASE t # s
    <3>1. ASSUME child[t].state = "serving", child[t].alone
          PROVE  /\ disk'[child[t].request.name] = disk[child[t].request.name]
                 /\ leftBy'[child[t].request.name] = leftBy[child[t].request.name]
      <4>1. child[t].request.name \in Names
        BY <3>1, Running DEF Inductive
      <4>2. Serves(s, "WRQ") => child[t].request.name # name
        BY <2>2, <3>1, AloneElsewhere
      <4> QED
        BY <1>4, <1>8, <4>1, <4>2 DEF whole
    <3>2. Writers(child[t].request.name)' \subseteq Writers(child[t].request.name)
      BY <1>5, <2>2 DEF Writers, Serves, Zombie
    <3> QED
      BY <1>5, <2>2, <3>1, <3>2, OthersStaySound DEF Inductive
  <2> QED
    BY <2>1, <2>2
<1>10. ASSUME NEW n \in Names PROVE FileIsUpload(n)'
  <2>1. CASE whole /\ n = name
    <3>1. Writers(name) \subseteq {s}
      BY <2>1 DEF whole, IsWhole, Serves, Inductive, Sound, Exclusive
    <3>2. leftBy'[n] = c.request
      BY <1>1, <1>2, <1>3, <2>1
    <3> QED
      BY <1>4, <1>7, <2>1, <3>1, <3>2 DEF FileIsUpload
  <2>2. CASE ~(whole /\ n = name)
    <3>1. leftBy'[n] = leftBy[n]
      BY <1>8, <2>2
    <3>2. CASE leftBy[n] = None
      BY <3>1, <3>2 DEF FileIsUpload
    <3>3. CASE leftBy[n] # None
      <4>1. Writers(n) = {} /\ disk[n] = Part(leftBy[n], FileLen)
        BY <3>3 DEF Inductive, FileIsUpload
      <4>2. disk'[n] = disk[n]
        BY <1>4, <3>3, LeftByNobodyWrites
      <4> QED
        BY <1>7, <3>1, <4>1, <4>2 DEF FileIsUpload
    <3> QED
      BY <3>2, <3>3
  <2> QED
    BY <2>1, <2>2
<1> QED
  BY <1>5, <1>6, <1>9, <1>10 DEF Inductive

(* A signal without a zombie is remembered in stopped. *)
LEMMA StopSound ==
  ASSUME Inductive, NEW s \in Pids, StopOrContinue(s)
  PROVE  Inductive'
<1>1. child' = child /\ UNCHANGED files /\ stopped' = TRUE
  BY DEF StopOrContinue
<1>2. TypeOK'
  BY <1>1 DEF StopOrContinue, Inductive, TypeOK, files
<1>3. SignalsMatch'
  BY <1>1 DEF SignalsMatch
<1> QED
  BY <1>1, <1>2, <1>3, QuietStep DEF Inductive

------------------------------------------------------------------------------
(* The invariant, and what it gives. *)

(* Every step keeps the invariant, and doing nothing does. *)
LEMMA InductiveStep == Inductive /\ [Next]_vars => Inductive'
<1> SUFFICES ASSUME Inductive, [Next]_vars PROVE Inductive'
  OBVIOUS
<1>1. ASSUME NEW r \in Requests, TakeRequest(r) PROVE Inductive'
  BY <1>1, TakeRequestSound
<1>2. CASE EnterHandler
  BY <1>2, EnterHandlerSound
<1>3. CASE WaitForChild
  BY <1>3, WaitForChildSound
<1>4. ASSUME NEW s \in Pids, Open(s) PROVE Inductive'
  BY <1>4, OpenSound
<1>5. ASSUME NEW s \in Pids, TakeBlock(s) PROVE Inductive'
  BY <1>5, TakeBlockSound
<1>6. ASSUME NEW s \in Pids, Flush(s) PROVE Inductive'
  BY <1>6, FlushSound
<1>7. ASSUME NEW s \in Pids, ReadAhead(s) PROVE Inductive'
  BY <1>7, ReadAheadSound
<1>8. ASSUME NEW s \in Pids, End(s) PROVE Inductive'
  BY <1>8, EndSound
<1>10. ASSUME NEW s \in Pids, FlushFails(s) PROVE Inductive'
  BY <1>10, FlushFailsSound
<1>11. ASSUME NEW s \in Pids, StopOrContinue(s) PROVE Inductive'
  BY <1>11, StopSound
<1>9. CASE UNCHANGED vars
  <2>1. TypeOK' /\ SignalsMatch'
    BY <1>9 DEF vars, Inductive, TypeOK, SignalsMatch, Zombies
  <2>2. (\A s \in Pids : Sound(s)') /\ (\A n \in Names : FileIsUpload(n)')
    <3>1. child' = child /\ UNCHANGED files
      BY <1>9 DEF vars, files
    <3> QED
      BY <3>1, QuietStep
  <2> QED
    BY <2>1, <2>2 DEF Inductive
<1> QED
  BY <1>1, <1>2, <1>3, <1>4, <1>5, <1>6, <1>7, <1>8, <1>9, <1>10, <1>11
  DEF Next, Dispatch, ChildStep

(* In every reachable state. *)
LEMMA Invariance == Spec => []Inductive
BY InductiveInit, InductiveStep, PTL DEF Spec

(* The variables keep their types: no file grows beyond an upload, no child   *)
(* takes more blocks than that, and every process has a record of its own.    *)
THEOREM TypeCorrect == Spec => []TypeOK
<1>1. Inductive => TypeOK
  BY DEF Inductive
<1> QED
  BY <1>1, Invariance, PTL

(* handle_zombie finds a child to reap whenever it runs, although SIGCHLD is  *)
(* not counted: for every order of ends, signals and requests, the wait in    *)
(* the handler does not keep the dispatcher from its socket, as long as no    *)
(* child is stopped or let go on.                                             *)
THEOREM HandlerFindsZombie == Spec => []HandlerNeverBlocks
<1>1. Inductive => HandlerNeverBlocks
  BY DEF Inductive, SignalsMatch, HandlerNeverBlocks
<1> QED
  BY <1>1, Invariance, PTL

(* What a child that writes alone has acknowledged is in its file or in its   *)
(* buffer, in order and without anything of an older file, however stdio cuts *)
(* its writes and whatever the other children do meanwhile, until a write     *)
(* fails.                                                                     *)
THEOREM UploadIsKept == Spec => []UndisturbedUpload
<1>1. Inductive => UndisturbedUpload
  <2> SUFFICES ASSUME Inductive, NEW s \in Pids, Serves(s, "WRQ"), child[s].alone,
                      child[s].lost = 0
               PROVE  disk[child[s].request.name] \o child[s].buffer
                        = Part(child[s].request, Received(s))
    BY DEF UndisturbedUpload
  <2> DEFINE r == child[s].request
             p == child[s].pos
             b == child[s].buffer
  <2>1. r \in Transfers /\ p \in 0 .. FileLen /\ b \in Seq(Blocks)
    BY Running DEF Serves, Inductive, Children
  <2>2. FileLen \in Nat /\ p \in Nat /\ Len(b) \in Nat
    BY <2>1, ServerAssumption
  <2>3. p + Len(b) \in 0 .. FileLen /\ Received(s) = p + Len(b)
    BY <2>2 DEF Inductive, Sound, UploadFits, Received
  <2>4. disk[r.name] = Part(r, p) /\ \A i \in 1 .. Len(b) : b[i] = Block(r, p + i)
    BY DEF Inductive, Sound, UploadInOrder
  <2> HIDE DEF r, p, b
  <2>5. /\ Part(r, p) \in Seq(Blocks) /\ Len(Part(r, p)) = p
        /\ \A i \in 1 .. p : Part(r, p)[i] = Block(r, i)
    BY <2>1, PartType
  <2>6. /\ Part(r, p + Len(b)) \in Seq(Blocks) /\ Len(Part(r, p + Len(b))) = p + Len(b)
        /\ \A i \in 1 .. p + Len(b) : Part(r, p + Len(b))[i] = Block(r, i)
    BY <2>1, <2>3, PartType
  <2>7. Part(r, p) \o b \in Seq(Blocks) /\ Len(Part(r, p) \o b) = p + Len(b)
    BY <2>1, <2>5, ConcatProperties
  <2>8. ASSUME NEW i \in 1 .. p + Len(b) PROVE (Part(r, p) \o b)[i] = Block(r, i)
    <3>1. CASE i <= p
      <4>1. i \in 1 .. p
        BY <2>2, <3>1
      <4>2. (Part(r, p) \o b)[i] = Part(r, p)[i]
        BY <2>1, <2>2, <2>5, <4>1
      <4> QED
        BY <2>5, <4>1, <4>2
    <3>2. CASE i > p
      <4>1. i - p \in 1 .. Len(b) /\ p + (i - p) = i
        BY <2>2, <3>2
      <4>2. (Part(r, p) \o b)[i] = b[i - p]
        BY <2>1, <2>2, <2>5, <3>2, <4>1
      <4> QED
        BY <2>4, <4>1, <4>2
    <3>3. i <= p \/ i > p
      BY <2>2
    <3> QED
      BY <3>1, <3>2, <3>3
  <2>9. Part(r, p) \o b = Part(r, p + Len(b))
    BY <2>6, <2>7, <2>8, SeqEqual
  <2> QED
    BY <2>3, <2>4, <2>9 DEF r, p, b
<1> QED
  BY <1>1, Invariance, PTL

(* A download that began after the child of a complete upload had ended,      *)
(* without a failure of the disk, and during which nobody opened the file for *)
(* writing, brings all of the upload.                                         *)
THEOREM DownloadIsComplete == Spec => []DownloadIsTheUpload
<1>1. Inductive => DownloadIsTheUpload
  BY DEF Inductive, Sound, DownloadSoFar, DownloadIsTheUpload
<1> QED
  BY <1>1, Invariance, PTL
=============================================================================
