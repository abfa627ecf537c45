--------------------------- MODULE TftpWriteProofs ---------------------------
(* Proofs about TftpWrite, for every retry limit, width of the block number,  *)
(* size of the file and choice of faults but a full disk, which the child     *)
(* does not notice.                                                           *)
EXTENDS TftpWrite, TLAPS

------------------------------------------------------------------------------
(* Arithmetic of wrapping block numbers. *)

(* A wrapped number fits its width. *)
LEMMA ModRange == \A n \in Nat : n % BlockMod \in 0 .. (BlockMod - 1)
  BY ChildAssumption

(* Quotient and remainder make up the number. *)
LEMMA ModDiv ==
  \A n \in Nat : n \div BlockMod \in Nat
              /\ n = (BlockMod * (n \div BlockMod)) + (n % BlockMod)
  BY ChildAssumption

(* block_number++ of a wrapped number is the wrapped next number. *)
LEMMA ModNext == \A n \in Nat : ((n % BlockMod) + 1) % BlockMod = (n + 1) % BlockMod
  BY ChildAssumption, ModRange, ModDiv

(* Different multiples of BlockMod are at least BlockMod apart. *)
LEMMA Multiples ==
  ASSUME NEW i \in Nat, NEW j \in Nat, i < j
  PROVE  (BlockMod * j) - (BlockMod * i) >= BlockMod
<1>1. (BlockMod * j) - (BlockMod * i) = BlockMod * (j - i)
  BY ChildAssumption
<1>2. \A k \in Nat \ {0} : BlockMod * k >= BlockMod
  BY ChildAssumption
<1>3. QED
  BY <1>1, <1>2

(* Numbers less than BlockMod apart are told apart by what is on the wire. *)
LEMMA ModInjective ==
  ASSUME NEW a \in Nat, NEW b \in Nat,
         a % BlockMod = b % BlockMod, a < b + BlockMod, b < a + BlockMod
  PROVE  a = b
<1> DEFINE i == a \div BlockMod
           j == b \div BlockMod
           r == a % BlockMod
<1>1. /\ i \in Nat /\ j \in Nat /\ r \in Nat
      /\ a = (BlockMod * i) + r /\ b = (BlockMod * j) + r
  BY ModDiv, ModRange
<1> HIDE DEF i, j, r
<1>2. BlockMod * i \in Nat /\ BlockMod * j \in Nat
  BY <1>1, ChildAssumption
<1>3. ~(i < j) /\ ~(j < i)
  BY <1>1, <1>2, Multiples, ChildAssumption
<1>4. i = j
  BY <1>1, <1>3
<1>5. QED
  BY <1>1, <1>4

(* Appending the next block keeps a copy in order. *)
LEMMA AppendNext ==
  ASSUME NEW s \in Seq(1 .. NumBlocks), NEW n \in 1 .. NumBlocks,
         s = [i \in 1 .. Len(s) |-> i], n = Len(s) + 1
  PROVE  /\ Append(s, n) \in Seq(1 .. NumBlocks)
         /\ Len(Append(s, n)) = n
         /\ Append(s, n) = [i \in 1 .. Len(Append(s, n)) |-> i]
  OBVIOUS

------------------------------------------------------------------------------
(* The datagrams of either side have their type. *)
LEMMA FrameType ==
  \A op \in {"DATA", "ACK", "ERR", "OTHER", "SHORT"},
     block \in 0 .. (BlockMod - 1), at \in 0 .. NumBlocks :
    Frame(op, block, at) \in Frames
  BY DEF Frame, Frames

(* An ERROR is a datagram and neither DATA nor ACK. *)
LEMMA ErrorFrameType ==
  \A code \in Nat : ErrorFrame(code) \in Frames /\ ErrorFrame(code).op = "ERR"
  BY ChildAssumption, ModRange, FrameType DEF ErrorFrame, Frame

(* Receiving adds nothing to the network. *)
LEMMA TakeSubset == \A net, p : Take(net, p) \subseteq net
  BY DEF Take

DiskHasRoom == "disk" \notin Faults

(* The DATA the child stores is the block after the ones it has, and the one  *)
(* the client is working on.                                                  *)
LEMMA MatchingData ==
  ASSUME Inductive, NEW p \in toServer, p.op = "DATA", Alive(p, accepted),
         BlockMatches(p), pc = "wait"
  PROVE  p.at = accepted + 1 /\ p.at = sent
<1>1. /\ accepted \in Nat /\ sent \in Nat /\ p.at \in Nat
      /\ p.at <= sent /\ p.at + Lifetime > accepted
      /\ sent \in {accepted, accepted + 1}
  BY DEF Inductive, TypeOK, Lockstep, DataSent, Alive
<1>2. p.at % BlockMod = (accepted + 1) % BlockMod
  BY <1>1, ModNext DEF Inductive, DataSent, Progress, BlockMatches, NextBlock
<1>3. p.at < accepted + 1 + BlockMod /\ accepted + 1 < p.at + BlockMod
  BY <1>1, ChildAssumption
<1>4. p.at = accepted + 1
  BY <1>1, <1>2, <1>3, ModInjective
<1>5. QED
  BY <1>1, <1>4

(* The ACK that lets the client go on is for the block it is sending. *)
LEMMA ExpectedAck ==
  ASSUME Inductive, NEW p \in toClient, p.op = "ACK", Alive(p, sent), ClientExpects(p)
  PROVE  p.at = sent /\ accepted = sent
<1>1. /\ accepted \in Nat /\ sent \in Nat /\ p.at \in Nat
      /\ p.at <= accepted /\ p.at + Lifetime > sent
      /\ sent \in {accepted, accepted + 1}
  BY DEF Inductive, TypeOK, Lockstep, AcksSent, Alive
<1>2. p.at % BlockMod = sent % BlockMod
  BY DEF Inductive, AcksSent, ClientExpects
<1>3. p.at < sent + BlockMod /\ sent < p.at + BlockMod
  BY <1>1, ChildAssumption
<1>4. p.at = sent
  BY <1>1, <1>2, <1>3, ModInjective
<1>5. QED
  BY <1>1, <1>4

------------------------------------------------------------------------------
(* The invariant holds at the start of a session. *)
LEMMA InductiveInit == Init => Inductive
<1> SUFFICES ASSUME Init PROVE Inductive
  OBVIOUS
<1> USE ChildAssumption DEF Init, ChildInit
<1>1. TypeOK
  <2>1. /\ request \in Requests /\ flag \in BOOLEAN
        /\ toClient \subseteq Frames /\ toServer \subseteq Frames
    OBVIOUS
  <2>2. /\ block_number \in 0 .. (BlockMod - 1) /\ retryAttempts \in 0 .. RetryLimit
        /\ accepted \in 0 .. NumBlocks /\ sent \in 0 .. NumBlocks
        /\ stored \in Seq(1 .. NumBlocks)
    OBVIOUS
  <2>3. QED
    BY <2>1, <2>2 DEF TypeOK, ChildTypeOK
<1>2. InOrder /\ Lockstep /\ DataSent /\ AcksSent
  BY DEF InOrder, Lockstep, DataSent, AcksSent
<1>3. Progress
  BY ModRange DEF Progress
<1>4. QED
  BY <1>1, <1>2, <1>3 DEF Inductive

(* Every way to end but success keeps the invariant. *)
LEMMA Ending ==
  ASSUME Inductive, pc # "exit", pc' = "exit",
         outcome' \in {"noSocket", "rejected", "sendFailed", "recvFailed", "shortFrame",
                       "unknownOpcode", "ackInvalid"},
         UNCHANGED <<request, writeVars>>,
         retryAttempts' \in 0 .. RetryLimit, flag' \in BOOLEAN,
         block_number' \in 0 .. (BlockMod - 1),
         toServer' \subseteq toServer,
         toClient' \subseteq toClient \cup {ErrorFrame(UNDEFINED), ErrorFrame(FILE_NOT_FOUND)}
  PROVE  Inductive'
<1>1. outcome = "none"
  BY DEF Inductive, TypeOK, ChildTypeOK
<1>2. TypeOK'
  BY ErrorFrameType DEF Inductive, TypeOK, ChildTypeOK, writeVars, UNDEFINED, FILE_NOT_FOUND
<1>3. InOrder' /\ Lockstep'
  BY DEF Inductive, InOrder, Lockstep, writeVars
<1>4. Progress'
  BY <1>1 DEF Inductive, Progress, writeVars
<1>5. AcksSent'
  BY <1>1, ErrorFrameType DEF Inductive, AcksSent, writeVars, UNDEFINED, FILE_NOT_FOUND
<1>6. DataSent'
  BY DEF Inductive, DataSent, writeVars
<1>7. QED
  BY <1>2, <1>3, <1>4, <1>5, <1>6 DEF Inductive

(* So does all that happens outside the child and adds no block and no ACK. *)
LEMMA Outside ==
  ASSUME Inductive,
         UNCHANGED <<request, pc, outcome, block_number, retryAttempts, flag,
                     accepted, stored, sent>>,
         client' = client \/ (client = "sending" /\ client' = "failed"),
         toClient' \subseteq toClient,
         toServer' \subseteq toServer \cup {p \in Frames : p.op # "DATA"}
  PROVE  Inductive'
<1>1. TypeOK'
  BY DEF Inductive, TypeOK, ChildTypeOK
<1>2. InOrder' /\ Lockstep'
  BY DEF Inductive, InOrder, Lockstep
<1>3. Progress'
  BY DEF Inductive, Progress
<1>4. DataSent' /\ AcksSent'
  BY DEF Inductive, DataSent, AcksSent
<1>5. QED
  BY <1>1, <1>2, <1>3, <1>4 DEF Inductive

------------------------------------------------------------------------------
(* The request is acknowledged with block 0. *)
LEMMA AcceptRequestStep ==
  ASSUME Inductive, AcceptRequest PROVE Inductive'
<1> USE ChildAssumption DEF AcceptRequest, Ack
<1> DEFINE a == Frame("ACK", 0, 0)
<1>1. /\ a \in Frames /\ a.op = "ACK" /\ a.block = 0 % BlockMod /\ a.at = 0
  BY FrameType, ModRange DEF Frame
<1>2. TypeOK'
  BY <1>1 DEF Inductive, TypeOK, ChildTypeOK, writeVars
<1>3. InOrder' /\ Lockstep' /\ DataSent'
  BY DEF Inductive, InOrder, Lockstep, DataSent, writeVars
<1>4. Progress'
  BY DEF Inductive, Progress, writeVars
<1>5. AcksSent'
  BY <1>1 DEF Inductive, AcksSent, TypeOK, writeVars
<1>6. QED
  BY <1>2, <1>3, <1>4, <1>5 DEF Inductive

(* A timeout repeats the last ACK, and costs an attempt or ends the session. *)
LEMMA TimeoutStep ==
  ASSUME Inductive, Timeout PROVE Inductive'
<1> USE DEF Timeout, OneLess, Exhausted, Ack, RetryNumber, Exit
<1> DEFINE a == Frame("ACK", block_number, accepted)
<1>1. /\ retryAttempts \in 1 .. RetryLimit /\ RetryLimit \in Nat
      /\ accepted \in 0 .. NumBlocks /\ accepted # NumBlocks
      /\ block_number = accepted % BlockMod /\ block_number \in 0 .. (BlockMod - 1)
      /\ outcome = "none"
  BY ChildAssumption DEF Inductive, TypeOK, ChildTypeOK, Progress
<1>2. /\ a \in Frames /\ a.op = "ACK" /\ a.block = accepted % BlockMod /\ a.at = accepted
  BY <1>1, FrameType DEF Frame
<1>3. /\ retryAttempts' \in 0 .. RetryLimit
      /\ \/ pc' = "exit" /\ outcome' = "retries"
         \/ pc' = "wait" /\ outcome' = outcome /\ retryAttempts' > 0
  BY <1>1
<1>4. TypeOK'
  <2>1. toClient' \subseteq Frames
    BY <1>2 DEF Inductive, TypeOK, ChildTypeOK
  <2>2. QED
    BY <1>1, <1>3, <2>1 DEF Inductive, TypeOK, ChildTypeOK, writeVars
<1>5. InOrder' /\ Lockstep' /\ DataSent'
  BY DEF Inductive, InOrder, Lockstep, DataSent, writeVars
<1>6. Progress'
  BY <1>1, <1>3 DEF Inductive, Progress, writeVars
<1>7. AcksSent'
  <2>1. \A p \in toClient : p.op = "ACK" => p.at # NumBlocks
    BY <1>1 DEF Inductive, AcksSent
  <2>2. QED
    BY <1>1, <1>2, <2>1 DEF Inductive, AcksSent, writeVars
<1>8. QED
  BY <1>4, <1>5, <1>6, <1>7 DEF Inductive

(* A stored block is the next one of the file. *)
LEMMA StoreFacts ==
  ASSUME Inductive, DiskHasRoom, NEW p \in toServer, Store(p)
  PROVE  /\ accepted' \in 1 .. NumBlocks /\ accepted' = accepted + 1 /\ sent = accepted'
         /\ block_number' = accepted' % BlockMod
         /\ flag' = (accepted' = NumBlocks)
         /\ stored' \in Seq(1 .. NumBlocks) /\ Len(stored') = accepted'
         /\ InOrder'
         /\ toServer' \subseteq toServer /\ outcome = "none" /\ client # "complete"
<1> USE DEF Store, Advance, Receive
<1>1. p.at = accepted + 1 /\ p.at = sent
  BY MatchingData
<1>2. /\ p.at \in 1 .. NumBlocks /\ accepted \in Nat /\ Len(stored) = accepted
      /\ stored \in Seq(1 .. NumBlocks) /\ block_number = accepted % BlockMod
  BY <1>1, ChildAssumption DEF Inductive, TypeOK, DataSent, Progress
<1>3. stored' = Append(stored, p.at)
  BY DEF Write, DiskHasRoom
<1>4. /\ stored' \in Seq(1 .. NumBlocks) /\ Len(stored') = accepted'
      /\ stored' = [i \in 1 .. Len(stored') |-> i]
  BY <1>1, <1>2, <1>3, AppendNext DEF Inductive, InOrder
<1>5. block_number' = accepted' % BlockMod
  BY <1>2, ModNext DEF NextBlock
<1>6. flag' = (accepted' = NumBlocks)
  BY <1>1 DEF ShortBlock
<1>7. outcome = "none" /\ client # "complete"
  BY DEF Inductive, TypeOK, ChildTypeOK, Progress
<1>8. QED
  BY <1>1, <1>2, <1>4, <1>5, <1>6, <1>7, TakeSubset DEF InOrder

(* Storing and acknowledging a block keeps the invariant ... *)
LEMMA StoreAndAckStep ==
  ASSUME Inductive, DiskHasRoom, NEW p \in toServer, StoreAndAck(p) PROVE Inductive'
<1> DEFINE a == Frame("ACK", block_number', accepted')
<1>1. Store(p)
  BY DEF StoreAndAck
<1>2. /\ UNCHANGED <<request, sent, client>> /\ toClient' = toClient \cup {a}
      /\ retryAttempts' = RetryLimit
      /\ IF flag' THEN pc' = "exit" /\ outcome' = "success" ELSE UNCHANGED <<pc, outcome>>
      /\ pc = "wait"
  BY DEF StoreAndAck, Store, Advance, Receive, Ack, Exit
<1>3. /\ accepted' \in 1 .. NumBlocks /\ accepted' = accepted + 1 /\ sent = accepted'
      /\ block_number' = accepted' % BlockMod /\ block_number' \in 0 .. (BlockMod - 1)
      /\ flag' = (accepted' = NumBlocks)
      /\ stored' \in Seq(1 .. NumBlocks) /\ Len(stored') = accepted'
      /\ toServer' \subseteq toServer /\ outcome = "none" /\ client # "complete"
  BY <1>1, StoreFacts, ModRange
<1>4. /\ a \in Frames /\ a.op = "ACK" /\ a.block = accepted' % BlockMod /\ a.at = accepted'
  BY <1>3, FrameType DEF Frame
<1>5. TypeOK'
  <2>1. toClient' \subseteq Frames /\ toServer' \subseteq Frames
    BY <1>2, <1>3, <1>4 DEF Inductive, TypeOK, ChildTypeOK
  <2>2. flag' \in BOOLEAN /\ retryAttempts' \in 0 .. RetryLimit /\ accepted' \in 0 .. NumBlocks
    BY <1>2, <1>3, ChildAssumption
  <2>3. (outcome' = "none") <=> (pc' # "exit")
    BY <1>2, <1>3
  <2>4. QED
    BY <1>2, <1>3, <2>1, <2>2, <2>3 DEF Inductive, TypeOK, ChildTypeOK
<1>6. InOrder' /\ Lockstep'
  BY <1>1, <1>2, <1>3, StoreFacts DEF Lockstep
<1>7. DataSent'
  BY <1>2, <1>3 DEF Inductive, DataSent
<1>8. Progress'
  <2>1. CASE accepted' = NumBlocks
    BY <1>2, <1>3, <2>1 DEF Progress
  <2>2. CASE accepted' # NumBlocks
    <3>1. UNCHANGED <<pc, outcome>> /\ accepted' < NumBlocks
      <4>1. ~flag'
        BY <1>3, <2>2
      <4>2. accepted' < NumBlocks
        BY <1>3, <2>2, ChildAssumption
      <4>3. QED
        BY <1>2, <4>1, <4>2
    <3>2. RetryLimit > 0
      BY ChildAssumption
    <3>3. QED
      BY <1>2, <1>3, <3>1, <3>2 DEF Progress
  <2>3. QED
    BY <2>1, <2>2
<1>9. AcksSent'
  <2>1. \A q \in toClient : q.op = "ACK" =>
          q.at \in 0 .. accepted' /\ q.block = q.at % BlockMod /\ q.at # NumBlocks
    BY <1>3 DEF Inductive, AcksSent, TypeOK
  <2>2. a.at = NumBlocks => outcome' = "success"
    BY <1>2, <1>3, <1>4
  <2>3. QED
    BY <1>2, <1>3, <1>4, <2>1, <2>2 DEF AcksSent
<1>10. QED
  BY <1>5, <1>6, <1>7, <1>8, <1>9 DEF Inductive

(* ... and so does storing one whose ACK cannot be sent. *)
LEMMA StoreAckFailsStep ==
  ASSUME Inductive, DiskHasRoom, NEW p \in toServer, StoreAckFails(p) PROVE Inductive'
<1>1. Store(p)
  BY DEF StoreAckFails
<1>2. /\ UNCHANGED <<request, sent, client, toClient, retryAttempts>>
      /\ pc' = "exit" /\ outcome' = "sendFailed"
  BY DEF StoreAckFails, Store, Advance, Exit
<1>3. /\ accepted' \in 1 .. NumBlocks /\ accepted' = accepted + 1 /\ sent = accepted'
      /\ block_number' = accepted' % BlockMod /\ block_number' \in 0 .. (BlockMod - 1)
      /\ flag' = (accepted' = NumBlocks)
      /\ stored' \in Seq(1 .. NumBlocks) /\ Len(stored') = accepted'
      /\ toServer' \subseteq toServer /\ outcome = "none" /\ client # "complete"
  BY <1>1, StoreFacts, ModRange
<1>4. TypeOK'
  <2>1. flag' \in BOOLEAN /\ accepted' \in 0 .. NumBlocks
    BY <1>3
  <2>2. QED
    BY <1>2, <1>3, <2>1 DEF Inductive, TypeOK, ChildTypeOK
<1>5. InOrder' /\ Lockstep'
  BY <1>1, <1>2, <1>3, StoreFacts DEF Lockstep
<1>6. DataSent' /\ Progress'
  BY <1>2, <1>3 DEF Inductive, DataSent, Progress
<1>7. AcksSent'
  BY <1>2, <1>3 DEF Inductive, AcksSent, TypeOK
<1>8. QED
  BY <1>4, <1>5, <1>6, <1>7 DEF Inductive

(* The client sends the next block, or has sent the last. *)
LEMMA ClientSendsStep ==
  ASSUME Inductive, NEW p \in toClient, ClientSends(p) PROVE Inductive'
<1> USE ChildAssumption DEF ClientSends, Arrives, ServerUnchanged
<1>1. p.at = sent /\ accepted = sent
  BY ExpectedAck
<1>2. toClient' \subseteq toClient
  BY TakeSubset
<1>3. CASE sent = NumBlocks
  <2>1. outcome = "success"
    BY <1>1, <1>3 DEF Inductive, AcksSent
  <2>2. client' = "complete" /\ UNCHANGED <<sent, toServer>>
    BY <1>3
  <2>3. TypeOK'
    BY <1>2, <2>2 DEF Inductive, TypeOK, ChildTypeOK
  <2>4. InOrder' /\ Lockstep' /\ DataSent' /\ AcksSent' /\ Progress'
    BY <1>2, <2>1, <2>2 DEF Inductive, InOrder, Lockstep, DataSent, AcksSent, Progress
  <2>5. QED
    BY <2>3, <2>4 DEF Inductive
<1>4. CASE sent # NumBlocks
  <2> DEFINE d == Frame("DATA", (sent + 1) % BlockMod, sent + 1)
  <2>1. sent' = sent + 1 /\ toServer' = toServer \cup {d} /\ UNCHANGED client
    BY <1>4 DEF Data
  <2>2. sent \in 0 .. NumBlocks /\ sent + 1 \in 1 .. NumBlocks
    BY <1>4 DEF Inductive, TypeOK
  <2>3. /\ d \in Frames /\ d.op = "DATA" /\ d.block = (sent + 1) % BlockMod
        /\ d.at = sent + 1
    BY <2>2, FrameType, ModRange DEF Frame
  <2>4. TypeOK'
    BY <1>2, <2>1, <2>2, <2>3 DEF Inductive, TypeOK, ChildTypeOK
  <2>5. InOrder' /\ Lockstep' /\ AcksSent' /\ Progress'
    BY <1>1, <1>2, <2>1, <2>2 DEF Inductive, InOrder, Lockstep, AcksSent, Progress
  <2>6. DataSent'
    BY <2>1, <2>2, <2>3 DEF Inductive, DataSent
  <2>7. QED
    BY <2>4, <2>5, <2>6 DEF Inductive
<1>5. QED
  BY <1>3, <1>4

(* The client sends its block again. *)
LEMMA ClientResendsStep ==
  ASSUME Inductive, sent > 0, toServer' = Data(sent), toClient' \subseteq toClient,
         ServerUnchanged, UNCHANGED <<sent, client>>
  PROVE  Inductive'
<1> USE ChildAssumption DEF ServerUnchanged, Data
<1> DEFINE d == Frame("DATA", sent % BlockMod, sent)
<1>1. sent \in 1 .. NumBlocks
  BY DEF Inductive, TypeOK
<1>2. /\ d \in Frames /\ d.op = "DATA" /\ d.block = sent % BlockMod /\ d.at = sent
  BY <1>1, FrameType, ModRange DEF Frame
<1>3. TypeOK'
  BY <1>2 DEF Inductive, TypeOK, ChildTypeOK
<1>4. InOrder' /\ Lockstep' /\ AcksSent' /\ Progress'
  BY DEF Inductive, InOrder, Lockstep, AcksSent, Progress
<1>5. DataSent'
  BY <1>1, <1>2 DEF Inductive, DataSent
<1>6. QED
  BY <1>3, <1>4, <1>5 DEF Inductive

(* Every step of the child keeps the invariant. *)
LEMMA ServerKeeps ==
  ASSUME Inductive, DiskHasRoom, ServerStep PROVE Inductive'
<1>1. /\ retryAttempts \in 0 .. RetryLimit /\ flag \in BOOLEAN
      /\ block_number \in 0 .. (BlockMod - 1)
  BY DEF Inductive, TypeOK, ChildTypeOK
<1>2. CASE AcceptRequest
  BY <1>2, AcceptRequestStep
<1>3. CASE AcceptFails \/ TimeoutAckFails
  BY <1>1, <1>3, Ending DEF AcceptFails, TimeoutAckFails, Exit
<1>4. CASE Timeout
  BY <1>4, TimeoutStep
<1>5. CASE (NoSocket \/ RejectRequest \/ RecvFails) /\ UNCHANGED writeVars
  BY <1>1, <1>5, Ending DEF NoSocket, RejectRequest, RecvFails, Exit
<1>6. ASSUME NEW p \in toServer, RefuseBlock(p) \/ RefuseOpcode(p) PROVE Inductive'
  <2>1. /\ block_number' \in 0 .. (BlockMod - 1) /\ flag' \in BOOLEAN
    <3>1. block_number' = NextBlock /\ flag' = ShortBlock(p)
      BY <1>6 DEF RefuseBlock, RefuseOpcode, Advance
    <3>2. NextBlock \in 0 .. (BlockMod - 1) /\ ShortBlock(p) \in BOOLEAN
      BY <1>1, ModRange DEF NextBlock, ShortBlock
    <3>3. QED
      BY <3>1, <3>2
  <2>2. toServer' \subseteq toServer /\ pc # "exit"
    BY <1>6, TakeSubset DEF RefuseBlock, RefuseOpcode, Advance, Receive
  <2>3. QED
    BY <1>1, <1>6, <2>1, <2>2, Ending DEF RefuseBlock, RefuseOpcode, Advance, Refuse, Exit
<1>7. ASSUME NEW p \in toServer, ReceiveShort(p, accepted), UNCHANGED writeVars
      PROVE  Inductive'
  <2>1. toServer' \subseteq toServer /\ pc # "exit"
    BY <1>7, TakeSubset DEF ReceiveShort, Receive
  <2>2. QED
    BY <1>1, <1>7, <2>1, Ending DEF ReceiveShort, Refuse, Exit
<1>8. ASSUME NEW p \in toServer, StoreAndAck(p) \/ StoreAckFails(p) PROVE Inductive'
  BY <1>8, StoreAndAckStep, StoreAckFailsStep
<1>9. QED
  BY <1>2, <1>3, <1>4, <1>5, <1>6, <1>7, <1>8 DEF ServerStep

(* So does every step of the client and of the network. *)
LEMMA OthersKeep ==
  ASSUME Inductive, ClientStep \/ ((Lose \/ Stray) /\ UNCHANGED writeVars)
  PROVE  Inductive'
<1>1. ASSUME NEW p \in toClient, ClientSends(p) PROVE Inductive'
  BY <1>1, ClientSendsStep
<1>2. ASSUME NEW p \in toClient, ClientIgnoresAck(p) \/ ClientGetsError(p)
      PROVE  Inductive'
  BY <1>2, Outside, TakeSubset
  DEF ClientIgnoresAck, ClientGetsError, Arrives, ServerUnchanged
<1>3. CASE ClientQuits
  <2>1. ErrorFrame(UNDEFINED) \in {p \in Frames : p.op # "DATA"}
    BY ErrorFrameType DEF UNDEFINED
  <2>2. QED
    BY <1>3, <2>1, Outside DEF ClientQuits, ServerUnchanged
<1>4. CASE ClientResends
  BY <1>4, ClientResendsStep DEF ClientResends
<1>5. CASE Lose /\ UNCHANGED writeVars
  BY <1>5, Outside DEF Lose, writeVars
<1>6. CASE Stray /\ UNCHANGED writeVars
  <2>1. PICK op \in {"OTHER", "SHORT"}, block \in {0, 1 % BlockMod} :
          toServer' = toServer \cup {Frame(op, block, 0)}
    BY <1>6 DEF Stray
  <2>2. block \in 0 .. (BlockMod - 1) /\ 0 \in 0 .. NumBlocks
    BY ChildAssumption, ModRange
  <2>3. Frame(op, block, 0) \in {p \in Frames : p.op # "DATA"}
    BY <2>2, FrameType DEF Frame
  <2>4. QED
    BY <1>6, <2>1, <2>3, Outside DEF Stray, writeVars
<1>8. ASSUME NEW p \in toClient, ClientRepeatsData(p) PROVE Inductive'
  <2>1. sent > 0 /\ toServer' = Data(sent) /\ ServerUnchanged /\ UNCHANGED <<sent, client>>
    BY <1>8 DEF ClientRepeatsData, ClientRepeats, Arrives
  <2>2. toClient' \subseteq toClient
    BY <1>8, TakeSubset DEF ClientRepeatsData, Arrives
  <2> QED
    BY <2>1, <2>2, ClientResendsStep
<1>7. QED
  BY <1>1, <1>2, <1>3, <1>4, <1>5, <1>6, <1>8 DEF ClientStep

(* The invariant is inductive. *)
LEMMA InductiveStep == DiskHasRoom /\ Inductive /\ [Next]_vars => Inductive'
<1> SUFFICES ASSUME DiskHasRoom, Inductive, [Next]_vars PROVE Inductive'
  OBVIOUS
<1>1. CASE Next
  BY <1>1, ServerKeeps, OthersKeep DEF Next
<1>2. CASE UNCHANGED vars
  BY <1>2, Outside DEF vars, childVars, writeVars
<1>3. QED
  BY <1>1, <1>2

------------------------------------------------------------------------------
(* Inductive holds of every write session whose disk has room. *)
THEOREM InductiveHolds == ASSUME DiskHasRoom PROVE Spec => []Inductive
<1>1. Init => Inductive
  BY InductiveInit
<1>2. Inductive /\ [Next]_vars => Inductive'
  BY InductiveStep
<1>3. QED
  BY <1>1, <1>2, PTL DEF Spec

(* The stored file is an initial part of what the client sends. *)
THEOREM StoredInOrder == ASSUME DiskHasRoom PROVE Spec => []InOrder
<1>1. Inductive => InOrder
  BY DEF Inductive
<1>2. QED
  BY <1>1, InductiveHolds, PTL

(* What the client was told is received is in the file, and a client that is  *)
(* done left the whole file behind.                                           *)
THEOREM AcknowledgedIsStored == ASSUME DiskHasRoom PROVE Spec => []AckedIsStored
<1>1. Inductive => AckedIsStored
  BY DEF Inductive, AckedIsStored, Progress, Lockstep, TypeOK
<1>2. QED
  BY <1>1, InductiveHolds, PTL

(* The client is on the block the child waits for or has just acknowledged. *)
THEOREM StaysInLockstep == ASSUME DiskHasRoom PROVE Spec => []Lockstep
<1>1. Inductive => Lockstep
  BY DEF Inductive
<1>2. QED
  BY <1>1, InductiveHolds, PTL

------------------------------------------------------------------------------
(* The child implements FileTransfer. *)

(* A session starts as a transfer does. *)
LEMMA RefinesInit == Init => Transfer!Init
  BY DEF Init, ChildInit, Transfer!Init

(* A stored block makes the copy grow. *)
LEMMA RefinesStore ==
  ASSUME Inductive, DiskHasRoom, NEW p \in toServer, StoreAndAck(p) \/ StoreAckFails(p)
  PROVE  Transfer!Next
<1>1. Store(p)
  BY DEF StoreAndAck, StoreAckFails
<1>2. p.at = accepted + 1 /\ client' = client
  BY <1>1, MatchingData DEF Store, Advance, Receive
<1>3. /\ accepted' \in 1 .. NumBlocks /\ accepted' = accepted + 1 /\ Len(stored) = accepted
      /\ stored' = Append(stored, Len(stored) + 1) /\ Len(stored') = accepted'
      /\ flag' = (accepted' = NumBlocks) /\ outcome = "none"
  BY <1>1, <1>2, StoreFacts DEF Store, Write, DiskHasRoom, Inductive, Progress
<1>4. Len(stored) < NumBlocks /\ (Len(stored') = NumBlocks \/ Len(stored') < NumBlocks)
  BY <1>2, <1>3, ChildAssumption DEF Inductive, TypeOK
<1>5. \/ flag' /\ outcome' = "success"
      \/ ~flag' /\ outcome' = "none"
      \/ outcome' = "sendFailed"
  BY <1>3 DEF StoreAndAck, StoreAckFails, Exit
<1>6. Transfer!Grow
  BY <1>2, <1>3, <1>4, <1>5 DEF Transfer!Grow
<1>7. QED
  BY <1>6 DEF Transfer!Next

(* The other steps of the child: failures, and steps the transfer does not see. *)
LEMMA RefinesServer ==
  ASSUME Inductive, DiskHasRoom, ServerStep PROVE Transfer!Next \/ UNCHANGED Transfer!vars
<1> USE DEF Transfer!vars
<1>1. ASSUME outcome = "none", UNCHANGED <<stored, client>>,
             outcome' \in {"noSocket", "rejected", "sendFailed", "recvFailed",
                           "shortFrame", "retries", "unknownOpcode", "ackInvalid"}
      PROVE  Transfer!Next
  BY <1>1 DEF Transfer!Next, Transfer!ReceiverFails
<1>2. pc # "exit" => outcome = "none"
  BY DEF Inductive, TypeOK, ChildTypeOK
<1>3. CASE AcceptRequest
  BY <1>3 DEF AcceptRequest, writeVars
<1>4. CASE AcceptFails \/ Timeout \/ TimeoutAckFails
  BY <1>1, <1>2, <1>4 DEF AcceptFails, Timeout, TimeoutAckFails, Exit, writeVars
<1>5. CASE (NoSocket \/ RejectRequest \/ RecvFails) /\ UNCHANGED writeVars
  BY <1>1, <1>2, <1>5 DEF NoSocket, RejectRequest, RecvFails, Exit, writeVars
<1>6. ASSUME NEW p \in toServer,
             \/ RefuseBlock(p) \/ RefuseOpcode(p)
             \/ ReceiveShort(p, accepted) /\ UNCHANGED writeVars
      PROVE  Transfer!Next
  BY <1>1, <1>2, <1>6
  DEF RefuseBlock, RefuseOpcode, Advance, ReceiveShort, Receive, Refuse, Exit, writeVars
<1>7. ASSUME NEW p \in toServer, StoreAndAck(p) \/ StoreAckFails(p)
      PROVE  Transfer!Next
  BY <1>7, RefinesStore
<1>8. QED
  BY <1>3, <1>4, <1>5, <1>6, <1>7 DEF ServerStep

(* Every step is one of the transfer or leaves it as it is. *)
LEMMA RefinesStep ==
  DiskHasRoom /\ Inductive /\ [Next]_vars => [Transfer!Next]_(Transfer!vars)
<1> SUFFICES ASSUME DiskHasRoom, Inductive, [Next]_vars
             PROVE  Transfer!Next \/ UNCHANGED Transfer!vars
  OBVIOUS
<1>1. CASE ServerStep
  BY <1>1, RefinesServer
<1>2. ASSUME NEW p \in toClient, ClientSends(p)
      PROVE  Transfer!Next \/ UNCHANGED Transfer!vars
  <2> USE DEF ClientSends, Arrives, ServerUnchanged, ClientExpects
  <2>1. CASE sent = NumBlocks
    <3>1. outcome = "success"
      BY <1>2, <2>1, ExpectedAck DEF Inductive, AcksSent
    <3>2. Transfer!Confirm
      BY <1>2, <2>1, <3>1 DEF Transfer!Confirm
    <3>3. QED
      BY <3>2 DEF Transfer!Next
  <2>2. CASE sent # NumBlocks
    BY <1>2, <2>2 DEF Transfer!vars
  <2>3. QED
    BY <2>1, <2>2
<1>3. ASSUME UNCHANGED <<outcome, stored>>,
             client' = client \/ (client = "sending" /\ client' = "failed")
      PROVE  Transfer!Next \/ UNCHANGED Transfer!vars
  BY <1>3 DEF Transfer!Next, Transfer!SenderFails, Transfer!vars
<1>4. ASSUME NEW p \in toClient,
             ClientRepeatsData(p) \/ ClientIgnoresAck(p) \/ ClientGetsError(p)
      PROVE  Transfer!Next \/ UNCHANGED Transfer!vars
  BY <1>3, <1>4
  DEF ClientRepeatsData, ClientIgnoresAck, ClientGetsError, Arrives, ServerUnchanged
<1>5. CASE ClientQuits \/ ClientResends
  BY <1>3, <1>5 DEF ClientQuits, ClientResends, ServerUnchanged
<1>6. CASE (Lose \/ Stray) /\ UNCHANGED writeVars
  BY <1>3, <1>6 DEF Lose, Stray, writeVars
<1>7. CASE UNCHANGED vars
  BY <1>3, <1>7 DEF vars, childVars, writeVars
<1>8. QED
  BY <1>1, <1>2, <1>4, <1>5, <1>6, <1>7 DEF Next, ClientStep

(* A write session of the server whose disk has room is, in any network and   *)
(* with any client, a behaviour of FileTransfer.                              *)
THEOREM WriteImplementsTransfer == ASSUME DiskHasRoom PROVE Spec => ImplementsTransfer
<1>1. Inductive /\ [Next]_vars => [Transfer!Next]_(Transfer!vars)
  BY RefinesStep
<1>2. QED
  BY RefinesInit, <1>1, InductiveHolds, PTL DEF Spec, ImplementsTransfer, Transfer!Spec
=============================================================================
