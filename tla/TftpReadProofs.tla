--------------------------- MODULE TftpReadProofs ---------------------------
(* Proofs about TftpRead, for every retry limit, width of the block number,   *)
(* size of the file and choice of faults. Inductive is the invariant; with it *)
(* and ModInjective an expected DATA is the next block and a matching ACK is  *)
(* for the block just sent.                                                   *)
EXTENDS TftpRead, TLAPS

------------------------------------------------------------------------------
(* Arithmetic of wrapping block numbers. *)

(* A wrapped number fits its width. *)
LEMMA ModRange == \A n \in Nat : n % BlockMod \in 0 .. (BlockMod - 1)
  BY ChildAssumption

(* Quotient and remainder make up the number. *)
LEMMA ModDiv ==
  \A n \in Nat : n \div BlockMod \in Nat
              /\ n = (BlockMod * (n \div BlockMod)) + (n % BlockMod)
  BY ChildAssumption

(* block_number++ of a wrapped number is the wrapped next number. *)
LEMMA ModNext == \A n \in Nat : ((n % BlockMod) + 1) % BlockMod = (n + 1) % BlockMod
  BY ChildAssumption, ModRange, ModDiv

(* Different multiples of BlockMod are at least BlockMod apart. *)
LEMMA Multiples ==
  ASSUME NEW i \in Nat, NEW j \in Nat, i < j
  PROVE  (BlockMod * j) - (BlockMod * i) >= BlockMod
<1>1. (BlockMod * j) - (BlockMod * i) = BlockMod * (j - i)
  BY ChildAssumption
<1>2. \A k \in Nat \ {0} : BlockMod * k >= BlockMod
  BY ChildAssumption
<1>3. QED
  BY <1>1, <1>2

(* Numbers less than BlockMod apart are told apart by what is on the wire. *)
LEMMA ModInjective ==
  ASSUME NEW a \in Nat, NEW b \in Nat,
         a % BlockMod = b % BlockMod, a < b + BlockMod, b < a + BlockMod
  PROVE  a = b
<1> DEFINE i == a \div BlockMod
           j == b \div BlockMod
           r == a % BlockMod
<1>1. /\ i \in Nat /\ j \in Nat /\ r \in Nat
      /\ a = (BlockMod * i) + r /\ b = (BlockMod * j) + r
  BY ModDiv, ModRange
<1> HIDE DEF i, j, r
<1>2. BlockMod * i \in Nat /\ BlockMod * j \in Nat
  BY <1>1, ChildAssumption
<1>3. ~(i < j) /\ ~(j < i)
  BY <1>1, <1>2, Multiples, ChildAssumption
<1>4. i = j
  BY <1>1, <1>3
<1>5. QED
  BY <1>1, <1>4

(* Appending the next block keeps a copy in order. *)
LEMMA AppendNext ==
  ASSUME NEW s \in Seq(1 .. NumBlocks), NEW n \in 1 .. NumBlocks,
         s = [i \in 1 .. Len(s) |-> i], n = Len(s) + 1
  PROVE  /\ Append(s, n) \in Seq(1 .. NumBlocks)
         /\ Len(Append(s, n)) = n
         /\ Append(s, n) = [i \in 1 .. Len(Append(s, n)) |-> i]
  OBVIOUS

------------------------------------------------------------------------------
(* The datagrams of either side have their type. *)
LEMMA FrameType ==
  \A op \in {"DATA", "ACK", "ERR", "OTHER", "SHORT"},
     block \in 0 .. (BlockMod - 1), at \in 0 .. NumBlocks :
    Frame(op, block, at) \in Frames
  BY DEF Frame, Frames

(* An ERROR is a datagram and neither DATA nor ACK. *)
LEMMA ErrorFrameType ==
  \A code \in Nat : ErrorFrame(code) \in Frames /\ ErrorFrame(code).op = "ERR"
  BY ChildAssumption, ModRange, FrameType DEF ErrorFrame, Frame

(* Receiving adds nothing to the network. *)
LEMMA TakeSubset == \A net, p : Take(net, p) \subseteq net
  BY DEF Take

------------------------------------------------------------------------------
(* block_number++ of a wrapped number is the wrapped next number. *)
LEMMA NextBlockWraps == \A n \in Nat : NextBlock(n % BlockMod) = (n + 1) % BlockMod
  BY ModNext DEF NextBlock

(* An expected block that arrives is the one after the last the client has. *)
LEMMA ExpectedData ==
  ASSUME Inductive, NEW p \in toClient, p.op = "DATA", Alive(p, filePos),
         ClientExpects(p)
  PROVE  p.at = Len(received) + 1 /\ p.at = filePos
<1>1. /\ filePos \in Nat /\ Len(received) \in Nat /\ p.at \in Nat
      /\ p.at <= filePos /\ p.at + Lifetime > filePos
      /\ Len(received) \in {filePos - 1, filePos}
  BY DEF Inductive, TypeOK, Lockstep, DataSent, Alive
<1>2. p.at % BlockMod = (Len(received) + 1) % BlockMod
  BY DEF Inductive, DataSent, ClientExpects
<1>3. p.at < Len(received) + 1 + BlockMod /\ Len(received) + 1 < p.at + BlockMod
  BY <1>1, ChildAssumption
<1>4. p.at = Len(received) + 1
  BY <1>1, <1>2, <1>3, ModInjective
<1>5. QED
  BY <1>1, <1>4

(* A matching ACK that is delivered is for the block just sent. *)
LEMMA MatchingAck ==
  ASSUME Inductive, NEW p \in toServer, p.op = "ACK", Alive(p, filePos),
         AckMatches(p)
  PROVE  Len(received) = filePos
<1>1. /\ filePos \in Nat /\ Len(received) \in Nat /\ p.at \in Nat
      /\ p.at <= Len(received) /\ p.at + Lifetime > filePos
      /\ Len(received) \in {filePos - 1, filePos}
  BY DEF Inductive, TypeOK, Lockstep, AcksSent, Alive
<1>2. p.at % BlockMod = filePos % BlockMod
  BY DEF Inductive, AcksSent, Progress, AckMatches
<1>3. p.at < filePos + BlockMod /\ filePos < p.at + BlockMod
  BY <1>1, ChildAssumption
<1>4. p.at = filePos
  BY <1>1, <1>2, <1>3, ModInjective
<1>5. QED
  BY <1>1, <1>4

------------------------------------------------------------------------------
(* The invariant holds at the start of a session. *)
LEMMA InductiveInit == Init => Inductive
<1> SUFFICES ASSUME Init PROVE Inductive
  OBVIOUS
<1> USE ChildAssumption DEF Init, ChildInit
<1>1. TypeOK
  <2>1. /\ request \in Requests /\ flag \in BOOLEAN
        /\ toClient \subseteq Frames /\ toServer \subseteq Frames
    OBVIOUS
  <2>2. /\ block_number \in 0 .. (BlockMod - 1) /\ retryAttempts \in 0 .. RetryLimit
        /\ filePos \in 0 .. NumBlocks /\ received \in Seq(1 .. NumBlocks)
    OBVIOUS
  <2>3. QED
    BY <2>1, <2>2 DEF TypeOK, ChildTypeOK
<1>2. InOrder /\ Lockstep /\ DataSent /\ AcksSent
  BY DEF InOrder, Lockstep, DataSent, AcksSent
<1>3. Progress
  BY DEF Progress, LastBlock
<1>4. QED
  BY <1>1, <1>2, <1>3 DEF Inductive

(* Every way to end but success keeps the invariant. *)
LEMMA Ending ==
  ASSUME Inductive, pc' = "exit",
         outcome' \in {"noSocket", "rejected", "sendFailed", "recvFailed", "shortFrame",
                       "retries", "clientError", "unknownOpcode", "ackInvalid"},
         UNCHANGED <<request, block_number, flag, readVars>>,
         retryAttempts' \in 0 .. RetryLimit,
         toServer' \subseteq toServer,
         toClient' \subseteq toClient \cup {ErrorFrame(UNDEFINED), ErrorFrame(FILE_NOT_FOUND)}
  PROVE  Inductive'
<1>1. TypeOK'
  BY ErrorFrameType DEF Inductive, TypeOK, ChildTypeOK, readVars, UNDEFINED, FILE_NOT_FOUND
<1>2. InOrder' /\ Lockstep'
  BY DEF Inductive, InOrder, Lockstep, readVars
<1>3. Progress'
  BY DEF Inductive, Progress, readVars, LastBlock
<1>4. DataSent'
  BY ErrorFrameType DEF Inductive, DataSent, readVars, UNDEFINED, FILE_NOT_FOUND
<1>5. AcksSent'
  BY DEF Inductive, AcksSent, readVars
<1>6. QED
  BY <1>1, <1>2, <1>3, <1>4, <1>5 DEF Inductive

(* So does all that happens outside the child and adds no block and no ACK. *)
LEMMA Outside ==
  ASSUME Inductive,
         UNCHANGED <<request, pc, outcome, block_number, retryAttempts, flag,
                     filePos, received>>,
         client' = client \/ (client = "receiving" /\ client' = "failed"),
         toClient' \subseteq toClient,
         toServer' \subseteq toServer \cup {p \in Frames : p.op # "ACK"}
  PROVE  Inductive'
<1>1. TypeOK'
  BY DEF Inductive, TypeOK, ChildTypeOK
<1>2. InOrder' /\ Lockstep'
  BY DEF Inductive, InOrder, Lockstep
<1>3. Progress'
  BY DEF Inductive, Progress, LastBlock
<1>4. DataSent' /\ AcksSent'
  BY DEF Inductive, DataSent, AcksSent
<1>5. QED
  BY <1>1, <1>2, <1>3, <1>4 DEF Inductive

------------------------------------------------------------------------------
(* A new block is read only when the client has the previous one. *)
LEMMA ReadBlockStep ==
  ASSUME Inductive, ReadBlock PROVE Inductive'
<1> USE ChildAssumption DEF ReadBlock
<1>1. /\ filePos \in 0 .. NumBlocks /\ filePos # NumBlocks
      /\ Len(received) = filePos
      /\ block_number = filePos % BlockMod
  BY DEF Inductive, TypeOK, Progress, Lockstep, LastBlock
<1>2. block_number' = filePos' % BlockMod
  BY <1>1, NextBlockWraps
<1>3. TypeOK'
  <2>1. filePos' \in 0 .. NumBlocks
    BY <1>1
  <2>2. block_number' \in 0 .. (BlockMod - 1)
    BY <1>2, <2>1, ModRange
  <2>3. flag' \in BOOLEAN
    BY DEF LastBlock
  <2>4. QED
    BY <2>1, <2>2, <2>3 DEF Inductive, TypeOK, ChildTypeOK
<1>4. InOrder' /\ Lockstep'
  BY <1>1 DEF Inductive, InOrder, Lockstep, TypeOK
<1>5. Progress'
  <2>1. flag' <=> LastBlock(filePos)'
    BY DEF LastBlock
  <2>2. outcome # "success"
    BY DEF Inductive, TypeOK, ChildTypeOK
  <2>3. QED
    BY <1>1, <1>2, <2>1, <2>2 DEF Inductive, Progress
<1>6. DataSent' /\ AcksSent'
  BY <1>1 DEF Inductive, DataSent, AcksSent
<1>7. QED
  BY <1>3, <1>4, <1>5, <1>6 DEF Inductive

(* The datagram sent carries the block under its number. *)
LEMMA SendDataStep ==
  ASSUME Inductive, SendData PROVE Inductive'
<1> USE ChildAssumption DEF SendData
<1> DEFINE p == Frame("DATA", block_number, Payload)
<1>1. /\ filePos \in 1 .. NumBlocks
      /\ block_number = filePos % BlockMod /\ block_number \in 0 .. (BlockMod - 1)
  BY DEF Inductive, TypeOK, ChildTypeOK, Progress
<1>2. p \in Frames /\ p.op = "DATA" /\ p.block = block_number /\ p.at = filePos
  BY <1>1, FrameType DEF Frame, Payload
<1>3. TypeOK'
  BY <1>2 DEF Inductive, TypeOK, ChildTypeOK, readVars
<1>4. InOrder' /\ Lockstep' /\ AcksSent'
  BY DEF Inductive, InOrder, Lockstep, AcksSent, readVars
<1>5. Progress'
  BY DEF Inductive, Progress, readVars, LastBlock
<1>6. DataSent'
  BY <1>1, <1>2 DEF Inductive, DataSent, readVars
<1>7. QED
  BY <1>3, <1>4, <1>5, <1>6 DEF Inductive

(* A timeout costs an attempt and changes nothing else, or ends the session. *)
LEMMA TimeoutStep ==
  ASSUME Inductive, Timeout PROVE Inductive'
<1> USE DEF Timeout, OneLess, Exhausted
<1>1. retryAttempts \in 1 .. RetryLimit /\ RetryLimit \in Nat
  BY ChildAssumption DEF Inductive, TypeOK, ChildTypeOK, Progress
<1>2. CASE retryAttempts' = 0
  BY <1>1, <1>2, Ending DEF Exit, readVars
<1>3. CASE retryAttempts' # 0
  <2>1. retryAttempts' \in 1 .. RetryLimit /\ pc' = "send" /\ UNCHANGED outcome
    BY <1>1, <1>3
  <2>2. TypeOK'
    BY <2>1 DEF Inductive, TypeOK, ChildTypeOK, readVars
  <2>3. InOrder' /\ Lockstep' /\ DataSent' /\ AcksSent'
    BY <2>1 DEF Inductive, InOrder, Lockstep, DataSent, AcksSent, readVars
  <2>4. Progress'
    BY <2>1 DEF Inductive, Progress, readVars, LastBlock
  <2>5. QED
    BY <2>2, <2>3, <2>4 DEF Inductive
<1>4. QED
  BY <1>2, <1>3

(* A matching ACK lets the child go on, or succeed after the last block. *)
LEMMA ReceiveAckStep ==
  ASSUME Inductive, NEW p \in toServer, ReceiveAck(p) PROVE Inductive'
<1> USE DEF ReceiveAck, Receive, Exit
<1>1. Len(received) = filePos
  BY MatchingAck
<1>2. toServer' \subseteq toServer
  BY TakeSubset
<1>3. TypeOK'
  BY <1>2 DEF Inductive, TypeOK, ChildTypeOK, readVars
<1>4. InOrder' /\ Lockstep' /\ DataSent' /\ AcksSent'
  BY <1>1, <1>2 DEF Inductive, InOrder, Lockstep, DataSent, AcksSent, readVars
<1>5. Progress'
  BY <1>1 DEF Inductive, Progress, readVars, LastBlock
<1>6. QED
  BY <1>3, <1>4, <1>5 DEF Inductive

(* The client takes the next block and acknowledges it. *)
LEMMA ClientReceivesStep ==
  ASSUME Inductive, NEW p \in toClient, ClientReceives(p) PROVE Inductive'
<1> USE ChildAssumption DEF ClientReceives, Arrives, ServerUnchanged
<1>1. p.at = Len(received) + 1 /\ p.at = filePos
  BY ExpectedData
<1>2. /\ p.at \in 1 .. NumBlocks /\ p.block = p.at % BlockMod
      /\ p.block \in 0 .. (BlockMod - 1)
  BY <1>1 DEF Inductive, TypeOK, ChildTypeOK, DataSent, Frames
<1>3. /\ received' \in Seq(1 .. NumBlocks) /\ Len(received') = filePos
      /\ received' = [i \in 1 .. Len(received') |-> i]
  BY <1>1, <1>2, AppendNext DEF Inductive, TypeOK, InOrder
<1>4. toClient' \subseteq toClient
  BY TakeSubset
<1> DEFINE a == Frame("ACK", p.block, p.at)
<1>5. a \in Frames /\ a.op = "ACK" /\ a.block = p.block /\ a.at = p.at
  BY <1>2, FrameType DEF Frame
<1>6. TypeOK'
  BY <1>3, <1>4, <1>5 DEF Inductive, TypeOK, ChildTypeOK, ClientExpects
<1>7. InOrder' /\ Lockstep' /\ DataSent'
  BY <1>3, <1>4 DEF Inductive, InOrder, Lockstep, DataSent, TypeOK
<1>8. AcksSent'
  BY <1>1, <1>2, <1>3, <1>5 DEF Inductive, AcksSent, TypeOK
<1>9. Progress'
  <2>1. client' = "complete" <=> Len(received') = NumBlocks
    BY <1>1, <1>3 DEF ClientExpects, LastBlock
  <2>2. outcome # "success"
    BY <1>1 DEF Inductive, Progress, TypeOK
  <2>3. QED
    BY <2>1, <2>2 DEF Inductive, Progress, LastBlock
<1>10. QED
  BY <1>6, <1>7, <1>8, <1>9 DEF Inductive

(* A repeated ACK is for the block the client has. *)
LEMMA ClientRepeatsAckStep ==
  ASSUME Inductive, NEW p \in toClient, ClientRepeatsAck(p) PROVE Inductive'
<1> USE ChildAssumption DEF ClientRepeatsAck, Arrives, ServerUnchanged
<1>1. toClient' \subseteq toClient
  BY TakeSubset
<1>2. CASE UNCHANGED toServer
  BY <1>1, <1>2, Outside
<1>3. CASE ~UNCHANGED toServer
  <2> DEFINE a == Frame("ACK", p.block, Len(received))
  <2>1. /\ received # <<>> /\ p.block = Len(received) % BlockMod
        /\ toServer' = toServer \cup {a}
    BY <1>3
  <2>2. Len(received) \in 1 .. NumBlocks
    BY <2>1 DEF Inductive, TypeOK, Lockstep
  <2>3. a \in Frames /\ a.op = "ACK" /\ a.block = p.block /\ a.at = Len(received)
    BY <2>1, <2>2, FrameType, ModRange DEF Frame
  <2>4. TypeOK'
    BY <1>1, <2>1, <2>3 DEF Inductive, TypeOK, ChildTypeOK
  <2>5. InOrder' /\ Lockstep' /\ DataSent'
    BY <1>1 DEF Inductive, InOrder, Lockstep, DataSent
  <2>6. AcksSent'
    BY <2>1, <2>2, <2>3 DEF Inductive, AcksSent
  <2>7. Progress'
    BY DEF Inductive, Progress, LastBlock
  <2>8. QED
    BY <2>4, <2>5, <2>6, <2>7 DEF Inductive
<1>4. QED
  BY <1>2, <1>3

(* Every step of the child keeps the invariant. *)
LEMMA ServerKeeps ==
  ASSUME Inductive, ServerStep PROVE Inductive'
<1>1. retryAttempts \in 0 .. RetryLimit
  BY DEF Inductive, TypeOK, ChildTypeOK
<1>2. CASE AcceptRequest
  <2>1. filePos = 0 /\ Len(received) = 0 /\ ~flag
    BY <1>2 DEF AcceptRequest, Inductive, Progress, TypeOK, Lockstep
  <2>2. TypeOK'
    BY <1>2 DEF AcceptRequest, Inductive, TypeOK, ChildTypeOK, readVars
  <2>3. InOrder' /\ Lockstep' /\ DataSent' /\ AcksSent'
    BY <1>2, <2>1
    DEF AcceptRequest, Inductive, InOrder, Lockstep, DataSent, AcksSent, readVars
  <2>4. Progress'
    BY <1>2, <2>1 DEF AcceptRequest, Inductive, Progress, readVars, LastBlock
  <2>5. QED
    BY <2>2, <2>3, <2>4 DEF Inductive
<1>3. CASE ReadBlock
  BY <1>3, ReadBlockStep
<1>4. CASE SendData
  BY <1>4, SendDataStep
<1>5. CASE SendFails
  BY <1>1, <1>5, Ending DEF SendFails, Exit
<1>6. CASE Timeout
  BY <1>6, TimeoutStep
<1>7. CASE (NoSocket \/ RejectRequest \/ RecvFails) /\ UNCHANGED readVars
  BY <1>1, <1>7, Ending DEF NoSocket, RejectRequest, RecvFails, Exit
<1>8. ASSUME NEW p \in toServer,
             \/ ReceiveError(p) \/ ReceiveUnknown(p) \/ RefuseAck(p)
             \/ ReceiveShort(p, filePos) /\ UNCHANGED readVars
      PROVE  Inductive'
  <2>1. toServer' \subseteq toServer
    BY <1>8, TakeSubset DEF ReceiveError, ReceiveUnknown, RefuseAck, ReceiveShort, Receive
  <2>2. QED
    BY <1>1, <1>8, <2>1, Ending
    DEF ReceiveError, ReceiveUnknown, RefuseAck, ReceiveShort, Refuse, Exit
<1>9. ASSUME NEW p \in toServer, ReceiveAck(p) PROVE Inductive'
  BY <1>9, ReceiveAckStep
<1>10. QED
  BY <1>2, <1>3, <1>4, <1>5, <1>6, <1>7, <1>8, <1>9 DEF ServerStep

(* So does every step of the client and of the network. *)
LEMMA OthersKeep ==
  ASSUME Inductive, ClientStep \/ ((Lose \/ Stray) /\ UNCHANGED readVars)
  PROVE  Inductive'
<1>1. ASSUME NEW p \in toClient, ClientReceives(p) PROVE Inductive'
  BY <1>1, ClientReceivesStep
<1>2. ASSUME NEW p \in toClient, ClientRepeatsAck(p) PROVE Inductive'
  BY <1>2, ClientRepeatsAckStep
<1>3. ASSUME NEW p \in toClient, ClientGetsError(p) PROVE Inductive'
  BY <1>3, Outside, TakeSubset DEF ClientGetsError, Arrives, ServerUnchanged
<1>4. CASE ClientQuits
  <2>1. ErrorFrame(UNDEFINED) \in {p \in Frames : p.op # "ACK"}
    BY ErrorFrameType DEF UNDEFINED
  <2>2. QED
    BY <1>4, <2>1, Outside DEF ClientQuits, ServerUnchanged
<1>5. CASE Lose /\ UNCHANGED readVars
  BY <1>5, Outside DEF Lose, readVars
<1>6. CASE Stray /\ UNCHANGED readVars
  <2>1. PICK op \in {"OTHER", "SHORT"}, block \in {0, 1 % BlockMod} :
          toServer' = toServer \cup {Frame(op, block, 0)}
    BY <1>6 DEF Stray
  <2>2. block \in 0 .. (BlockMod - 1) /\ 0 \in 0 .. NumBlocks
    BY ChildAssumption, ModRange
  <2>3. Frame(op, block, 0) \in {p \in Frames : p.op # "ACK"}
    BY <2>2, FrameType DEF Frame
  <2>4. QED
    BY <1>6, <2>1, <2>3, Outside DEF Stray, readVars
<1>7. QED
  BY <1>1, <1>2, <1>3, <1>4, <1>5, <1>6 DEF ClientStep

(* The invariant is inductive. *)
LEMMA InductiveStep == Inductive /\ [Next]_vars => Inductive'
<1> SUFFICES ASSUME Inductive, [Next]_vars PROVE Inductive'
  OBVIOUS
<1>1. CASE Next
  BY <1>1, ServerKeeps, OthersKeep DEF Next
<1>2. CASE UNCHANGED vars
  BY <1>2, Outside DEF vars, childVars, readVars
<1>3. QED
  BY <1>1, <1>2

------------------------------------------------------------------------------
(* Inductive holds of every read session, in every network. *)
THEOREM InductiveHolds == Spec => []Inductive
  BY InductiveInit, InductiveStep, PTL DEF Spec

(* Type correctness: in particular block_number stays within uint16_t and     *)
(* retryAttempts within 0 .. RETRY_LIMIT.                                     *)
THEOREM TypeCorrect == Spec => []TypeOK
<1>1. Inductive => TypeOK
  BY DEF Inductive
<1>2. QED
  BY <1>1, InductiveHolds, PTL

(* The client holds an initial part of the file, whatever the network does. *)
THEOREM CopyInOrder == Spec => []InOrder
<1>1. Inductive => InOrder
  BY DEF Inductive
<1>2. QED
  BY <1>1, InductiveHolds, PTL

(* The child is at most one block ahead of the client. *)
THEOREM StaysInLockstep == Spec => []Lockstep
<1>1. Inductive => Lockstep
  BY DEF Inductive
<1>2. QED
  BY <1>1, InductiveHolds, PTL

(* Success is reported, on either side, only for the whole file. *)
THEOREM SuccessIsComplete == Spec => []NoFalseSuccess
<1>1. Inductive => NoFalseSuccess
  BY DEF Inductive, Progress, NoFalseSuccess
<1>2. QED
  BY <1>1, InductiveHolds, PTL

------------------------------------------------------------------------------
(* The child implements FileTransfer. *)

(* A session starts as a transfer does. *)
LEMMA RefinesInit == Init => Transfer!Init
  BY DEF Init, ChildInit, Transfer!Init

(* The client's next block makes the copy grow. *)
LEMMA RefinesReceive ==
  ASSUME Inductive, NEW p \in toClient, ClientReceives(p) PROVE Transfer!Next
<1> USE DEF ClientReceives, Arrives, ServerUnchanged
<1>1. p.at = Len(received) + 1 /\ p.at = filePos
  BY ExpectedData
<1>2. received \in Seq(1 .. NumBlocks) /\ p.at \in 1 .. NumBlocks
  BY <1>1 DEF Inductive, TypeOK, DataSent
<1>3. received' = Append(received, Len(received) + 1) /\ Len(received') = Len(received) + 1
  BY <1>1, <1>2
<1>4. Len(received) < NumBlocks /\ Len(received') <= NumBlocks
  BY <1>1, <1>2, <1>3, ChildAssumption
<1>5. /\ client = "receiving" /\ UNCHANGED outcome
      /\ client' = IF Len(received') = NumBlocks THEN "complete" ELSE "receiving"
  BY <1>1, <1>3 DEF ClientExpects, LastBlock
<1>6. Transfer!Grow
  BY <1>2, <1>3, <1>4, <1>5, ChildAssumption DEF Transfer!Grow
<1>7. QED
  BY <1>6 DEF Transfer!Next

(* The steps of the child: failures, success, and steps the transfer does not see. *)
LEMMA RefinesServer ==
  ASSUME Inductive, ServerStep PROVE Transfer!Next \/ UNCHANGED Transfer!vars
<1> USE DEF Transfer!vars
<1>1. ASSUME outcome = "none", UNCHANGED <<received, client>>,
             outcome' \in {"noSocket", "rejected", "sendFailed", "recvFailed",
                           "shortFrame", "retries", "clientError", "unknownOpcode",
                           "ackInvalid"}
      PROVE  Transfer!Next
  BY <1>1 DEF Transfer!Next, Transfer!SenderFails
<1>2. pc # "exit" => outcome = "none"
  BY DEF Inductive, TypeOK, ChildTypeOK
<1>3. CASE AcceptRequest \/ ReadBlock \/ SendData
  BY <1>3 DEF AcceptRequest, ReadBlock, SendData, readVars
<1>4. CASE SendFails \/ Timeout
  BY <1>1, <1>2, <1>4 DEF SendFails, Timeout, Exit, readVars
<1>5. CASE (NoSocket \/ RejectRequest \/ RecvFails) /\ UNCHANGED readVars
  BY <1>1, <1>2, <1>5 DEF NoSocket, RejectRequest, RecvFails, Exit, readVars
<1>6. ASSUME NEW p \in toServer,
             \/ ReceiveError(p) \/ ReceiveUnknown(p) \/ RefuseAck(p)
             \/ ReceiveShort(p, filePos) /\ UNCHANGED readVars
      PROVE  Transfer!Next
  BY <1>1, <1>2, <1>6
  DEF ReceiveError, ReceiveUnknown, RefuseAck, ReceiveShort, Receive, Refuse, Exit, readVars
<1>7. ASSUME NEW p \in toServer, ReceiveAck(p)
      PROVE  Transfer!Next \/ UNCHANGED Transfer!vars
  <2>1. outcome = "none" /\ UNCHANGED <<received, client>>
    BY <1>2, <1>7 DEF ReceiveAck, Receive, readVars
  <2>2. CASE flag
    <3>1. Len(received) = filePos
      BY <1>7, MatchingAck DEF ReceiveAck, Receive
    <3>2. client = "complete"
      BY <2>2, <3>1 DEF Inductive, Progress, LastBlock
    <3>3. outcome' = "success"
      BY <1>7, <2>2 DEF ReceiveAck, Exit
    <3>4. Transfer!Confirm
      BY <2>1, <3>2, <3>3 DEF Transfer!Confirm
    <3>5. QED
      BY <3>4 DEF Transfer!Next
  <2>3. CASE ~flag
    BY <1>7, <2>1, <2>3 DEF ReceiveAck
  <2>4. QED
    BY <2>2, <2>3
<1>8. QED
  BY <1>3, <1>4, <1>5, <1>6, <1>7 DEF ServerStep

(* Every step is one of the transfer or leaves it as it is. *)
LEMMA RefinesStep == Inductive /\ [Next]_vars => [Transfer!Next]_(Transfer!vars)
<1> SUFFICES ASSUME Inductive, [Next]_vars
             PROVE  Transfer!Next \/ UNCHANGED Transfer!vars
  OBVIOUS
<1>1. CASE ServerStep
  BY <1>1, RefinesServer
<1>2. ASSUME NEW p \in toClient, ClientReceives(p) PROVE Transfer!Next
  BY <1>2, RefinesReceive
<1>3. ASSUME UNCHANGED <<outcome, received>>,
             client' = client \/ (client = "receiving" /\ client' = "failed")
      PROVE  Transfer!Next \/ UNCHANGED Transfer!vars
  BY <1>3 DEF Transfer!Next, Transfer!ReceiverFails, Transfer!vars
<1>4. ASSUME NEW p \in toClient, ClientRepeatsAck(p) \/ ClientGetsError(p)
      PROVE  Transfer!Next \/ UNCHANGED Transfer!vars
  BY <1>3, <1>4 DEF ClientRepeatsAck, ClientGetsError, Arrives, ServerUnchanged
<1>5. CASE ClientQuits
  BY <1>3, <1>5 DEF ClientQuits, ServerUnchanged
<1>6. CASE (Lose \/ Stray) /\ UNCHANGED readVars
  BY <1>3, <1>6 DEF Lose, Stray, readVars
<1>7. CASE UNCHANGED vars
  BY <1>3, <1>7 DEF vars, childVars, readVars
<1>8. QED
  BY <1>1, <1>2, <1>4, <1>5, <1>6, <1>7 DEF Next, ClientStep

(* A read session of the server, in any network and with any client, is a     *)
(* behaviour of FileTransfer.                                                 *)
THEOREM ReadImplementsTransfer == Spec => ImplementsTransfer
  BY RefinesInit, RefinesStep, InductiveHolds, PTL
  DEF Spec, ImplementsTransfer, Transfer!Spec
------------------------------------------------------------------------------
(* Without late or duplicated datagrams at most one DATA or one ACK is under  *)
(* way, and it is about the block the child waits for.                        *)
Calm ==
  /\ outcome # "ackInvalid"
  /\ \A p \in toClient : p.op = "DATA" => p.at = filePos /\ pc \in {"wait", "exit"}
  /\ \A p \in toServer : p.op = "ACK" => p.at = filePos /\ pc \in {"wait", "exit"}
  /\ \A p \in toClient, q \in toServer : p.op # "DATA" \/ q.op # "ACK"

(* Every child starts calm. *)
LEMMA CalmInit == Init => Calm
  BY DEF Init, ChildInit, Calm

(* The same kind of datagram about the same block is the same datagram. *)
LEMMA SameDatagram ==
  ASSUME NEW p \in Frames, NEW q \in Frames, p.op = q.op, p.block = q.block, p.at = q.at
  PROVE  p = q
  BY DEF Frames

(* A datagram that is taken is gone. *)
LEMMA TakenIsGone ==
  ASSUME "late" \notin Faults, NEW net, NEW p
  PROVE  p \notin Take(net, p) /\ Take(net, p) \subseteq net
  BY DEF Take

(* The child sends a block only into an empty network, reads the next one     *)
(* when the ACK has been taken, and gets no ACK that does not match.          *)
LEMMA CalmServer ==
  ASSUME "late" \notin Faults, Inductive, Calm, ServerStep
  PROVE  Calm'
<1>1. /\ toClient \subseteq Frames /\ toServer \subseteq Frames
      /\ DataSent /\ AcksSent /\ block_number = filePos % BlockMod
  BY DEF Inductive, TypeOK, ChildTypeOK, Progress
<1>2. \A code \in {UNDEFINED, FILE_NOT_FOUND} : ErrorFrame(code).op = "ERR"
  BY ErrorFrameType DEF UNDEFINED, FILE_NOT_FOUND
<1>3. CASE AcceptRequest \/ ReadBlock
  BY <1>3 DEF Calm, AcceptRequest, ReadBlock, readVars
<1>4. CASE SendData
  <2>1. Frame("DATA", block_number, Payload).op = "DATA"
        /\ Frame("DATA", block_number, Payload).at = filePos
    BY DEF Frame, Payload
  <2> QED
    BY <1>4, <2>1 DEF Calm, SendData, readVars
<1>5. CASE Timeout
  BY <1>5 DEF Calm, Timeout, Quiet, Exit, readVars
<1>6. CASE SendFails \/ ((NoSocket \/ RejectRequest \/ RecvFails) /\ UNCHANGED readVars)
  BY <1>2, <1>6 DEF Calm, SendFails, NoSocket, RejectRequest, RecvFails, Exit, readVars
<1>7. ASSUME NEW p \in toServer,
             \/ ReceiveError(p) \/ ReceiveUnknown(p)
             \/ ReceiveShort(p, filePos) /\ UNCHANGED readVars
      PROVE  Calm'
  <2>1. toServer' \subseteq toServer
    BY <1>7, TakeSubset DEF ReceiveError, ReceiveUnknown, ReceiveShort, Receive
  <2>2. pc' = "exit" /\ outcome' # "ackInvalid" /\ filePos' = filePos
        /\ toClient' \subseteq toClient \cup {ErrorFrame(UNDEFINED)}
    BY <1>7 DEF ReceiveError, ReceiveUnknown, ReceiveShort, Refuse, Exit, readVars
  <2> QED
    BY <1>2, <2>1, <2>2 DEF Calm
<1>8. ASSUME NEW p \in toServer, RefuseAck(p) PROVE FALSE
  BY <1>1, <1>8 DEF RefuseAck, AckMatches, Calm, AcksSent
<1>9. ASSUME NEW p \in toServer, ReceiveAck(p) PROVE Calm'
  <2>1. p.op = "ACK" /\ toServer' = Take(toServer, p)
    BY <1>9 DEF ReceiveAck, Receive
  <2>2. ASSUME NEW q \in toServer', q.op = "ACK" PROVE FALSE
    <3>1. q \in toServer /\ q # p
      BY <2>1, TakenIsGone
    <3>2. q.at = p.at /\ q.block = p.block
      BY <1>1, <2>1, <2>2, <3>1 DEF Calm, AcksSent
    <3> QED
      BY <1>1, <2>1, <2>2, <3>1, <3>2, SameDatagram
  <2>3. toClient' = toClient /\ outcome' # "ackInvalid"
    BY <1>9 DEF ReceiveAck, Exit, Calm
  <2>4. \A q \in toClient : q.op # "DATA"
    BY <2>1 DEF Calm
  <2> QED
    BY <2>2, <2>3, <2>4 DEF Calm
<1> QED
  BY <1>3, <1>4, <1>5, <1>6, <1>7, <1>8, <1>9 DEF ServerStep

(* The client answers a block with its ACK: one datagram for another. *)
LEMMA CalmClient ==
  ASSUME "late" \notin Faults, Inductive, Calm, NEW p \in toClient,
         ClientReceives(p) \/ ClientRepeatsAck(p)
  PROVE  Calm'
<1>1. toClient \subseteq Frames /\ DataSent /\ Lockstep /\ Progress /\ TypeOK
  BY DEF Inductive, TypeOK, ChildTypeOK
<1>2. /\ p.op = "DATA" /\ toClient' = Take(toClient, p)
      /\ UNCHANGED <<pc, outcome, filePos>>
  BY DEF ClientReceives, ClientRepeatsAck, Arrives, ServerUnchanged
<1>3. p.at = filePos /\ pc \in {"wait", "exit"} /\ p.block = filePos % BlockMod
  BY <1>1, <1>2 DEF Calm, DataSent
<1>4. ASSUME NEW q \in toClient', q.op = "DATA" PROVE FALSE
  <2>1. q \in toClient /\ q # p
    BY <1>2, TakenIsGone
  <2>2. q.at = p.at /\ q.block = p.block
    BY <1>1, <1>2, <1>4, <2>1 DEF Calm, DataSent
  <2> QED
    BY <1>1, <1>2, <1>4, <2>1, <2>2, SameDatagram
<1>5. CASE ClientReceives(p)
  <2>1. toServer' = toServer \cup {Frame("ACK", p.block, p.at)}
    BY <1>5 DEF ClientReceives
  <2>2. Frame("ACK", p.block, p.at).at = filePos
    BY <1>3 DEF Frame
  <2> QED
    BY <1>2, <1>3, <1>4, <2>1, <2>2 DEF Calm
<1>6. CASE ClientRepeatsAck(p)
  <2>1. Len(received) = filePos
    <3>1. /\ filePos \in 0 .. NumBlocks /\ Len(received) \in {filePos - 1, filePos}
          /\ Len(received) \in Nat /\ NumBlocks \in Nat
      BY <1>1, ChildAssumption DEF Lockstep, TypeOK
    <3>2. client # "complete" => client = "receiving"
      BY <1>1, <1>6 DEF ClientRepeatsAck, TypeOK
    <3>3. client = "complete" => Len(received) = NumBlocks
      BY <1>1 DEF Progress
    <3>4. CASE client = "receiving"
      <4>1. p.block # (Len(received) + 1) % BlockMod
        BY <1>6, <3>4 DEF ClientRepeatsAck, ClientExpects
      <4>2. Len(received) = filePos - 1 => Len(received) + 1 = filePos
        BY <3>1
      <4> QED
        BY <1>3, <3>1, <4>1, <4>2
    <3>5. CASE client = "complete"
      BY <3>1, <3>3, <3>5
    <3> QED
      BY <3>2, <3>4, <3>5
  <2>2. toServer' \in {toServer, toServer \cup {Frame("ACK", p.block, Len(received))}}
    BY <1>6 DEF ClientRepeatsAck
  <2>3. Frame("ACK", p.block, Len(received)).at = filePos
    BY <2>1 DEF Frame
  <2> QED
    BY <1>2, <1>3, <1>4, <2>2, <2>3 DEF Calm
<1> QED
  BY <1>5, <1>6

(* Losses, strays and errors add neither a DATA nor an ACK. *)
LEMMA CalmOthers ==
  ASSUME "late" \notin Faults, Inductive, Calm,
         ClientStep \/ ((Lose \/ Stray) /\ UNCHANGED readVars)
  PROVE  Calm'
<1>1. ASSUME UNCHANGED <<pc, outcome, filePos>>, toClient' \subseteq toClient,
             \A q \in toServer' \ toServer : q.op # "ACK"
      PROVE  Calm'
  BY <1>1 DEF Calm
<1>2. ASSUME NEW p \in toClient, ClientReceives(p) \/ ClientRepeatsAck(p) PROVE Calm'
  BY <1>2, CalmClient
<1>3. ASSUME NEW p \in toClient, ClientGetsError(p) PROVE Calm'
  BY <1>1, <1>3, TakeSubset DEF ClientGetsError, Arrives, ServerUnchanged
<1>4. CASE ClientQuits
  <2>1. ErrorFrame(UNDEFINED).op = "ERR"
    BY ErrorFrameType DEF UNDEFINED
  <2> QED
    BY <1>1, <1>4, <2>1 DEF ClientQuits, ServerUnchanged
<1>5. CASE Lose /\ UNCHANGED readVars
  BY <1>1, <1>5 DEF Lose, readVars
<1>6. CASE Stray /\ UNCHANGED readVars
  BY <1>1, <1>6 DEF Stray, Frame, readVars
<1> QED
  BY <1>2, <1>3, <1>4, <1>5, <1>6 DEF ClientStep

(* A client that follows the protocol is never told that its ACK was wrong,   *)
(* when no datagram is late or duplicated: whatever is lost, and also when    *)
(* strays arrive, the client gives up, or the server's calls fail.            *)
THEOREM NeverAccused ==
  ASSUME "late" \notin Faults
  PROVE  Spec => []NoWrongAccusation
<1>1. Inductive /\ Calm /\ [Next]_vars => Calm'
  <2> SUFFICES ASSUME Inductive, Calm, [Next]_vars PROVE Calm'
    OBVIOUS
  <2>1. CASE Next
    BY <2>1, CalmServer, CalmOthers DEF Next
  <2>2. CASE UNCHANGED vars
    BY <2>2 DEF Calm, vars, childVars, readVars
  <2> QED
    BY <2>1, <2>2
<1>2. Calm => NoWrongAccusation
  BY DEF Calm, NoWrongAccusation
<1> QED
  BY <1>1, <1>2, CalmInit, InductiveHolds, PTL DEF Spec
=============================================================================
