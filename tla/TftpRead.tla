------------------------------ MODULE TftpRead ------------------------------
(* A read session: the RRQ half of handle_tftp_request in                     *)
(* src/MP3/src/tftpserver.c sends a file block by block and waits for the ACK *)
(* of each, and a client (external: any RFC 1350 client) collects them.       *)
EXTENDS TftpChild

VARIABLES
  filePos,      \* blocks fread from the file so far
  received,     \* payloads the client has, in its order
  client        \* "receiving", "complete" or "failed"

readVars == <<filePos, received, client>>
vars == <<childVars, readVars>>

Init ==
  /\ ChildInit
  /\ filePos = 0
  /\ received = <<>> /\ client = "receiving"

------------------------------------------------------------------------------
(* The server. *)

AcceptRequest ==
  /\ pc = "start" /\ Accepted(request)
  /\ pc' = "read"
  /\ UNCHANGED <<request, outcome, block_number, retryAttempts, flag,
                 toClient, toServer, readVars>>

(* Variants of the operators that follow them, each a bug the code could      *)
(* have; a run's property must fail when one takes the operator's place.      *)
NextBlockWide(n) == n + 1                          \* block_number is an int
LastBlockEarly(n) == n >= NumBlocks - 1            \* no empty last block
PayloadRereads ==                                  \* fread in the retry loop
  IF retryAttempts < RetryLimit /\ filePos < NumBlocks THEN filePos + 1 ELSE filePos
AckMatchesLower(p) == p.block <= block_number      \* only high ACKs refused
AckMatchesAny(p) == TRUE                           \* the check is dropped

(* block_number++ *)
NextBlock(n) == (n + 1) % BlockMod

(* fread returned less than 512 bytes. *)
LastBlock(n) == n = NumBlocks

(* What send_tftp_data copies from data_buffer. *)
Payload == filePos

ReadBlock ==
  /\ pc = "read"
  /\ filePos' = filePos + 1
  /\ block_number' = NextBlock(block_number)
  /\ flag' = LastBlock(filePos')
  /\ retryAttempts' = RetryLimit
  /\ pc' = "send"
  /\ UNCHANGED <<request, outcome, toClient, toServer, received, client>>

SendData ==
  /\ pc = "send"
  /\ toClient' = toClient \cup {Frame("DATA", block_number, Payload)}
  /\ pc' = "wait"
  /\ UNCHANGED <<request, outcome, block_number, retryAttempts, flag,
                 toServer, readVars>>

SendFails ==
  /\ pc = "send" /\ "socket" \in Faults
  /\ Exit("sendFailed")
  /\ UNCHANGED <<request, block_number, retryAttempts, flag, toClient, toServer,
                 readVars>>

(* Nothing came within TIMEOUT seconds: one attempt less, the same block again. *)
Timeout ==
  /\ pc = "wait" /\ Quiet
  /\ retryAttempts' = OneLess(retryAttempts)
  /\ IF Exhausted(retryAttempts') THEN Exit("retries")
                                  ELSE pc' = "send" /\ UNCHANGED outcome
  /\ UNCHANGED <<request, block_number, flag, toClient, toServer, readVars>>

ReceiveError(p) ==
  /\ Receive(p, filePos) /\ p.op = "ERR"
  /\ Exit("clientError")
  /\ UNCHANGED <<request, block_number, retryAttempts, flag, toClient, readVars>>

ReceiveUnknown(p) ==
  /\ Receive(p, filePos) /\ p.op \in {"DATA", "OTHER"}
  /\ Refuse("unknownOpcode")
  /\ UNCHANGED <<request, block_number, retryAttempts, flag, readVars>>

AckMatches(p) == p.block = block_number

RefuseAck(p) ==
  /\ Receive(p, filePos) /\ p.op = "ACK" /\ ~AckMatches(p)
  /\ Refuse("ackInvalid")
  /\ UNCHANGED <<request, block_number, retryAttempts, flag, readVars>>

(* The expected ACK ends the inner loop; with flag set it ends the session. *)
ReceiveAck(p) ==
  /\ Receive(p, filePos) /\ p.op = "ACK" /\ AckMatches(p)
  /\ IF flag THEN Exit("success") ELSE pc' = "read" /\ UNCHANGED outcome
  /\ UNCHANGED <<request, block_number, retryAttempts, flag, toClient, readVars>>

ServerStep ==
  \/ AcceptRequest \/ ReadBlock \/ SendData \/ SendFails \/ Timeout
  \/ (NoSocket \/ RejectRequest \/ RecvFails) /\ UNCHANGED readVars
  \/ \E p \in toServer :
       \/ ReceiveError(p) \/ ReceiveUnknown(p) \/ RefuseAck(p) \/ ReceiveAck(p)
       \/ ReceiveShort(p, filePos) /\ UNCHANGED readVars

------------------------------------------------------------------------------
(* The client, external: it appends the block it expects and acknowledges it, *)
(* acknowledges again the one it has, even after the last, and fails on ERROR. *)

ServerUnchanged == UNCHANGED <<request, pc, outcome, block_number, retryAttempts,
                               flag, filePos>>

Arrives(p) ==
  /\ p \in toClient /\ Alive(p, filePos)
  /\ toClient' = Take(toClient, p)
  /\ ServerUnchanged

ClientExpects(p) ==
  client = "receiving" /\ p.block = (Len(received) + 1) % BlockMod

ClientReceives(p) ==
  /\ Arrives(p) /\ p.op = "DATA" /\ ClientExpects(p)
  /\ received' = Append(received, p.at)
  /\ toServer' = toServer \cup {Frame("ACK", p.block, p.at)}
  /\ client' = IF LastBlock(p.at) THEN "complete" ELSE client

ClientRepeatsAck(p) ==
  /\ Arrives(p) /\ p.op = "DATA" /\ client # "failed" /\ ~ClientExpects(p)
  /\ toServer' = IF received # <<>> /\ p.block = Len(received) % BlockMod
                   THEN toServer \cup {Frame("ACK", p.block, Len(received))}
                   ELSE toServer
  /\ UNCHANGED <<received, client>>

ClientGetsError(p) ==
  /\ Arrives(p) /\ p.op = "ERR"
  /\ client' = IF client = "receiving" THEN "failed" ELSE client
  /\ UNCHANGED <<received, toServer>>

ClientQuits ==
  /\ "quit" \in Faults /\ client = "receiving"
  /\ client' = "failed"
  /\ toServer' = toServer \cup {ErrorFrame(UNDEFINED)}
  /\ ServerUnchanged /\ UNCHANGED <<received, toClient>>

ClientStep ==
  \/ \E p \in toClient : ClientReceives(p) \/ ClientRepeatsAck(p) \/ ClientGetsError(p)
  \/ ClientQuits

------------------------------------------------------------------------------

Next ==
  \/ ServerStep
  \/ ClientStep
  \/ (Lose \/ Stray) /\ UNCHANGED readVars

(* The child is a process of its own and its receive timer fires: its steps   *)
(* are taken. Nothing is assumed of the client or of the network.             *)
Spec == Init /\ [][Next]_vars /\ WF_vars(ServerStep)

(* The same with a client that keeps answering what arrives. *)
FairSpec == Spec /\ WF_vars(ClientStep)

------------------------------------------------------------------------------
(* Properties. *)

(* The variables keep their types; none of the counters leaves its width. *)
TypeOK ==
  /\ ChildTypeOK
  /\ filePos \in 0 .. NumBlocks
  /\ received \in Seq(1 .. NumBlocks)
  /\ client \in {"receiving", "complete", "failed"}

(* Whatever is duplicated, reordered or late, the client holds an initial     *)
(* part of the file: no block is skipped, repeated or out of order, although  *)
(* block_number wraps around.                                                 *)
InOrder == received = [i \in 1 .. Len(received) |-> i]

(* "TFTP data sent successfully" is said, and a client believes it is done,   *)
(* only when the client has the whole file, last short block included.        *)
NoFalseSuccess ==
  (outcome = "success" \/ client = "complete") => Len(received) = NumBlocks

(* The lockstep of the two sides: the child is never more than one block      *)
(* ahead of the client and never behind it, and it reads a new block only     *)
(* when the client has the previous one.                                      *)
Lockstep ==
  /\ Len(received) \in {filePos - 1, filePos}
  /\ pc = "read" => Len(received) = filePos

(* The reason why the above hold, and an inductive strengthening of them:     *)
(* block_number is filePos modulo the width, every DATA on its way is a block *)
(* that was read and every ACK one that the client has, under their numbers.  *)
DataSent ==
  \A p \in toClient : p.op = "DATA" =>
    p.at \in 1 .. filePos /\ p.block = p.at % BlockMod

AcksSent ==
  \A p \in toServer : p.op = "ACK" =>
    p.at \in 1 .. Len(received) /\ p.block = p.at % BlockMod

Progress ==
  /\ block_number = filePos % BlockMod
  /\ flag <=> LastBlock(filePos)
  /\ pc \in {"start", "read"} => ~flag
  /\ pc = "start" => filePos = 0
  /\ pc \in {"send", "wait"} => filePos > 0 /\ retryAttempts > 0
  /\ client = "complete" <=> Len(received) = NumBlocks
  /\ outcome = "success" => Len(received) = NumBlocks

Inductive == TypeOK /\ InOrder /\ Lockstep /\ Progress /\ DataSent /\ AcksSent

(* In a network without late or duplicated datagrams the child never accuses  *)
(* its client of a wrong ACK.                                                 *)
NoWrongAccusation == outcome # "ackInvalid"

(* The child ends whatever the client and the network do, so that no session  *)
(* keeps a process and a socket for ever.                                     *)
Terminates == <>(pc = "exit")

(* Drops within the retry limit cost nothing but time: the retransmission of  *)
(* the server alone carries every accepted request to its end, on both sides. *)
SurvivesLoss ==
  Accepted(request) => <>(outcome = "success" /\ client = "complete")

(* A read session is a FileTransfer with the child as the sender. *)
Transfer == INSTANCE FileTransfer WITH
  copy <- received,
  sender <- CASE outcome = "none" -> "busy"
              [] outcome = "success" -> "done"
              [] OTHER -> "failed",
  receiver <- CASE client = "receiving" -> "busy"
                [] client = "complete" -> "done"
                [] OTHER -> "failed"

ImplementsTransfer == Transfer!Spec
=============================================================================
