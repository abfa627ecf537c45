------------------------------ MODULE TftpWrite ------------------------------
(* A write session: the WRQ half of handle_tftp_request in                    *)
(* src/MP3/src/tftpserver.c acknowledges the request with block 0, stores the *)
(* blocks a client (external: any RFC 1350 client) sends and acknowledges     *)
(* each of them.                                                              *)
EXTENDS TftpChild

VARIABLES
  accepted,     \* DATA blocks the child has taken (block_number, unwrapped)
  stored,       \* payloads written to the file, in its order
  sent,         \* the block the client is sending, 0 for the request
  client        \* "sending", "complete" or "failed"

writeVars == <<accepted, stored, sent, client>>
vars == <<childVars, writeVars>>

Init ==
  /\ ChildInit
  /\ accepted = 0 /\ stored = <<>>
  /\ sent = 0 /\ client = "sending"

------------------------------------------------------------------------------
(* The server. *)

(* Variants of the operators that follow, each a bug the code could have. *)
NextBlockWide == block_number + 1                \* block_number is an int
ShortBlockEarly(p) == p.op # "DATA" \/ p.at >= NumBlocks - 1   \* no empty last block
BlockMatchesOld(p) ==                            \* a duplicate is stored again
  p.block \in {block_number, (block_number + 1) % BlockMod}
AckNumberNext == (block_number + 1) % BlockMod   \* the retry asks for the next
KeepFile(p) == stored                            \* acknowledged, not written

(* block_number++ *)
NextBlock == (block_number + 1) % BlockMod

(* The datagram is shorter than a full DATA packet. *)
ShortBlock(p) == p.op # "DATA" \/ p.at = NumBlocks

(* The block number, at the same offset in DATA, ACK and ERROR packets. *)
BlockMatches(p) == p.block = NextBlock

(* The number an attempt that timed out acknowledges again. *)
RetryNumber == block_number

Ack(block, at) == toClient \cup {Frame("ACK", block, at)}

(* fopen creates or empties the file, and the request is acknowledged. *)
AcceptRequest ==
  /\ pc = "start" /\ Accepted(request)
  /\ retryAttempts' = RetryLimit
  /\ toClient' = Ack(0, 0)
  /\ pc' = "wait"
  /\ UNCHANGED <<request, outcome, block_number, flag, toServer, writeVars>>

AcceptFails ==
  /\ pc = "start" /\ Accepted(request) /\ "socket" \in Faults
  /\ Exit("sendFailed")
  /\ UNCHANGED <<request, block_number, retryAttempts, flag, toClient, toServer,
                 writeVars>>

(* Nothing came within TIMEOUT seconds: the last ACK again, one attempt less. *)
Timeout ==
  /\ pc = "wait" /\ Quiet
  /\ toClient' = Ack(RetryNumber, accepted)
  /\ retryAttempts' = OneLess(retryAttempts)
  /\ IF Exhausted(retryAttempts') THEN Exit("retries") ELSE UNCHANGED <<pc, outcome>>
  /\ UNCHANGED <<request, block_number, flag, toServer, writeVars>>

TimeoutAckFails ==
  /\ pc = "wait" /\ Quiet /\ "socket" \in Faults
  /\ Exit("sendFailed")
  /\ UNCHANGED <<request, block_number, retryAttempts, flag, toClient, toServer,
                 writeVars>>

(* A datagram of at least 4 bytes ends the inner loop; block_number and flag  *)
(* are advanced before anything else in it is looked at.                      *)
Advance(p) ==
  /\ Receive(p, accepted) /\ p.op # "SHORT"
  /\ block_number' = NextBlock
  /\ flag' = ShortBlock(p)
  /\ UNCHANGED request

RefuseBlock(p) ==
  /\ Advance(p) /\ ~BlockMatches(p)
  /\ Refuse("ackInvalid")
  /\ UNCHANGED <<retryAttempts, writeVars>>

RefuseOpcode(p) ==
  /\ Advance(p) /\ BlockMatches(p) /\ p.op # "DATA"
  /\ Refuse("unknownOpcode")
  /\ UNCHANGED <<retryAttempts, writeVars>>

(* The ERR_EVENT branch of the code comes after the two checks above: no      *)
(* datagram reaches it.                                                       *)

Write(p) == Append(stored, p.at)

(* fwrite returns what it wrote, which is never negative: a full disk goes    *)
(* unnoticed.                                                                 *)
Store(p) ==
  /\ Advance(p) /\ BlockMatches(p) /\ p.op = "DATA"
  /\ accepted' = accepted + 1
  /\ stored' = Write(p) \/ ("disk" \in Faults /\ stored' = stored)
  /\ UNCHANGED <<sent, client>>

StoreAndAck(p) ==
  /\ Store(p)
  /\ toClient' = Ack(block_number', accepted')
  /\ retryAttempts' = RetryLimit
  /\ IF flag' THEN Exit("success") ELSE UNCHANGED <<pc, outcome>>

StoreAckFails(p) ==
  /\ Store(p) /\ "socket" \in Faults
  /\ Exit("sendFailed")
  /\ UNCHANGED <<retryAttempts, toClient>>

ServerStep ==
  \/ AcceptRequest \/ AcceptFails \/ Timeout \/ TimeoutAckFails
  \/ (NoSocket \/ RejectRequest \/ RecvFails) /\ UNCHANGED writeVars
  \/ \E p \in toServer :
       \/ RefuseBlock(p) \/ RefuseOpcode(p) \/ StoreAndAck(p) \/ StoreAckFails(p)
       \/ ReceiveShort(p, accepted) /\ UNCHANGED writeVars

------------------------------------------------------------------------------
(* The client, external: the ACK of the block it is sending lets it send the  *)
(* next, another is ignored or has it send its block again, ERROR ends the    *)
(* session.                                                                   *)

ServerUnchanged == UNCHANGED <<request, pc, outcome, block_number, retryAttempts,
                               flag, accepted, stored>>

Data(n) == toServer \cup {Frame("DATA", n % BlockMod, n)}

Arrives(p) ==
  /\ p \in toClient /\ Alive(p, sent)
  /\ toClient' = Take(toClient, p)
  /\ ServerUnchanged

ClientExpects(p) == client = "sending" /\ p.block = sent % BlockMod

(* The ACK the client has had before. *)
ClientRepeats(p) ==
  "repeat" \in Faults /\ client = "sending" /\ sent > 0 /\ p.block = (sent - 1) % BlockMod

ClientSends(p) ==
  /\ Arrives(p) /\ p.op = "ACK" /\ ClientExpects(p)
  /\ IF sent = NumBlocks
       THEN client' = "complete" /\ UNCHANGED <<sent, toServer>>
       ELSE sent' = sent + 1 /\ toServer' = Data(sent + 1) /\ UNCHANGED client

ClientRepeatsData(p) ==
  /\ Arrives(p) /\ p.op = "ACK" /\ ~ClientExpects(p) /\ ClientRepeats(p)
  /\ toServer' = Data(sent)
  /\ UNCHANGED <<sent, client>>

ClientIgnoresAck(p) ==
  /\ Arrives(p) /\ p.op = "ACK" /\ ~ClientExpects(p) /\ ~ClientRepeats(p)
  /\ UNCHANGED <<sent, client, toServer>>

ClientGetsError(p) ==
  /\ Arrives(p) /\ p.op = "ERR"
  /\ client' = IF client = "sending" THEN "failed" ELSE client
  /\ UNCHANGED <<sent, toServer>>

ClientQuits ==
  /\ "quit" \in Faults /\ client = "sending"
  /\ client' = "failed"
  /\ toServer' = toServer \cup {ErrorFrame(UNDEFINED)}
  /\ ServerUnchanged /\ UNCHANGED <<sent, toClient>>

(* The timer of the client. *)
ClientResends ==
  /\ "resend" \in Faults /\ Quiet /\ client = "sending" /\ sent > 0
  /\ toServer' = Data(sent)
  /\ ServerUnchanged /\ UNCHANGED <<sent, client, toClient>>

ClientStep ==
  \/ \E p \in toClient : \/ ClientSends(p) \/ ClientRepeatsData(p)
                         \/ ClientIgnoresAck(p) \/ ClientGetsError(p)
  \/ ClientQuits \/ ClientResends

------------------------------------------------------------------------------

Next ==
  \/ ServerStep
  \/ ClientStep
  \/ (Lose \/ Stray) /\ UNCHANGED writeVars

(* The child is a process of its own and its receive timer fires: its steps   *)
(* are taken. Nothing is assumed of the client or of the network.             *)
Spec == Init /\ [][Next]_vars /\ WF_vars(ServerStep)

(* The same with a client that keeps answering what arrives. *)
FairSpec == Spec /\ WF_vars(ClientStep)

------------------------------------------------------------------------------
(* Properties. *)

(* The variables keep their types; none of the counters leaves its width. *)
TypeOK ==
  /\ ChildTypeOK
  /\ accepted \in 0 .. NumBlocks
  /\ stored \in Seq(1 .. NumBlocks)
  /\ sent \in 0 .. NumBlocks
  /\ client \in {"sending", "complete", "failed"}

(* Whatever is duplicated, reordered or late, the stored file is an initial   *)
(* part of what the client sends, although block_number wraps around.         *)
InOrder == stored = [i \in 1 .. Len(stored) |-> i]

(* A block the client was told is received is in the file: "Write failed" is  *)
(* reported instead of an ACK.                                                *)
AckedIsStored ==
  /\ client = "complete" => Len(stored) = NumBlocks
  /\ client = "sending" => sent <= Len(stored) + 1

(* Lockstep: the client works on the block the child waits for or on the one  *)
(* the child has just acknowledged, never on another.                         *)
Lockstep == sent \in {accepted, accepted + 1}

(* The reason why the above hold, and (without "disk") an inductive           *)
(* strengthening of them: block_number is accepted modulo the width while the *)
(* child runs, every ACK on its way is for a block it took, and the last one  *)
(* is sent only when it has succeeded.                                        *)
DataSent ==
  \A p \in toServer : p.op = "DATA" =>
    p.at \in 1 .. sent /\ p.block = p.at % BlockMod

AcksSent ==
  \A p \in toClient : p.op = "ACK" =>
    /\ p.at \in 0 .. accepted /\ p.block = p.at % BlockMod
    /\ p.at = NumBlocks => outcome = "success"

Progress ==
  /\ Len(stored) = accepted
  /\ pc \in {"start", "wait", "exit"}
  /\ pc # "exit" => block_number = accepted % BlockMod /\ accepted < NumBlocks
  /\ pc = "wait" => retryAttempts > 0
  /\ outcome = "success" => accepted = NumBlocks
  /\ client = "complete" => outcome = "success"

Inductive == TypeOK /\ InOrder /\ Lockstep /\ Progress /\ DataSent /\ AcksSent

(* The child ends whatever the client and the network do. *)
Terminates == <>(pc = "exit")

(* The child has exited and can no longer repeat the last ACK.                *)
LastAckLost == outcome = "success" /\ client = "sending" /\ toClient = {}

(* Lost DATA and ACKs within the retry limit do not cost the file: the ACKs   *)
(* the child repeats carry every accepted upload to its end on the side of    *)
(* the server, and on the side of the client too unless the very last ACK is  *)
(* the one that is lost. (The client has no timer here: when one is the first *)
(* to expire, RefuseBlock ends the upload on the block it sends again.)       *)
SurvivesLossOfUpload ==
  Accepted(request) =>
    /\ <>(outcome = "success")
    /\ []~LastAckLost => <>(client = "complete")

(* A write session is a FileTransfer with the child as the receiver. *)
Transfer == INSTANCE FileTransfer WITH
  copy <- stored,
  sender <- CASE client = "sending" -> "busy"
              [] client = "complete" -> "done"
              [] OTHER -> "failed",
  receiver <- CASE outcome = "none" -> "busy"
                [] outcome = "success" -> "done"
                [] OTHER -> "failed"

ImplementsTransfer == Transfer!Spec
=============================================================================
