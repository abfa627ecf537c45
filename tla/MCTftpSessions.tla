--------------------------- MODULE MCTftpSessions ---------------------------
(* A read and a write session that two children of one server serve at the    *)
(* same time, each over a network that only loses datagrams: TftpRead and     *)
(* TftpWrite on sockets of their own, for TLC.                                *)
EXTENDS TftpRead

CONSTANTS WriteFaults

VARIABLES
  writeRequest, writePc, writeOutcome, writeBlock, writeAttempts, writeFlag,
  acksToClient, dataToServer, accepted, stored, sent, writer

Write == INSTANCE TftpWrite WITH
  Faults <- WriteFaults, request <- writeRequest, pc <- writePc,
  outcome <- writeOutcome, block_number <- writeBlock,
  retryAttempts <- writeAttempts, flag <- writeFlag,
  toClient <- acksToClient, toServer <- dataToServer, client <- writer

writeVars ==
  <<writeRequest, writePc, writeOutcome, writeBlock, writeAttempts, writeFlag,
    acksToClient, dataToServer, accepted, stored, sent, writer>>
sessionVars == <<vars, writeVars>>

SessionsInit == Init /\ Write!Init

SessionsNext ==
  \/ Next /\ UNCHANGED writeVars
  \/ Write!Next /\ UNCHANGED vars

(* Each child and each client is a process of its own. *)
SessionsSpec ==
  /\ SessionsInit /\ [][SessionsNext]_sessionVars
  /\ WF_sessionVars(ServerStep /\ UNCHANGED writeVars)
  /\ WF_sessionVars(ClientStep /\ UNCHANGED writeVars)
  /\ WF_sessionVars(Write!ServerStep /\ UNCHANGED vars)
  /\ WF_sessionVars(Write!ClientStep /\ UNCHANGED vars)

(* Both sessions lose DATA and ACKs, within the retry limit of the server. A  *)
(* download ends well on both sides. An upload ends well on the side of the   *)
(* server, and on the client's unless its very last ACK is lost.              *)
SurvivesLosses == SurvivesLoss /\ Write!SurvivesLossOfUpload
=============================================================================
