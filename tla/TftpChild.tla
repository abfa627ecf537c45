------------------------------ MODULE TftpChild ------------------------------
(* The part of handle_tftp_request (src/MP3/src/tftpserver.c) that a read and *)
(* a write session share: the child process the dispatcher forks, its session *)
(* socket with a receive timer, the validation of the request, the retry loop *)
(* around tftp_recv and the ways the process ends. TftpRead and TftpWrite     *)
(* extend it with the two transfer loops.                                     *)
(*                                                                            *)
(* The file is NumBlocks blocks, of which only the last is shorter than 512   *)
(* bytes (it may be empty), so a payload is its index in the file. A datagram *)
(* carries the 16-bit block number of the wire and, as `at`, the index of the *)
(* block it is about: for DATA that is its payload, for ACK it is known to    *)
(* the model only.                                                            *)
EXTENDS Integers, Sequences

CONSTANTS
  RetryLimit,   \* RETRY_LIMIT: receive attempts per block
  BlockMod,     \* block numbers are uint16_t: 65536 in the code
  NumBlocks,    \* blocks of the file that is transferred
  Lifetime,     \* a datagram is gone once the transfer is this many blocks on
  Faults        \* what the environment may do, see below

(* "late"   datagrams may be duplicated, reordered and arbitrarily late, and   *)
(*          the receive timer may expire while an answer is on its way         *)
(* "lossToClient", "lossToServer"  a datagram in that direction may be         *)
(*          dropped, within the retry limit of the server                      *)
(* "stray"  datagrams that no TFTP client sends reach the session port         *)
(* "quit"   the client may give up and tell the server so                      *)
(* "resend" the client has a timer of its own                                  *)
(* "repeat" the client of an upload answers an ACK it has already had with the *)
(*          block it is sending (as before RFC 1123)                           *)
(* "socket" socket, sendto and recvfrom may fail                               *)
(* "disk"   the disk of the server may be full                                 *)
ASSUME ChildAssumption ==
  /\ RetryLimit \in Nat \ {0}
  /\ BlockMod \in Nat \ {0}
  /\ NumBlocks \in Nat \ {0}
  /\ Lifetime \in Nat /\ Lifetime < BlockMod
  /\ Faults \subseteq {"late", "lossToClient", "lossToServer", "stray", "quit",
                       "resend", "repeat", "socket", "disk"}

VARIABLES
  request,        \* the RRQ or WRQ datagram, as the checks of the child see it
  pc,             \* where the child is: "start", "read", "send", "wait", "exit"
  outcome,        \* why the child exited, "none" before
  block_number, retryAttempts, flag,    \* the variables of the code
  toClient, toServer                    \* datagrams between the two sockets

childVars == <<request, pc, outcome, block_number, retryAttempts, flag,
               toClient, toServer>>

------------------------------------------------------------------------------
(* Requests. *)

Requests == [terminated : BOOLEAN,
             mode : {"missing", "unknown", "netascii", "octet"},
             opens : BOOLEAN]

WellFormed(r) == r.terminated /\ r.mode \in {"netascii", "octet"}

Accepted(r) == WellFormed(r) /\ r.opens

------------------------------------------------------------------------------
(* Datagrams. *)

Frame(op, block, at) == [op |-> op, block |-> block, at |-> at]

Frames == [op : {"DATA", "ACK", "ERR", "OTHER", "SHORT"},
           block : 0 .. (BlockMod - 1), at : 0 .. NumBlocks]

(* The error code travels where an ACK or DATA has its block number. *)
ErrorFrame(code) == Frame("ERR", code % BlockMod, 0)

UNDEFINED == 0
FILE_NOT_FOUND == 1

(* A DATA or ACK is not delivered to a side that is Lifetime blocks past it.  *)
(* Without this a datagram 65536 blocks old would pass for the current one.   *)
Alive(p, position) == p.op \in {"DATA", "ACK"} => p.at + Lifetime > position

Take(net, p) == IF "late" \in Faults THEN net ELSE net \ {p}

(* The receive timer of TIMEOUT seconds outlasts what is on its way, unless   *)
(* datagrams may be late.                                                     *)
QuietNever == TRUE                     \* variant: a timer below the round trip
Quiet == "late" \in Faults \/ (toClient = {} /\ toServer = {})

(* Drops are bounded by the receive attempts the child has left. *)
Lose ==
  /\ retryAttempts > 1
  /\ \/ /\ "lossToClient" \in Faults
        /\ \E p \in toClient : toClient' = toClient \ {p}
        /\ UNCHANGED toServer
     \/ /\ "lossToServer" \in Faults
        /\ \E p \in toServer : toServer' = toServer \ {p}
        /\ UNCHANGED toClient
  /\ UNCHANGED <<request, pc, outcome, block_number, retryAttempts, flag>>

(* Any host may send to the session port: tftp_recv does not look who did. *)
Stray ==
  /\ "stray" \in Faults
  /\ \E op \in {"OTHER", "SHORT"}, block \in {0, 1 % BlockMod} :
       toServer' = toServer \cup {Frame(op, block, 0)}
  /\ UNCHANGED <<request, pc, outcome, block_number, retryAttempts, flag, toClient>>

------------------------------------------------------------------------------
(* The child. *)

Exit(why) == pc' = "exit" /\ outcome' = why

ChildInit ==
  /\ request \in Requests
  /\ pc = "start" /\ outcome = "none"
  /\ block_number = 0 /\ retryAttempts = 0 /\ flag = FALSE
  /\ toClient = {} /\ toServer = {}

NoSocket ==
  /\ pc = "start" /\ "socket" \in Faults
  /\ Exit("noSocket")
  /\ UNCHANGED <<request, block_number, retryAttempts, flag, toClient, toServer>>

(* The checks of the request in their order: only a well-formed request gets  *)
(* as far as fopen, so only it can be answered "File not found".              *)
RejectRequest ==
  /\ pc = "start" /\ ~Accepted(request)
  /\ toClient' = toClient \cup
       {ErrorFrame(IF WellFormed(request) THEN FILE_NOT_FOUND ELSE UNDEFINED)}
  /\ Exit("rejected")
  /\ UNCHANGED <<request, block_number, retryAttempts, flag, toServer>>

(* retryAttempts-- and while (retryAttempts), with a variant of each. *)
OneLessRestarts(n) ==                  \* variant: the count is set up again
  IF n > 1 THEN n - 1 ELSE RetryLimit
OneLess(n) == n - 1
ExhaustedEarly(n) == n <= 1            \* variant: one attempt too few
Exhausted(n) == n = 0

(* tftp_recv hands over one of the datagrams that wait at the socket. *)
Receive(p, position) ==
  /\ pc = "wait" /\ p \in toServer /\ Alive(p, position)
  /\ toServer' = Take(toServer, p)

(* Report the error to whoever sent the last datagram, and exit. *)
Refuse(why) ==
  /\ toClient' = toClient \cup {ErrorFrame(UNDEFINED)}
  /\ Exit(why)

ReceiveShort(p, position) ==
  /\ Receive(p, position) /\ p.op = "SHORT"
  /\ Refuse("shortFrame")
  /\ UNCHANGED <<request, block_number, retryAttempts, flag>>

RecvFails ==
  /\ pc = "wait" /\ "socket" \in Faults
  /\ Exit("recvFailed")
  /\ UNCHANGED <<request, block_number, retryAttempts, flag, toClient, toServer>>

ChildTypeOK ==
  /\ request \in Requests
  /\ pc \in {"start", "read", "send", "wait", "exit"}
  /\ outcome \in {"none", "noSocket", "rejected", "sendFailed", "recvFailed",
                  "shortFrame", "retries", "clientError", "unknownOpcode",
                  "ackInvalid", "success"}
  /\ (outcome = "none") <=> (pc # "exit")
  /\ block_number \in 0 .. (BlockMod - 1)
  /\ retryAttempts \in 0 .. RetryLimit
  /\ flag \in BOOLEAN
  /\ toClient \subseteq Frames /\ toServer \subseteq Frames
=============================================================================
