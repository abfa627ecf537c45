---------------------------- MODULE FileTransfer ----------------------------
(* What one TFTP session promises, whoever sends: the copy grows by the next *)
(* block of the file and by nothing else, the receiver is done only when it  *)
(* has every block, and the sender is done only after the receiver is.       *)
(* Either side may fail at any moment before it is done, and stays failed.   *)
(* TftpRead and TftpWrite are shown to implement it, with the server as the  *)
(* sender in the first and as the receiver in the second.                    *)
EXTENDS Integers, Sequences

CONSTANT NumBlocks      \* blocks of the file; the last one ends the transfer

VARIABLES
  copy,                 \* the blocks the receiver holds, in its order
  sender, receiver      \* "busy", "done" or "failed"

vars == <<copy, sender, receiver>>

Init == copy = <<>> /\ sender = "busy" /\ receiver = "busy"

(* The receiver takes the next block. The last one completes the copy; in the *)
(* same step it may also learn that its session is over.                      *)
Grow ==
  /\ receiver = "busy"
  /\ Len(copy) < NumBlocks
  /\ copy' = Append(copy, Len(copy) + 1)
  /\ \/ Len(copy') < NumBlocks /\ receiver' = "busy"
     \/ Len(copy') = NumBlocks /\ receiver' = "done"
     \/ receiver' = "failed"
  /\ UNCHANGED sender

Confirm ==
  /\ sender = "busy" /\ receiver = "done"
  /\ sender' = "done"
  /\ UNCHANGED <<copy, receiver>>

SenderFails ==
  sender = "busy" /\ sender' = "failed" /\ UNCHANGED <<copy, receiver>>

ReceiverFails ==
  receiver = "busy" /\ receiver' = "failed" /\ UNCHANGED <<copy, sender>>

Next == Grow \/ Confirm \/ SenderFails \/ ReceiverFails

Spec == Init /\ [][Next]_vars
=============================================================================
