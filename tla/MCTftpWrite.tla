----------------------------- MODULE MCTftpWrite -----------------------------
(* TftpWrite for TLC. Five blocks and block numbers modulo 4 let the number   *)
(* wrap around in the middle of a transfer.                                   *)
EXTENDS TftpWrite
=============================================================================
