---------------------------- MODULE MCTftpServer ----------------------------
(* TftpServer for TLC: two uploads and a download of one file, and a datagram *)
(* that is no request. One of the uploads may be delivered twice.             *)
EXTENDS TftpServer

Request(id, op) == [id |-> id, op |-> op, name |-> "file"]
OneFile == {Request(1, "WRQ"), Request(2, "WRQ"), Request(3, "RRQ"), Request(4, "BAD")}
FirstTwice == [r \in OneFile |-> IF r.id = 1 THEN 2 ELSE 1]
=============================================================================
