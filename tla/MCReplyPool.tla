---------------------------- MODULE MCReplyPool -----------------------------
(* Module ReplyPool with two or three clients.                             *)
EXTENDS ReplyPool, TLC
=============================================================================
