----------------------------- MODULE MCProcess ------------------------------
(* Process with a small process table and few pids.                        *)
EXTENDS Process, TLC
=============================================================================
