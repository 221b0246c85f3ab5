------------------------------- MODULE MCPipe -------------------------------
(* Pipe with a two-byte buffer whose counters wrap quickly.                *)
EXTENDS Pipe
=============================================================================
