------------------------------- MODULE MCPipe -------------------------------
(* Model values and bounds for checking Pipe with TLC. *)
EXTENDS Pipe
CONSTANTS e1, e2

TwoEnvs   == {e1, e2}
First1    == {e1}
Second    == {e2}
Nobody    == {}
=============================================================================
