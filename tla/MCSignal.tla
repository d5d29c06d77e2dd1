------------------------------ MODULE MCSignal ------------------------------
(* Model values and bounds for checking Signal with TLC. *)
EXTENDS Signal
CONSTANTS e1, e2

Act(s, h, m) == [signo |-> s, handler |-> h, mask |-> m]

TwoEnvs   == {e1, e2}

IntSegv   == {2, SIGSEGV}
IntMask   == {{2}}
IntActs   == {Act(2, TRUE, {}), Act(SIGSEGV, TRUE, {2})}
=============================================================================
