---------------------------- MODULE MCEnvSched ----------------------------
(* Model values and bounds for checking EnvSched with TLC. *)
EXTENDS EnvSched

MCEnvs       == 0..(NENV - 1)
RunnableOnly == {ENV_RUNNABLE}
AnyStatus    == {ENV_RUNNABLE, ENV_NOT_RUNNABLE}
=============================================================================
