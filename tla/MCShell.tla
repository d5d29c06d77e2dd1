------------------------------- MODULE MCShell -------------------------------
(* An instance of Shell: pipelines of two and three stages, redirections, a    *)
(* program that does not exist, one that is no program, too many arguments.    *)
EXTENDS Shell

MCLines ==
  { <<"echo", "|", "cat">>, <<"cat", "<", "f", "|", "none">>, <<"f", "|", "cat", ">", "f">>,
    <<"echo", "&", "a", "b">>, <<"cat", "<", "|">>, <<>>,
    <<"none", "|", "cat", "|", "cat">>, <<"cat", "<", "f", "|", "cat", "|", "none">> }

(* The hypothesis of theorem PromptAloneCorrect. *)
ASSUME LinesAreStaged == \A line \in MCLines : Staged(line)

MCSegments ==
  {ph \in [va : 3..5, filesz : 0..8, memsz : 1..10] : ph.filesz <= ph.memsz}
=============================================================================
