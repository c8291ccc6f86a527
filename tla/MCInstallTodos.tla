--------------------------- MODULE MCInstallTodos ---------------------------
(* Model-checking instance of InstallTodos: every file of at most three  *)
(* characters over 'a', 'b' and '\n'.                                     *)
EXTENDS InstallTodos

MCFiles == UNION {[1..n -> {"a", "b", "NL"}] : n \in 0..3}
=============================================================================
