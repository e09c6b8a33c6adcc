----------------------------- MODULE MCPipeline -----------------------------
(***************************************************************************)
(* Every script alone while one file is replaced; every script started     *)
(* twice on the same directory; the service started while the evaluation   *)
(* writes its bundle and two files are replaced; and evaluators with       *)
(* different or the same policies after the same holdout.                 *)
(***************************************************************************)
EXTENDS ScriptRules

Job(script, policy) == [script |-> script, policy |-> policy]

Alone(s) == [jobs |-> [a |-> Job(s, "p")], edits |-> 1]
Twice(s) == [jobs |-> [a |-> Job(s, "p"), b |-> Job(s, "p")], edits |-> 0]
Together(s, t, policy, n) == [jobs |-> [a |-> Job(s, "p"), b |-> Job(t, policy)], edits |-> n]

Single == DOMAIN Scripts \ {"serve", "other_final"}

MCWorlds ==
    {Alone(s) : s \in Single} \cup {Twice(s) : s \in Single} \cup
    {Together("test", "serve", "p", 2),
     Together("test", "other_final", "q", 1), Together("final", "other_final", "q", 1),
     Together("final", "other_final", "p", 0)}

=============================================================================
