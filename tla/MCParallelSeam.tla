--------------------------- MODULE MCParallelSeam ---------------------------
(* Model values for ParallelSeam: two conversations that share the prefix     *)
(* <<a, a>>, and a prompt that outgrows the slot.                            *)
EXTENDS ParallelSeam

CONSTANTS r1, r2, r3, a, b

MCRequests == {r1, r2, r3}
MCTokens == {a, b}
Symmetry == Permutations(MCRequests)

(* Everything fits, and whatever returns an error may return one.            *)
Failing ==
  [prompts |-> {<<a, a, a>>, <<a, a, b>>, <<b>>}, replies |-> {<<b, b>>},
   faults |-> {"copy", "generate"}]

(* One of the prompts is refused; copies succeed.                            *)
Refusing ==
  [prompts |-> {<<a, a, b>>, <<a, a, a, b, b, b>>}, replies |-> {<<b, b>>},
   faults |-> {"generate"}]

(* A copy may fail, and a prompt be refused.                                 *)
Spoiling ==
  [prompts |-> {<<a, a, b>>, <<b>>, <<a, a, a, b, b, b>>}, replies |-> {<<b, b>>},
   faults |-> {"copy"}]

(* Copies go wrong in every way, and refusals come on top.                   *)
Panicking ==
  [Refusing EXCEPT !.faults = {"copy", "panic"}]

MCPassing == {Failing, Refusing, Panicking}
MCPanicking == {Panicking}
MCSpoiling == {Spoiling}
=============================================================================
