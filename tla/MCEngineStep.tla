----------------------------- MODULE MCEngineStep -----------------------------
(* EngineStep on small instances. *)
EXTENDS EngineStep

CONSTANTS r1, r2, r3, r4   \* model values for requests

\* Requests with the same role are interchangeable.
SymStructured == Permutations(Structured)

===============================================================================
