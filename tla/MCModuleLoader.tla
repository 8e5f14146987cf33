-------------------------- MODULE MCModuleLoader --------------------------
(* Instances of ModuleLoader for TLC. *)
EXTENDS ModuleLoader

CONSTANTS a, b

Lists(n) == UNION {[1 .. k -> Modules] : k \in 0 .. n}

(* Every import graph over a and b with at most two imports each, self-imports and
   repeated imports included, under every import of the prelude and a main module
   that imports a. *)
AllGraphs ==
    {[imports |-> [x \in Everything |-> IF x = Prelude THEN p ELSE IF x = Main THEN m ELSE f[x]],
      defect  |-> [x \in Everything |-> "none"]] :
        p \in Lists(1), m \in {<<a>>, <<a, b>>, <<a, a>>, <<Prelude, a>>}, f \in [{a, b} -> Lists(2)]}

(* Sources with errors. *)
BrokenSources ==
    {[imports |-> [x \in Everything |-> IF x = Prelude THEN p ELSE IF x = Main THEN m ELSE f[x]],
      defect  |-> [x \in Everything |-> IF x \in {Main, Prelude} THEN "none" ELSE d[x]]] :
        p \in {<<>>, <<b>>}, m \in {<<a>>, <<a, b>>}, f \in [{a, b} -> Lists(1)], d \in [{a, b} -> Defects]}

Compilations == AllGraphs \cup BrokenSources

(* A session that starts from a main module and a prelude without imports, over
   modules that may have errors. *)
Sessions ==
    {[imports |-> [m \in Everything |-> IF m \in {Main, Prelude} THEN <<>> ELSE f[m]],
      defect  |-> [m \in Everything |-> IF m \in {Main, Prelude} THEN "none" ELSE d[m]]] :
        f \in [Modules \ {Prelude} -> {<<>>, <<a>>, <<b>>, <<a, b>>, <<b, a>>}],
        d \in [Modules \ {Prelude} -> Defects]}

NoCommands  == {}
Lines       == {<<a>>, <<b>>, <<a, b>>}
=============================================================================
