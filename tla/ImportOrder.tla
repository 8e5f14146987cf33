---------------------------- MODULE ImportOrder ----------------------------
(***************************************************************************)
(* What initModule (compiler/loader.cpp) promises, whatever the order in   *)
(* which it walks the imports: the modules of the program are registered   *)
(* one by one, none before the modules it imports, until all are, or until *)
(* a loop among the imports or an error in a source is reported.           *)
(***************************************************************************)
EXTENDS Naturals, Sequences

CONSTANTS
    Nodes,      \* the modules
    Roots       \* the modules every program contains

VARIABLES
    imports,    \* imports[m]: what m imports, fixed by the program
    flawed,     \* modules whose source has an error of its own
    order,      \* the modules registered so far, most recent first
    outcome     \* "running", "complete", "loop" or "rejected"

vars == <<imports, flawed, order, outcome>>

Dependencies(m) == {imports[m][i] : i \in 1 .. Len(imports[m])} \ {m}

Registered == {order[i] : i \in 1 .. Len(order)}

InProgram(m) ==
    \A S \in SUBSET Nodes :
        (/\ Roots \subseteq S
         /\ \A x \in S : Dependencies(x) \subseteq S) => m \in S

Loop ==
    \E S \in SUBSET Nodes :
        /\ S # {}
        /\ \A m \in S : InProgram(m) /\ Dependencies(m) \cap S # {}

Init ==
    /\ imports \in [Nodes -> Seq(Nodes)]
    /\ flawed \subseteq Nodes
    /\ order = <<>>
    /\ outcome = "running"

Register(m) ==
    /\ outcome = "running"
    /\ InProgram(m)
    /\ m \notin Registered
    /\ Dependencies(m) \subseteq Registered
    /\ order' = <<m>> \o order
    /\ UNCHANGED <<imports, flawed, outcome>>

Complete ==
    /\ outcome = "running"
    /\ \A m \in Nodes : InProgram(m) => m \in Registered
    /\ outcome' = "complete"
    /\ UNCHANGED <<imports, flawed, order>>

ReportLoop ==
    /\ outcome = "running"
    /\ Loop
    /\ outcome' = "loop"
    /\ UNCHANGED <<imports, flawed, order>>

(* A source of the program has an error of its own. *)
Reject ==
    /\ outcome = "running"
    /\ \E m \in flawed : InProgram(m)
    /\ outcome' = "rejected"
    /\ UNCHANGED <<imports, flawed, order>>

Next == Complete \/ ReportLoop \/ Reject \/ \E m \in Nodes : Register(m)

(* Progress is promised too: initialisation does not stop half-way. *)
Spec == Init /\ [][Next]_vars /\ WF_vars(Next)
=============================================================================
