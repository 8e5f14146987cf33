--------------------------- MODULE MCSymbolTables ---------------------------
(***************************************************************************)
(* Instances of SymbolTables: a main module, the prelude and two modules   *)
(* that may import each other, with two names.                             *)
(***************************************************************************)
EXTENDS SymbolTables

CONSTANTS a, b, x, y

Star(from, visible) ==
    [kind |-> "star", from |-> from, visible |-> visible,
     member |-> None, as |-> None, forced |-> FALSE]
Member(from, n, as, forced, visible) ==
    [kind |-> "member", from |-> from, visible |-> visible,
     member |-> n, as |-> as, forced |-> forced]
Named(from, as, visible) ==
    [kind |-> "module", from |-> from, visible |-> visible,
     member |-> None, as |-> as, forced |-> FALSE]

G(gx, gy) == [n \in Names |-> IF n = x THEN gx ELSE gy]

UpTo(S, k) == UNION {[1 .. j -> S] : j \in 0 .. k}

MCModules == {Main, Prelude, a, b}
MCNames == {x, y}
MCAsked ==
    {[table |-> "all", module |-> Main, name |-> n] : n \in Names}
    \cup {[table |-> "public", module |-> m, name |-> x] : m \in {a, b}}

Prog(gm, ga, gb, gp, im, ia, ib, ip, session) ==
    [ globals |-> (Main :> gm) @@ (a :> ga) @@ (b :> gb) @@ (Prelude :> gp),
      imports |-> (Main :> im) @@ (a :> ia) @@ (b :> ib) @@ (Prelude :> ip),
      interactive |-> session ]

MainImports ==
    { Star(a, "PRIVATE"), Star(b, "PRIVATE"), Member(b, x, x, FALSE, "PRIVATE"),
      Member(a, y, x, TRUE, "PRIVATE"), Named(a, x, "PRIVATE") }
AImports ==
    { Star(b, "PUBLIC"), Star(b, "PRIVATE"), Member(b, x, y, FALSE, "PUBLIC"),
      Named(b, y, "PUBLIC"), Star(a, "PUBLIC") }

(* b imports nothing: the import graph has no loops but a's import of itself. *)
Layered ==
    {Prog(gm, ga, gb, G(None, "PUBLIC"), im, ia, <<>>, <<>>, FALSE) :
        gm \in {G(None, None), G("PRIVATE", None)},
        ga \in {G("PUBLIC", None), G(None, "PRIVATE")},
        gb \in {G("PUBLIC", "PUBLIC"), G("PRIVATE", None)},
        im \in UpTo(MainImports, 2),
        ia \in UpTo(AImports, 1)
               \cup {<<Star(b, "PRIVATE"), Member(b, x, y, FALSE, "PUBLIC")>>,
                     <<Member(b, x, y, FALSE, "PUBLIC"), Star(b, "PUBLIC")>>,
                     <<Named(b, y, "PUBLIC"), Star(b, "PUBLIC")>>}}

(* a, b and the prelude in loops: met by lookups made before the loop is reported. *)
Loops ==
    {Prog(G(None, None), G("PUBLIC", None), gb, G(None, None), <<im>>, ia, <<ib>>, ip, FALSE) :
        gb \in {G(None, "PUBLIC"), G("PRIVATE", None)},
        im \in {Star(a, "PRIVATE"), Member(b, x, x, FALSE, "PRIVATE")},
        ia \in UpTo({Star(b, "PUBLIC"), Member(b, y, y, FALSE, "PUBLIC"), Star(Prelude, "PUBLIC")}, 2),
        ib \in {Star(a, "PUBLIC"), Member(a, y, x, FALSE, "PUBLIC"), Member(a, x, y, TRUE, "PRIVATE")},
        ip \in {<<>>, <<Star(Prelude, "PUBLIC"), Star(a, "PUBLIC")>>}}

Sessions ==
    {Prog(G(None, None), ga, G("PUBLIC", "PUBLIC"), G(None, "PUBLIC"), im, ia, <<>>, <<>>, TRUE) :
        ga \in {G("PUBLIC", None), G(None, "PRIVATE")},
        im \in UpTo({Star(a, "PRIVATE"), Member(b, x, x, FALSE, "PRIVATE")}, 1),
        ia \in {<<>>, <<Star(b, "PUBLIC")>>, <<Member(b, x, y, FALSE, "PUBLIC")>>,
                <<Star(Main, "PUBLIC")>>}}

(* a imports a member of itself between two stars that both provide it. *)
OfItself ==
    {Prog(G(None, None), G(None, None), G("PUBLIC", None), G("PUBLIC", None), <<>>,
          <<Star(b, "PUBLIC"), Member(a, x, y, FALSE, "PUBLIC"), Star(Prelude, "PUBLIC")>>,
          <<>>, <<>>, TRUE)}

(* Star imports ahead of the import of a module under a name they may provide, and
   behind it; the prelude's own shape, public import core.*; public import prelude. *)
Clashes ==
    {Prog(G(None, None), G(None, None), gb, G(None, None), im, ia, <<>>, ip, session) :
        gb \in {G("PUBLIC", None), G(None, "PUBLIC")},
        im \in {<<Star(a, "PRIVATE")>>, <<Member(a, x, y, FALSE, "PRIVATE")>>,
                <<Star(b, "PRIVATE"), Named(a, x, "PRIVATE")>>},
        ia \in {<<Star(b, "PUBLIC"), Named(b, x, "PUBLIC")>>,
                <<Star(b, "PRIVATE"), Named(Prelude, x, "PUBLIC"), Star(b, "PUBLIC")>>,
                <<Star(a, "PRIVATE"), Named(b, x, "PRIVATE"), Star(b, "PUBLIC")>>,
                <<Named(b, x, "PRIVATE"), Star(a, "PUBLIC"), Star(b, "PUBLIC")>>},
        ip \in {<<Star(b, "PUBLIC"), Named(Prelude, y, "PUBLIC")>>},
        session \in BOOLEAN}

MCPrograms == Layered \cup Loops \cup Sessions \cup OfItself \cup Clashes

MCLines ==
    {[import |-> i] : i \in {Star(b, "PRIVATE"), Member(a, y, y, FALSE, "PRIVATE"),
                             Named(b, x, "PUBLIC")}}
    \cup {[define |-> x, visibility |-> "PUBLIC"]}
=============================================================================
