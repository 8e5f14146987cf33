------------------------------ MODULE MCParser ------------------------------
(***************************************************************************)
(* Texts for the parser.  A chunk is a piece of a file that ends where the *)
(* parser can find its feet again, with the outcome it has on its own.     *)
(* The chunks are written from the documented grammar                      *)
(* (doc/language-reference/grammar.md) and the parser is run on their      *)
(* sequences.                                                              *)
(***************************************************************************)
EXTENDS Parser, Language

Chunk(text, outcomes) == [text |-> text \o "\n", log |-> outcomes]
Good(kind) == <<[kind |-> kind, errs |-> 0, lost |-> FALSE]>>
Bad(kind, n) == <<[kind |-> kind, errs |-> n, lost |-> FALSE]>>
Broken == Bad("broken", 1)

-----------------------------------------------------------------------------
(* Declarations, well formed and malformed.                                *)

GoodItems ==
  {Chunk("record R[T, ..U](x: Int, y: T,);", Good("record")),
   Chunk("[T, ..U when T] private record P[T] = Int, T;", Good("record")),
   Chunk("public variant V(Int, Float);", Good("variant")),
   Chunk("[T] instance a.V[T] (Int);", Good("instance")),
   Chunk("enum E (A, B,);", Good("enum")),
   Chunk("newtype N = Int;", Good("newtype")),
   Chunk("[T] var g[T] = 1u8; // c", Good("variable")),
   Chunk("private alias A = f(/* */ 0x1_f);", Good("alias")),
   Chunk("external (cdecl) puts(s: P, ..) : Int;", Good("external")),
   Chunk("external errno: Int;", Good("external")),
   Chunk("define f;", Good("procedure")),
   Chunk("define f(x) : Int private overload;", Good("procedure")),
   Chunk("[[transparent]] f(x:Int, #1, rvalue y) {}", Good("procedure")),
   Chunk("[T] inline alias overload f(..x) --> r: T { r = 1; }",
         Good("overload")),
   Chunk("f(a: Int) : Int __llvm__ { ; }\n ret \"}\" }", Good("procedure")),
   Chunk("eval f(x), '\\n';", Good("eval")),
   Chunk("staticassert(a, \"m\");", Good("staticassert"))}

Documented ==
  {Chunk("/// hello\n/// world", Good("documentation")),
   Chunk("/** @section S\n * hello */", Good("documentation"))}

BadItems ==
  {Chunk("garbage here;", Broken),
   Chunk("record R(x);", Broken),
   Chunk("f(x { y }", Broken),
   Chunk("[T] enum E ();", Broken \o Broken),
   Chunk("static f = 1;", Broken),
   Chunk("f() { x y; if (; z = 1; }", Bad("procedure", 2)),
   Chunk("f() { g(a -> { b b; }); }", Bad("procedure", 1)),
   Chunk("f() { while (x) { y } z; }", Bad("procedure", 1))}

(* A text that the lexer refuses, pattern variables that are not closed,   *)
(* and as many errors as the parser reports.                               *)
Unterminated == Chunk("f() { \"a; }", Refused)
Unclosed == Chunk("[T f() {}", <<>>)
(* What the grammar calls error() for.                                     *)
Fatals ==
  {Chunk(t, Refused) : t \in
     {"f(x, #..y) {}", "f() { x y; if (a.08) b; }", "f() { return a.1_0; }",
      "/// @nosuch thing", "/** @section S\n * @nosuch thing */"}}
ManyErrors ==
  [i \in 1 .. MaxParseErrors |-> Chunk("garbage;", Broken)]

-----------------------------------------------------------------------------
(* Imports.                                                                *)

Imports ==
  {Chunk("import a.b as c;", Good("import")),
   Chunk("public import a.*;", Good("import")),
   Chunk("import a.(b, private c as d,);", Good("import")),
   Chunk("import ;", Broken),
   Chunk("import a b;", Broken),
   Chunk("import a.();", Broken)}

Header == Chunk("in a.b (c);", Good("in"))

-----------------------------------------------------------------------------
(* Statements, each in a procedure of its own.                             *)

Expressions ==
  {"f(1, a)", "not a.b[c] and d.0 or -1 + x", "a -> { return a; }",
   "if (a) b else c", "..(a, b)", "(x, ref y:T) => x", "k: @x^", "[]"}

Simple ==
  UNION {{e \o ";", "x, y = 1, " \o e \o ";", "x <-- " \o e \o ";",
          "x +: " \o e \o ";", "+: " \o e \o ";",
          "return ref " \o e \o ";", "throw " \o e \o ";",
          "eval " \o e \o ";", "var a, b: T = " \o e \o ";"} :
         e \in Expressions}
  \cup {"return;", "l: goto l;", "break;", "continue;"}

Inner == {"x;", "return a -> a;", "if (a) b else c;", "{ k: v; }"}

Compound ==
  UNION {{"if (a) " \o s, "if (ref r = a; x +: 1; r) " \o s \o " else " \o s,
          "while (a) " \o s, "for (a, b in c) " \o s,
          "..for (a in b, c) " \o s,
          "switch (a) case (1, 2) " \o s \o " case (3) " \o s
            \o " else " \o s,
          "try { " \o s \o " } catch (e: E) { " \o s \o " } catch (e) {}",
          "finally " \o s, "onerror " \o s,
          "staticassert(a, b); " \o s} : s \in Inner}

Procedure(s) == Chunk("f() { " \o s \o " }", Good("procedure"))

-----------------------------------------------------------------------------
Anchor == Chunk("enum E (A);", Good("enum"))

MCPrograms ==
  {<<>>, <<Header>>, ManyErrors, <<Anchor, Unclosed>>, <<Anchor, Unterminated>>}
  \cup {<<Anchor, f>> : f \in Fatals} \cup {<<f, Anchor>> : f \in Fatals}
  \cup {<<Chunk("in a.b (c.09);", Refused), Anchor>>}
  \cup {<<i, j, Header, Anchor>> : i, j \in Imports}
  \cup {<<a, b, Anchor>> : a, b \in BadItems}
  \cup {<<a, b>> : a \in BadItems, b \in GoodItems}
  \cup {<<a, b>> : a \in GoodItems, b \in BadItems \cup Documented}
  \cup {<<d, g>> : d \in Documented, g \in GoodItems}
  \cup {<<Procedure(s)>> : s \in Simple \cup Compound}

-----------------------------------------------------------------------------
(* An overload with a return type and the LLVM body that the grammar       *)
(* allows it.                                                              *)
MCDocumented ==
  {<<Chunk("overload f(x: Int) : Int __llvm__ { ret }", Good("overload"))>>}
=============================================================================
