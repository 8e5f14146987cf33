---------------------------- MODULE ScopeCleanup ----------------------------
(***************************************************************************)
(* What the language reference promises about the end of a scope, with no  *)
(* code generator in it: the things that have to be cleaned up (a local    *)
(* variable, a temporary, a finally or an onerror statement) come to life  *)
(* one at a time, are cleaned up in the opposite order, each once, and     *)
(* none of them survives the procedure.                                    *)
(***************************************************************************)
EXTENDS Sequences, SequencesExt

CONSTANT Entries

VARIABLES live, done

vars == <<live, done>>

Init == live = <<>> /\ done = FALSE

Acquire == /\ ~done
           /\ \E e \in Entries :
                 /\ ~Contains(live, e)
                 /\ live' = Append(live, e)
           /\ UNCHANGED done

Release == /\ ~done
           /\ live # <<>>
           /\ live' = Front(live)
           /\ UNCHANGED done

Finish == /\ ~done
          /\ live = <<>>
          /\ done' = TRUE
          /\ UNCHANGED live

Next == Acquire \/ Release \/ Finish

Spec == Init /\ [][Next]_vars
=============================================================================
