------------------------------- MODULE MCTerms -------------------------------
(***************************************************************************)
(* Terms, local contexts and the intern table in one run.  They share the  *)
(* operators on terms and no state, so every behaviour is one of theirs.   *)
(***************************************************************************)
EXTENDS Substitution, ContextKeys, Interner, TLC

VARIABLE part   \* whose behaviour it is

\* A closed leaf, an index, an open application and a binder.
MCPieces == {Const("c", <<"u", "v">>), BVar(0),
             App(BVar(3), BVar(1)), Lam(Sort("u"), App(BVar(0), BVar(1)))}

\* Two parameters exchanged.
MCLevelMaps == {"u" :> "v" @@ "v" :> "u"}

\* With two bits to a word and lists of two, types reach from a word to the
\* list form and from lists to the whole context.
MCTypes == {Sort("u"), BVar(0), BVar(1), App(BVar(0), BVar(2))}
MCQueries == {BVar(0), BVar(2), App(BVar(0), BVar(2)), Lam(BVar(1), BVar(0))}

\* Two leaves and a kind with one part; the leaves and some of the others share
\* a hash, so lookups meet collisions and overflow lists grow.
MCOps == {"a", "b", "proj"}
MCArity == [op \in MCOps |-> IF op = "proj" THEN 1 ELSE 0]
MCHashOf(d) == IF d.op = "proj" /\ d.kids[1] = 1 THEN 1 ELSE 0
Symmetry == Permutations(Extras)

\* What does not take part waits in an initial state.
Init ==
    /\ part \in {"substitution", "keys", "interner"}
    /\ SubstInit /\ (part # "substitution" => e = BVar(0))
    /\ KeyInit
    /\ InternInit /\ (part # "interner" => ~weak)

Next ==
    \/ part = "substitution" /\ SubstNext /\ UNCHANGED <<part, keyVars, internVars>>
    \/ part = "keys" /\ KeyNext /\ UNCHANGED <<part, substVars, internVars>>
    \/ part = "interner" /\ InternNext /\ UNCHANGED <<part, substVars, keyVars>>

Spec == Init /\ [][Next]_<<part, substVars, keyVars, internVars>>

\* The states of the parts are what the code can hold.
TypeOK == SubstTypeOK /\ KeyTypeOK /\ InternTypeOK
=============================================================================
