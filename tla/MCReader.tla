------------------------------ MODULE MCReader ------------------------------
(***************************************************************************)
(* The reader's own machinery in one run: the tables of the export behind  *)
(* the current line, the proof store and its blobs, and the declarations.  *)
(* Each is modelled with what it asks of the others as input; they share   *)
(* no state, so every behaviour is one of theirs.                          *)
(***************************************************************************)
EXTENDS Lifetime, ProofStore, ProofCodec, Import, TLC

CONSTANTS Parts,        \* the parts that take part
          t1, t2, t3    \* the theorems
VARIABLE part           \* whose behaviour it is

MCTheorems == {t1, t2, t3}
\* The proof of t1 has a level too deep for the reader.
MCTooDeep == {t1}
Symmetry == Permutations(MCTheorems \ MCTooDeep)

\* Leaves with small and large numbers, levels of every shape, the last two of
\* the reader's depth and one beyond, literals.
Sort(l) == Node(T_SORT, l, <<>>)
P(n) == L!Param(n)
RECURSIVE Above(_, _)
Above(l, k) == IF k = 0 THEN l ELSE L!Succ(Above(l, k - 1))
MCLeaves ==
    { Node(T_BVAR, 0, <<>>), Node(T_BVAR, 63, <<>>),
      Sort(L!IMax(P(0), L!Max(P(9), L!Succ(P(1))))), Sort(L!IMax(P(1), P(9))),
      Sort(L!Max(L!Zero, L!Succ(L!IMax(P(1), P(0))))),
      Sort(Above(P(0), LevelDepth)), Sort(Above(P(0), LevelDepth + 1)),
      Node(T_CONST, [name |-> 8, us |-> <<>>], <<>>),
      Node(T_CONST, [name |-> 7, us |-> <<L!Zero, L!Max(P(0), P(1))>>], <<>>),
      Node(T_NAT, 0, <<>>), Node(T_NAT, 300, <<>>), Node(T_STR, <<15, 0>>, <<>>) }

\* Two types, one of them spelled by two indices, with their recursors and an
\* auxiliary recursor.  Index 0 is the anonymous name.
MCNameLines == << <<0, <<"A">>>>, <<0, <<"B">>>>, <<1, <<"rec">>>>, <<2, <<"rec">>>>,
                  <<1, <<"rec_1">>>>, <<1, <<"a">>>>, <<1, <<"b">>>>, <<0, <<"A">>>> >>

\* What does not take part waits in an initial state.
Init ==
    /\ part \in Parts
    /\ LifeInit
    /\ StoreInit /\ (part # "store" => keep /\ ~lifetimes /\ referenced = {})
    /\ CodecInit /\ (part # "codec" => root = Node(T_NAT, 0, <<>>))
    /\ ImportInit

Next ==
    \/ part = "lifetime" /\ LifeNext /\ UNCHANGED <<part, storeVars, codecVars, importVars>>
    \/ part = "store" /\ StoreNext /\ UNCHANGED <<part, lifeVars, codecVars, importVars>>
    \/ part = "codec" /\ CodecNext /\ UNCHANGED <<part, lifeVars, storeVars, importVars>>
    \/ part = "import" /\ ImportNext /\ UNCHANGED <<part, lifeVars, storeVars, codecVars>>

Spec == Init /\ [][Next]_<<part, lifeVars, storeVars, codecVars, importVars>>

\* The states of the parts are what the code can hold.
TypeOK == LifeTypeOK /\ StoreTypeOK /\ CodecTypeOK /\ ImportTypeOK
=============================================================================
