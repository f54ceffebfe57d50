---------------------------- MODULE MCConversion ----------------------------
(***************************************************************************)
(* A small term graph for Conversion.  Constructors z and o; a chain of    *)
(* recursor applications r1, r2, r3, each casing on the one before, and    *)
(* d1, d2 that end in the redex b; definitions f, e, k, a, u, v and small  *)
(* theorems t, w of several heights; a projection p of a constructor and   *)
(* two stuck ones, sp and sq, of the axiom application g z; nested axiom    *)
(* applications g (g z), g (g o) and g (g r2), aliased by u and v, and c    *)
(* of the first two, which steps to z and o; a definition i with an opaque  *)
(* hint; and applications ya, yb of a small theorem to arguments that       *)
(* decline when they are compared.                                         *)
(***************************************************************************)
EXTENDS ConversionProps

\* name |-> [shape, head, args, step, major, rank, head step]
N(sh, h, as, s, m, r, hs) ==
    [sh |-> sh, h |-> h, as |-> as, s |-> s, m |-> m, r |-> r, hs |-> hs]

Graph ==
    [z   |-> N("rigid", "z", <<>>, "z", "z", 0, "z"),
     o   |-> N("rigid", "o", <<>>, "o", "o", 0, "o"),
     r1  |-> N("rec", "rec", <<"z">>, "z", "z", 0, "r1"),
     r2  |-> N("rec", "rec", <<"r1">>, "z", "r1", 0, "r2"),
     r3  |-> N("rec", "rec", <<"r2">>, "z", "r2", 0, "r3"),
     fz  |-> N("def", "f", <<"z">>, "z", "z", 1, "z"),
     fr  |-> N("def", "f", <<"r1">>, "r1", "z", 1, "r1"),
     e   |-> N("def", "e", <<>>, "fr", "z", 2, "fr"),
     t   |-> N("thm", "t", <<>>, "gz", "z", 0, "t"),
     b   |-> N("beta", "lam", <<>>, "fr", "z", 0, "fr"),
     p   |-> N("proj", "p", <<"e">>, "o", "e", 0, "p"),
     fo  |-> N("def", "f", <<"o">>, "o", "z", 1, "o"),
     q   |-> N("rec", "rec", <<"e">>, "z", "e", 0, "q"),
     d1  |-> N("rec", "rec", <<"b">>, "z", "b", 0, "d1"),
     d2  |-> N("rec", "rec", <<"d1">>, "z", "d1", 0, "d2"),
     k   |-> N("def", "k", <<>>, "d2", "z", 1, "d2"),
     w   |-> N("thm", "w", <<>>, "d2", "z", 0, "w"),
     gz  |-> N("rigid", "g", <<"z">>, "gz", "z", 0, "gz"),
     gr  |-> N("rigid", "g", <<"r2">>, "gr", "z", 0, "gr"),
     go  |-> N("rigid", "g", <<"o">>, "go", "z", 0, "go"),
     hz  |-> N("rigid", "g", <<"gz">>, "hz", "z", 0, "hz"),
     hr  |-> N("rigid", "g", <<"gr">>, "hr", "z", 0, "hr"),
     az  |-> N("def", "a", <<"z">>, "hz", "z", 5, "hz"),
     ar  |-> N("def", "a", <<"r1">>, "hr", "z", 5, "hr"),
     u   |-> N("def", "u", <<>>, "az", "z", 1, "az"),
     v   |-> N("def", "v", <<>>, "ar", "z", 3, "ar"),
     ho  |-> N("rigid", "g", <<"go">>, "ho", "z", 0, "ho"),
     cz  |-> N("def", "c", <<"hz">>, "z", "z", 1, "z"),
     co  |-> N("def", "c", <<"ho">>, "o", "z", 1, "o"),
     sp  |-> N("proj", "p", <<"gz">>, "o", "gz", 0, "sp"),
     sq  |-> N("proj", "p", <<"t">>, "o", "t", 0, "sq"),
     i   |-> N("def", "i", <<>>, "e", "z", 0, "e"),
     ya  |-> N("thm", "y", <<"hr">>, "gz", "z", 0, "ya"),
     yb  |-> N("thm", "y", <<"d2">>, "o", "z", 0, "yb")]

MCTerm == DOMAIN Graph
MCShape == [t \in MCTerm |-> Graph[t].sh]
MCHd == [t \in MCTerm |-> Graph[t].h]
MCArgs == [t \in MCTerm |-> Graph[t].as]
MCStep == [t \in MCTerm |-> Graph[t].s]
MCMajor == [t \in MCTerm |-> Graph[t].m]
MCRank == [t \in MCTerm |-> Graph[t].r]
MCHeadStep == [t \in MCTerm |-> Graph[t].hs]
MCCanonical == {"z", "o"}
MCOpaqueHints == {"i"}

\* Conv is the least relation its assumption admits: rounds of closure until
\* nothing is added.
Compose(R) == {<<s, u>> \in MCTerm \X MCTerm :
                  \E m \in MCTerm : <<s, m>> \in R /\ <<m, u>> \in R}
Rules(R) == {<<s, u>> \in MCTerm \X MCTerm :
    \/ <<u, s>> \in R
    \/ MCShape[s] \in {"beta", "def", "thm"} /\ u = MCStep[s]
    \/ /\ MCShape[s] \in {"proj", "rec"} /\ u = MCStep[s]
       /\ \E c \in MCCanonical : <<MCMajor[s], c>> \in R
    \/ u = MCHeadStep[s]
    \/ /\ MCShape[s] = MCShape[u] /\ MCShape[s] # "beta" /\ MCHd[s] = MCHd[u]
       /\ Len(MCArgs[s]) = Len(MCArgs[u])
       /\ \A i \in DOMAIN MCArgs[s] : <<MCArgs[s][i], MCArgs[u][i]>> \in R}

\* `{p : p \in S}` has TLC enumerate S before the next round uses it.
Grow(R) == LET Q == {p : p \in R \cup Rules(R)} IN {p : p \in Q \cup Compose(Q)}
Conv1 == Grow({<<s, s>> : s \in MCTerm})
Conv2 == Grow(Conv1)
Conv3 == Grow(Conv2)
Conv4 == Grow(Conv3)
Conv5 == Grow(Conv4)
Conv6 == Grow(Conv5)

\* The same relation by classes: the terms the rules identify with z, o, g z
\* and g (g z); every other term is alone.
Class(t) == CASE t \in {"r1", "r2", "r3", "fz", "fr", "e", "b",
                       "q", "d1", "d2", "k", "w", "cz", "i"} -> "z"
              [] t \in {"t", "gr", "ya"} -> "gz"
              [] t \in {"p", "fo", "co", "yb"} -> "o"
              [] t = "sq" -> "sp"
              [] t \in {"hr", "az", "ar", "u", "v"} -> "hz"
              [] OTHER -> t
MCConv == {p \in MCTerm \X MCTerm : Class(p[1]) = Class(p[2])}

ASSUME ConvIsLeast == MCConv = Conv6 /\ Grow(Conv6) = Conv6

\* Comparisons inference asks: equal and unequal pairs of every shape.
MCPairs == {<<"r2", "z">>, <<"r3", "z">>, <<"r2", "o">>, <<"fz", "fr">>,
            <<"fr", "b">>, <<"e", "p">>, <<"t", "gr">>, <<"hr", "hz">>,
            <<"gr", "go">>, <<"b", "e">>, <<"fz", "fo">>, <<"e", "fz">>,
            <<"q", "o">>, <<"d2", "z">>, <<"k", "o">>, <<"w", "gz">>,
            <<"k", "w">>, <<"u", "v">>, <<"sp", "sq">>, <<"sp", "fo">>,
            <<"hz", "ho">>, <<"cz", "co">>, <<"i", "w">>,
            <<"ya", "yb">>}
=============================================================================
