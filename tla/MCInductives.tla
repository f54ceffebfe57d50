----------------------------- MODULE MCInductives ----------------------------
(***************************************************************************)
(* The constants declared before, and a family of blocks over them: one    *)
(* type with up to two constructors of up to two fields, with and without  *)
(* a parameter and an index, in Prop and in Type; and pairs of types.      *)
(* Quotient declarations are in the same run and share no state with them. *)
(***************************************************************************)
EXTENDS Reduction, Quotients

MCNames == STRING
MCUniverses == L!Level
VARIABLE part   \* whose behaviour it is

One == L!Succ(L!Zero)
U == L!Param(1)
C0(n) == Const(n, <<>>)
Type(us, np, ni, all, ctors, typ) ==
    [kind |-> "type", lps |-> us, np |-> np, ni |-> ni, all |-> all, ctors |-> ctors, typ |-> typ]
Ctor(us, np, typ) == [kind |-> "ctor", lps |-> us, np |-> np, typ |-> typ]
Def(typ, value) == [kind |-> "def", lps |-> <<>>, typ |-> typ, value |-> value]
AppU(n, as) == Apps(Const(n, <<U>>), as)

\* Container types over Sort u with one parameter A, here BVar(d).
MCPrior ==
    [ N    |-> Type(<<>>, 0, 0, <<"N">>, <<"z", "s">>, Sort(One)),
      z    |-> Ctor(<<>>, 0, C0("N")),
      s    |-> Ctor(<<>>, 0, Pi(C0("N"), C0("N"))),
      L    |-> Type(<<1>>, 1, 0, <<"L">>, <<"nil", "cons">>, Pi(Sort(U), Sort(U))),
      nil  |-> Ctor(<<1>>, 1, Pi(Sort(U), AppU("L", <<BVar(0)>>))),
      cons |-> Ctor(<<1>>, 1, Pi(Sort(U), Pi(BVar(0), Pi(AppU("L", <<BVar(1)>>), AppU("L", <<BVar(2)>>))))),
      R    |-> Type(<<1>>, 1, 0, <<"R">>, <<"node">>, Pi(Sort(U), Sort(U))),
      node |-> Ctor(<<1>>, 1, Pi(Sort(U), Pi(BVar(0), Pi(AppU("L", <<AppU("R", <<BVar(1)>>)>>),
                                                       AppU("R", <<BVar(2)>>))))),
      G    |-> Type(<<1>>, 1, 0, <<"G">>, <<"neg">>, Pi(Sort(U), Sort(U))),
      neg  |-> Ctor(<<1>>, 1, Pi(Sort(U), Pi(Pi(BVar(0), BVar(1)), AppU("G", <<BVar(1)>>)))),
      B    |-> Type(<<1>>, 1, 0, <<"B">>, <<"box">>, Pi(Sort(U), Sort(U))),
      box  |-> Ctor(<<1>>, 1, Pi(Sort(U), Pi(BVar(0), AppU("B", <<BVar(1)>>)))),
      W    |-> Type(<<1>>, 1, 1, <<"W">>, <<"w">>, Pi(Sort(U), Pi(C0("N"), Sort(U)))),
      w    |-> Ctor(<<1>>, 1, Pi(Sort(U), Pi(BVar(0), AppU("W", <<BVar(1), C0("z")>>)))),
      K    |-> Def(Pi(Sort(One), Pi(Sort(One), Sort(One))), Lam(Sort(One), Lam(Sort(One), BVar(1)))),
      M    |-> Def(Pi(Sort(One), Sort(One)),
                   Lam(Sort(One), Apps(Const("L", <<One>>), <<BVar(0)>>))) ]

-----------------------------------------------------------------------------
\* The group's n-th type under `depth` binders, at index ix.
SelfAt(n, np, ni, depth, ix) ==
    Apps(C0(n), (IF np = 1 THEN <<BVar(depth - 1)>> ELSE <<>>) \o (IF ni = 1 THEN <<ix>> ELSE <<>>))

\* Field domains under `depth` binders; `local`: the field before is an N.
Fields(n, other, np, ni, sort, depth, local) ==
    LET zero == C0("z")
        self(d) == SelfAt(n, np, ni, d, zero)
        in(c, t) == Apps(Const(c, <<sort>>), <<t>>)
        type == sort = One
    IN  {C0("N"), self(depth), Pi(C0("N"), self(depth + 1)), Pi(self(depth), C0("N")),
         in("L", self(depth)), Pi(C0("N"), in("L", self(depth + 1))),
         in("R", self(depth)), in("G", self(depth)), in("L", in("L", self(depth))),
         in("B", self(depth)), Apps(Const("W", <<sort>>), <<self(depth), zero>>)}
        \cup (IF np = 1 THEN {BVar(depth - 1), in("L", BVar(depth - 1))} ELSE {})
        \cup (IF np = 1 /\ ni = 0 THEN {Apps(C0(n), <<C0("N")>>)} ELSE {})
        \cup (IF type THEN {Apps(C0("K"), <<self(depth), C0("N")>>),
                            Apps(C0("K"), <<C0("N"), self(depth)>>),
                            Pi(C0("N"), Apps(C0("K"), <<C0("N"), self(depth + 1)>>)),
                            Apps(C0("M"), <<self(depth)>>)} ELSE {})
        \cup (IF ni = 1 /\ local THEN {SelfAt(n, np, ni, depth, BVar(0)),
                                       in("L", SelfAt(n, np, ni, depth, BVar(0)))} ELSE {})
        \cup (IF other # n THEN {SelfAt(other, np, ni, depth, zero),
                                 in("L", SelfAt(other, np, ni, depth, zero))} ELSE {})

\* Constructor types of up to two fields; the conclusion's index is zero or the
\* successor of a first field that is a number.
CtorTypes(n, other, np, ni, sort, max) ==
    LET param(t) == IF np = 1 THEN Pi(Sort(One), t) ELSE t
        fs(depth, local) == Fields(n, other, np, ni, sort, depth, local)
        concl(depth, k, first) ==
            SelfAt(n, np, ni, depth, IF first = C0("N") THEN App(C0("s"), BVar(k - 1)) ELSE C0("z"))
    IN  { param(concl(np, 0, <<"none">>)) }
        \cup { param(Pi(f, concl(np + 1, 1, f))) : f \in fs(np, FALSE) }
        \cup (IF max < 2 THEN {}
              ELSE UNION { { param(Pi(f, Pi(g, concl(np + 2, 2, f)))) :
                                g \in fs(np + 1, f = C0("N")) } : f \in fs(np, FALSE) })

RECURSIVE Occurs2(_, _)
Occurs2(t, n) == t = C0(n) \/ \E p \in Parts(t) : Occurs2(p[1], n)

TypeOf(np, ni, sort) ==
    LET i == IF ni = 1 THEN Pi(C0("N"), Sort(sort)) ELSE Sort(sort)
    IN  IF np = 1 THEN Pi(Sort(One), i) ELSE i

Single(np, ni, sort, c, extra) ==
    LET ctors == IF extra THEN <<"a", "b">> ELSE <<"a">>
        nil == LET self == SelfAt("T", np, ni, np, C0("z")) IN IF np = 1 THEN Pi(Sort(One), self) ELSE self
    IN  [types |-> <<"T">>,
         decls |-> [T |-> Type(<<>>, np, ni, <<"T">>, ctors, TypeOf(np, ni, sort)),
                    a |-> Ctor(<<>>, np, c), b |-> Ctor(<<>>, np, nil)]]

Pair(np, ni, s1, s2, c1, c2) ==
    [types |-> <<"T", "V">>,
     decls |-> [T |-> Type(<<>>, np, ni, <<"T", "V">>, <<"a">>, TypeOf(np, ni, s1)),
                V |-> Type(<<>>, np, ni, <<"T", "V">>, <<"b">>, TypeOf(np, ni, s2)),
                a |-> Ctor(<<>>, np, c1), b |-> Ctor(<<>>, np, c2)]]

\* A predicate with a universe of its own: Sort u, and a field of that type.
Poly == [types |-> <<"T">>,
         decls |-> [T |-> Type(<<1>>, 1, 0, <<"T">>, <<"a">>, Pi(Sort(U), Sort(U))),
                    a |-> Ctor(<<1>>, 1, Pi(Sort(U), Pi(BVar(0), Pi(AppU("L", <<AppU("T", <<BVar(1)>>)>>),
                                                                  AppU("T", <<BVar(2)>>)))))]]

Sorts == {L!Zero, One}
Shapes == {<<0, 0>>, <<1, 0>>, <<0, 1>>} \X Sorts
OneField ==
    UNION { { Single(x[1][1], x[1][2], x[2], c, extra) :
                 c \in CtorTypes("T", "T", x[1][1], x[1][2], x[2], 1),
                 extra \in IF x[1][1] = 0 THEN BOOLEAN ELSE {FALSE} } : x \in Shapes }
\* Two fields, the first a number or recursive, in the smallest and the largest shape.
TwoFields ==
    UNION { { Single(x, x, One, c, FALSE) :
                 c \in { d \in CtorTypes("T", "T", x, x, One, 2) :
                            LET doms == Manifest(d).doms
                            IN  Len(doms) = x + 2
                                /\ doms[x + 1] \in {C0("N"), Pi(C0("N"), SelfAt("T", x, x, x + 1, C0("z")))} } } :
            x \in {0, 1} }
\* Two types, the first with a field that goes through the second.
Pairs ==
    UNION { { Pair(x[1], 1 - x[1], x[2], x[3], c1, c2) :
                 c1 \in { d \in CtorTypes("T", "V", x[1], 1 - x[1], x[2], 1) : Occurs2(d, "V") },
                 c2 \in { d \in CtorTypes("V", "T", x[1], 1 - x[1], x[3], 1) :
                            Len(Manifest(d).doms) = x[1] \/ Occurs2(d, "T") } } :
            x \in {<<0, One, One>>, <<1, L!Zero, One>>} }

MCBlocks == {Poly} \cup OneField \cup TwoFields \cup Pairs
MCLevelLists == {<<>>, <<2>>, <<3>>, <<1, 2>>, <<2, 1>>, <<1, 1>>}

\* Universe parameters u and v, in lists of the right and the wrong shape.
MCUniverseLists == {<<"u">>, <<"u", "v">>, <<"u", "u">>}

\* Indices of a variable major.
MCIndexTerms == {C0("z"), App(C0("s"), C0("z"))}

\* What does not take part waits in an initial state.
Init ==
    /\ part \in {"recursors", "quotients"}
    /\ ReduceInit /\ (part # "recursors" => block = Poly)
    /\ QuotInit /\ (part # "quotients" => env = <<>>)

Next ==
    \/ part = "recursors" /\ ReduceNext /\ UNCHANGED <<part, quotVars>>
    \/ \E d \in Offered : part = "quotients" /\ QuotStep(d) /\ UNCHANGED <<part, recVars, reduceVars>>

Spec == Init /\ [][Next]_<<part, recVars, reduceVars, quotVars>>

\* The states of the parts are what the code can hold.
TypeOK == RecTypeOK /\ ReduceTypeOK /\ QuotTypeOK
=============================================================================
