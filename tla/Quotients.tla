------------------------------ MODULE Quotients -----------------------------
(***************************************************************************)
(* The four quotient constants (parser.rs, handle_quot).  The checker      *)
(* reduces Quot.lift and Quot.ind by argument position, so a quotient      *)
(* declaration is admitted only with the type the kernel itself would      *)
(* install, over the Eq, Quot and Quot.mk already declared.  The code      *)
(* writes those types with counted indices; the reference below writes     *)
(* them with names.                                                        *)
(***************************************************************************)
EXTENDS Spines, TLC

CONSTANT UniverseLists   \* the lists of universe parameters declarations carry

VARIABLES env,       \* name -> constant
          last,      \* the quotient declaration read last
          verdict    \* what became of it: "none", "admitted", "rejected"

quotVars == <<env, last, verdict>>

-----------------------------------------------------------------------------
(* Pi with its binder annotation, and equality up to the annotations.      *)

APi(info, ty, body) == <<"pi", ty, body, info>>
Explicit(ty, body) == APi("default", ty, body)
Implicit(ty, body) == APi("implicit", ty, body)

\* A bug: the heads alone are compared.
SameHead(a, b) == Tag(a) = Tag(b)

RECURSIVE AlphaEq(_, _)
AlphaEq(a, b) ==
    IF Tag(a) # Tag(b) THEN FALSE
    ELSE CASE IsLeaf(a) -> a = b
           [] Tag(a) \in {"app", "pi", "lam"} -> AlphaEq(a[2], b[2]) /\ AlphaEq(a[3], b[3])
           [] Tag(a) = "let" ->
                 AlphaEq(a[2], b[2]) /\ AlphaEq(a[3], b[3]) /\ AlphaEq(a[4], b[4])
           [] Tag(a) = "proj" -> a[2] = b[2] /\ a[3] = b[3] /\ AlphaEq(a[4], b[4])

-----------------------------------------------------------------------------
(* canonical_quot_type.                                                    *)

Kinds == {"type", "ctor", "lift", "ind"}
KernelName(kind) ==
    [type |-> "Quot", ctor |-> "Quot.mk", lift |-> "Quot.lift", ind |-> "Quot.ind"][kind]
LevelCount(kind) == IF kind = "lift" THEN 2 ELSE 1

Prop == Sort("zero")

\* The relation over the type at index a, which is one further out under the
\* first arrow.
Rel(a) == Explicit(BVar(a), Explicit(BVar(a + 1), Prop))
QuotApp(u, a, r) == Apps(Const("Quot", <<u>>), <<BVar(a), BVar(r)>>)

\* Under alpha, r, beta, f: f respects r.
Sanity(v) ==
    Explicit(BVar(3), Explicit(BVar(4), Explicit(Apps(BVar(4), <<BVar(1), BVar(0)>>),
        Apps(Const("Eq", <<v>>), <<BVar(4), App(BVar(3), BVar(2)), App(BVar(3), BVar(1))>>))))

\* Under alpha, r, beta: beta holds of every class.
MkCase(u) ==
    Explicit(BVar(2), App(BVar(1), Apps(Const("Quot.mk", <<u>>), <<BVar(3), BVar(2), BVar(0)>>)))

CanonicalQuotType(kind, lps) ==
    LET u == lps[1] IN
    CASE kind = "type" -> Implicit(Sort(u), Explicit(Rel(0), Sort(u)))
      [] kind = "ctor" ->
            Implicit(Sort(u), Explicit(Rel(0), Explicit(BVar(1), QuotApp(u, 2, 1))))
      [] kind = "lift" ->
            Implicit(Sort(u), Implicit(Rel(0), Implicit(Sort(lps[2]),
                Explicit(Explicit(BVar(2), BVar(1)), Explicit(Sanity(lps[2]),
                    Explicit(QuotApp(u, 4, 3), BVar(3)))))))
      [] kind = "ind" ->
            Implicit(Sort(u), Implicit(Rel(0), Implicit(Explicit(QuotApp(u, 1, 0), Prop),
                Explicit(MkCase(u), Explicit(QuotApp(u, 3, 2), App(BVar(2), BVar(0)))))))

-----------------------------------------------------------------------------
(* check_quot_declaration.                                                 *)

EqTypeAt(u) == Implicit(Sort(u), Explicit(BVar(0), Explicit(BVar(1), Prop)))
ReflTypeAt(u) ==
    Implicit(Sort(u), Explicit(BVar(0), Apps(Const("Eq", <<u>>), <<BVar(1), BVar(0), BVar(0)>>)))

\* A bug: what Eq's constructor says is not looked at.
EqByType ==
    /\ "Eq" \in DOMAIN env /\ env["Eq"].kind = "inductive"
    /\ Len(env["Eq"].lps) = 1 /\ Len(env["Eq"].ctors) = 1
    /\ AlphaEq(env["Eq"].typ, EqTypeAt(env["Eq"].lps[1]))

\* eq_primitive
EqPrimitive ==
    /\ "Eq" \in DOMAIN env /\ env["Eq"].kind = "inductive"
    /\ Len(env["Eq"].lps) = 1 /\ Len(env["Eq"].ctors) = 1
    /\ LET u == env["Eq"].lps[1]
           refl == env["Eq"].ctors[1]
       IN  /\ AlphaEq(env["Eq"].typ, EqTypeAt(u))
           /\ env[refl].kind = "constructor" /\ env[refl].induct = "Eq"
           /\ AlphaEq(env[refl].typ, ReflTypeAt(u))

\* quot_primitive
QuotPrimitive(s, kind) ==
    s \in DOMAIN env /\ env[s].kind = "quot" /\ env[s].quot = kind

Distinct(s) == \A i, j \in DOMAIN s : s[i] = s[j] => i = j

QuotOk(kind, name, lps, typ) ==
    /\ name = KernelName(kind)
    /\ Len(lps) = LevelCount(kind) /\ Distinct(lps)
    /\ EqPrimitive
    /\ kind # "type" => QuotPrimitive("Quot", "type")
    /\ kind = "ind" => QuotPrimitive("Quot.mk", "ctor")
    /\ AlphaEq(typ, CanonicalQuotType(kind, lps))

Decl(kind, name, lps, typ) == [kind |-> kind, name |-> name, lps |-> lps, typ |-> typ]

\* handle_quot; a rejected declaration ends the run.
HandleQuot(kind, name, lps, typ) ==
    /\ verdict # "rejected"
    /\ last' = Decl(kind, name, lps, typ)
    /\ \/ /\ QuotOk(kind, name, lps, typ) /\ name \notin DOMAIN env
          /\ env' = (name :> [kind |-> "quot", quot |-> kind, lps |-> lps, typ |-> typ]) @@ env
          /\ verdict' = "admitted"
       \/ /\ ~(QuotOk(kind, name, lps, typ) /\ name \notin DOMAIN env)
          /\ verdict' = "rejected" /\ UNCHANGED env

-----------------------------------------------------------------------------
(* Reference: the same types with named variables, as the documentation of *)
(* Lean's kernel gives them.                                               *)

V(x) == <<"var", x>>
All(x, ty, body) == <<"all", x, ty, body>>
Arrow(ty, body) == All("_", ty, body)

\* The innermost binder of a name, counted from the inside.
IndexOf(x, scope) == Len(scope) - Largest({ k \in DOMAIN scope : scope[k] = x })

RECURSIVE Counted(_, _)
Counted(n, scope) ==
    CASE Tag(n) = "var" -> BVar(IndexOf(n[2], scope))
      [] Tag(n) = "all" -> Explicit(Counted(n[3], scope), Counted(n[4], Append(scope, n[2])))
      [] Tag(n) = "app" -> App(Counted(n[2], scope), Counted(n[3], scope))
      [] OTHER -> n

RelOn(x) == Arrow(V(x), Arrow(V(x), Prop))
QuotOn(u) == Apps(Const("Quot", <<u>>), <<V("A"), V("r")>>)

NamedType(kind, lps) ==
    LET u == lps[1]
        overA(body) == All("A", Sort(u), All("r", RelOn("A"), body))
    IN  CASE kind = "type" -> overA(Sort(u))
          [] kind = "ctor" -> overA(All("a", V("A"), QuotOn(u)))
          [] kind = "lift" ->
                overA(All("B", Sort(lps[2]), All("f", Arrow(V("A"), V("B")),
                    Arrow(All("a", V("A"), All("b", V("A"),
                              Arrow(Apps(V("r"), <<V("a"), V("b")>>),
                                    Apps(Const("Eq", <<lps[2]>>),
                                         <<V("B"), App(V("f"), V("a")), App(V("f"), V("b"))>>)))),
                          Arrow(QuotOn(u), V("B"))))))
          [] kind = "ind" ->
                overA(All("B", Arrow(QuotOn(u), Prop),
                    Arrow(All("a", V("A"), App(V("B"), Apps(Const("Quot.mk", <<u>>),
                                                            <<V("A"), V("r"), V("a")>>))),
                          All("q", QuotOn(u), App(V("B"), V("q"))))))

KernelType(kind, lps) == Counted(NamedType(kind, lps), <<>>)

NamedEq(u) == All("A", Sort(u), Arrow(V("A"), Arrow(V("A"), Prop)))
NamedRefl(u) ==
    All("A", Sort(u), All("a", V("A"), Apps(Const("Eq", <<u>>), <<V("A"), V("a"), V("a")>>)))

KernelEq ==
    /\ "Eq" \in DOMAIN env /\ env["Eq"].kind = "inductive"
    /\ \E u \in {"u", "v"} :
          /\ env["Eq"].lps = <<u>> /\ env["Eq"].ctors = <<"Eq.refl">>
          /\ env["Eq.refl"].kind = "constructor"
          /\ AlphaEq(env["Eq"].typ, Counted(NamedEq(u), <<>>))
          /\ AlphaEq(env["Eq.refl"].typ, Counted(NamedRefl(u), <<>>))

-----------------------------------------------------------------------------
(* Inputs: a genuine declaration, or one with a single node changed.       *)

RECURSIVE OneOff(_)
OneOff(t) ==
    CASE Tag(t) = "bvar" -> {BVar(i) : i \in {t[2] - 1, t[2] + 1} \cap Nat}
      [] Tag(t) = "sort" -> {Sort(l) : l \in {"u", "v", "zero"} \ {t[2]}}
      [] Tag(t) = "const" -> {Const(c, t[3]) : c \in {"Eq", "Quot", "Quot.mk"} \ {t[2]}}
                             \cup {Const(t[2], <<l>>) : l \in {"u", "v"} \ {t[3][1]}}
      [] Tag(t) = "app" -> {App(f, t[3]) : f \in OneOff(t[2])} \cup {App(t[2], a) : a \in OneOff(t[3])}
      [] Tag(t) = "pi" -> {APi(t[4], d, t[3]) : d \in OneOff(t[2])}
                          \cup {APi(t[4], t[2], b) : b \in OneOff(t[3])}

\* Every binder of t annotated the other way.
RECURSIVE Reannotated(_)
Reannotated(t) ==
    IF Tag(t) # "pi" THEN t
    ELSE APi(IF t[4] = "default" THEN "implicit" ELSE "default",
             Reannotated(t[2]), Reannotated(t[3]))

Near(t) == {t, Reannotated(t)} \cup OneOff(t)
Types(kind, lps) ==
    IF Len(lps) = LevelCount(kind) THEN Near(KernelType(kind, lps))
    ELSE {KernelType(kind, <<"u", "v">>)}

\* The declarations of the file: near the kernel's, or the kernel's under the
\* name of another.
Offered ==
    UNION { { Decl(kind, KernelName(kind), lps, typ) : typ \in Types(kind, lps) }
            \cup { Decl(kind, KernelName(other), lps, KernelType(kind, <<"u", "v">>)) :
                     other \in Kinds } :
            kind \in Kinds, lps \in UniverseLists }

EqRecord(lps, typ) == [kind |-> "inductive", lps |-> lps, ctors |-> <<"Eq.refl">>, typ |-> typ]

\* What was declared before the quotients: an Eq, genuine or not, or none;
\* and perhaps an ordinary constant in the place of Quot.
Before ==
    LET eqType == Counted(NamedEq("u"), <<>>)
        reflType == Counted(NamedRefl("u"), <<>>)
        refl(t) == [kind |-> "constructor", induct |-> "Eq", typ |-> t]
        with(e, r) == ("Eq" :> e) @@ ("Eq.refl" :> r)
        genuine == with(EqRecord(<<"u">>, eqType), refl(reflType))
    IN  { with(EqRecord(lps, t), refl(reflType)) :
             lps \in UniverseLists \ {<<>>}, t \in Near(eqType) }
        \cup { with(EqRecord(<<"u">>, eqType), refl(t)) : t \in OneOff(reflType) }
        \cup { with([EqRecord(<<"u">>, eqType) EXCEPT !.ctors = <<>>], refl(reflType)),
               with(EqRecord(<<"u">>, eqType), [kind |-> "axiom"]),
               ("Quot" :> [kind |-> "axiom"]) @@ genuine,
               "Eq" :> [kind |-> "axiom"], <<>> }

QuotInit ==
    /\ env \in Before
    /\ last = Decl("type", "", <<>>, Prop)
    /\ verdict = "none"

QuotStep(d) == HandleQuot(d.kind, d.name, d.lps, d.typ)
QuotNext == \E d \in Offered : QuotStep(d)

QuotSpec == QuotInit /\ [][QuotNext]_quotVars

-----------------------------------------------------------------------------
(* Properties.                                                             *)

RECURSIVE ClosedUnder(_, _)
ClosedUnder(t, d) ==
    IF Tag(t) = "bvar" THEN t[2] < d ELSE \A p \in Parts(t) : ClosedUnder(p[1], d + p[2])

\* The state is what the reader can hold; every admitted type is closed.
QuotTypeOK ==
    /\ verdict \in {"none", "admitted", "rejected"}
    /\ last.kind \in Kinds
    /\ \A n \in DOMAIN env : env[n].kind = "quot" =>
          /\ n = KernelName(env[n].quot)
          /\ ClosedUnder(env[n].typ, 0)

\* A quotient constant in the environment has the type Lean's kernel gives it,
\* written with names, up to binder annotations, and it stands on the Eq, Quot
\* and Quot.mk of the kernel.
AdmittedIsTheKernels ==
    \A n \in DOMAIN env : env[n].kind = "quot" =>
        LET c == env[n] IN
        /\ Len(c.lps) = LevelCount(c.quot) /\ Distinct(c.lps)
        /\ AlphaEq(c.typ, KernelType(c.quot, c.lps))
        /\ KernelEq
        /\ c.quot # "type" => "Quot" \in DOMAIN env /\ env["Quot"].kind = "quot"
        /\ c.quot = "ind" => "Quot.mk" \in DOMAIN env /\ env["Quot.mk"].kind = "quot"

\* What the kernel would install, in an order in which it can, is never
\* rejected, whatever the binder annotations.
GenuineIsAdmitted ==
    verdict = "rejected" =>
        ~ /\ last.name = KernelName(last.kind) /\ last.name \notin DOMAIN env
          /\ Len(last.lps) = LevelCount(last.kind) /\ Distinct(last.lps)
          /\ KernelEq
          /\ last.kind # "type" => "Quot" \in DOMAIN env /\ env["Quot"].kind = "quot"
          /\ last.kind = "ind" => "Quot.mk" \in DOMAIN env
          /\ AlphaEq(last.typ, KernelType(last.kind, last.lps))

\* Exactly the quotient of Lean's kernel is admitted: the reductions of
\* Quot.lift and Quot.ind by argument position are sound only for that
\* (check_quot_declaration).
QuotientIsTheKernels == AdmittedIsTheKernels /\ GenuineIsAdmitted
=============================================================================
