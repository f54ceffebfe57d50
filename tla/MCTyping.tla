------------------------------ MODULE MCTyping ------------------------------
(***************************************************************************)
(* A small signature.  Base: types A and B, B unfolding to A; a : A,        *)
(* b : B, f : A -> A; a proposition P with a proof h, and w : P -> A; a      *)
(* structure S in Type with s : S and a field in A, a structure Q in Prop   *)
(* with q : Q, a field in P and a data field.                               *)
(***************************************************************************)
EXTENDS TypingProps, TLC

\* kind, subterms, type, domain, form
N(k, s, t, d1, x) == [k |-> k, s |-> s, t |-> t, d |-> d1, x |-> x]
C(t, x) == N("const", <<>>, t, "A", x)

Signature ==
    [Type |-> N("leaf", <<>>, "Type", "A", "sort"),
     Prop |-> N("leaf", <<>>, "Type", "A", "prop"),
     A |-> C("Type", "stuck"), B |-> C("Type", "stuck"),
     P |-> C("Prop", "stuck"), S |-> C("Type", "struct"), Q |-> C("Prop", "struct"),
     a |-> C("A", "stuck"), b |-> C("B", "stuck"), h |-> C("P", "stuck"),
     s |-> C("S", "stuck"), q |-> C("Q", "stuck"),
     f |-> C("AA", "stuck"), w |-> C("PA", "stuck"),
     AA |-> N("pi", <<"A", "A">>, "Type", "A", "pi"),
     PA |-> N("pi", <<"P", "A">>, "Type", "P", "pi"),
     fb |-> N("app", <<"f", "b">>, "A", "A", "stuck"),
     ff |-> N("app", <<"f", "f">>, "A", "A", "stuck"),
     fff |-> N("app", <<"f", "ff">>, "A", "A", "stuck"),
     lam |-> N("lam", <<"A", "fb">>, "AA", "A", "stuck"),
     lat |-> N("let", <<"A", "ff", "a">>, "A", "A", "stuck"),
     ps |-> N("proj", <<"s">>, "A", "A", "stuck"),
     pq |-> N("proj", <<"q">>, "P", "A", "stuck"),
     pd |-> N("proj", <<"q">>, "A", "A", "stuck"),
     pb |-> N("proj", <<"q">>, "P", "A", "stuck"),
     x |-> C("A", "stuck"), y |-> C("P", "stuck"),
     wy |-> N("app", <<"w", "y">>, "A", "A", "stuck")]

MCExp == DOMAIN Signature
MCKind == [e \in MCExp |-> Signature[e].k]
MCSub == [e \in MCExp |-> Signature[e].s]
MCConstOf == [e \in MCExp |-> IF Signature[e].k = "const" THEN e ELSE "A"]
MCTypeOf == [e \in MCExp |-> Signature[e].t]
MCDom == [e \in MCExp |-> Signature[e].d]
MCExposes == [e \in MCExp |-> Signature[e].x]
F(t, later) == [typ |-> t, later |-> later]
MCFields == [e \in MCExp |-> CASE e = "pq" -> <<F("P", FALSE), F("A", TRUE)>>
                                [] e = "pd" -> <<F("A", FALSE), F("P", FALSE)>>
                                [] e = "pb" -> <<F("P", FALSE), F("A", FALSE)>>
                                [] e = "ps" -> <<F("A", FALSE)>> [] OTHER -> <<>>]
MCEqual == {p \in MCExp \X MCExp : p[1] = p[2] \/ {p[1], p[2]} = {"A", "B"}}
MCName == {e \in MCExp : MCKind[e] = "const"}
MCBase == MCName \ {"x", "y"}

\* All but f f, f (f f), the let that binds f f, the data field of q and a field
\* behind it; what names x or y with them.
Sound == MCExp \ {"ff", "fff", "lat", "pd", "pb"}
MCTyped == (MCBase :> Sound \ {"x", "y", "wy"})
           @@ (MCBase \cup {"x"} :> Sound \ {"y", "wy"})
           @@ (MCBase \cup {"y"} :> Sound \ {"x"})
           @@ (MCName :> Sound)

D(n, t, v) == [name |-> n, theorem |-> FALSE, typ |-> t, value |-> v, dup |-> FALSE,
               unsafe |-> FALSE]
T(n, t, v) == [D(n, t, v) EXCEPT !.theorem = TRUE]

\* Definitions of x and theorems y, well and ill typed; y by itself.
Xs == {D("x", "A", v) : v \in {"fb", "ff", "fff", "lat", "ps", "pd", "x", "wy"}}
      \cup {D("x", "AA", "lam"), D("x", "A", "h"), D("x", "B", "a"), D("x", "A", "NoExp"),
            [D("x", "A", "a") EXCEPT !.dup = TRUE], [D("x", "A", "a") EXCEPT !.unsafe = TRUE]}
Ys == {T("y", "P", v) : v \in {"h", "pq", "pb", "y", "x"}} \cup {T("y", "A", "a")}
MCExports == {<<z>> : z \in Xs \cup Ys}
             \cup {<<T("y", "P", v), D("x", "A", "wy")>> : v \in {"h", "y"}}
             \cup {<<D("x", "A", "a"), z>> : z \in {D("x", "A", "b"), T("y", "P", "x")}}

MCProbes == {"fff", "h", "y", "pq"}
=============================================================================
