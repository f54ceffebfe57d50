-------------------------------- MODULE Spines ------------------------------
(***************************************************************************)
(* Applications of a head to several arguments (src/src/expr.rs).          *)
(***************************************************************************)
EXTENDS Terms

\* apps and unfold_apps: a spine as its head and its arguments in order.
RECURSIVE Apps(_, _)
Apps(f, as) == IF as = <<>> THEN f ELSE Apps(App(f, Head(as)), Tail(as))

RECURSIVE UnfoldApps(_)
UnfoldApps(t) ==
    IF Tag(t) # "app" THEN <<t, <<>>>>
    ELSE LET u == UnfoldApps(t[2]) IN <<u[1], Append(u[2], t[3])>>
=============================================================================
