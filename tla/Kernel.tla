------------------------------- MODULE Kernel -------------------------------
(***************************************************************************)
(* What a run promises, in one page: declarations are admitted in the order *)
(* of the export, each because it is justified in the environment of those  *)
(* before it, and "accepted" is said of a whole export only.                *)
(***************************************************************************)
EXTENDS Naturals, Sequences

CONSTANTS
    Exports,          \* exports: sequences of declarations
    Justified(_, _)   \* Justified(x, i): declaration i of export x may be admitted

VARIABLES export, admitted, verdict

Init == export \in Exports /\ export # <<>> /\ admitted = 0 /\ verdict = "none"

Admit ==
    /\ verdict = "none" /\ admitted < Len(export)
    /\ Justified(export, admitted + 1)
    /\ admitted' = admitted + 1
    /\ UNCHANGED <<export, verdict>>

Accept ==
    /\ verdict = "none" /\ admitted = Len(export)
    /\ verdict' = "accepted"
    /\ UNCHANGED <<export, admitted>>

\* Giving up is always allowed.
Stop ==
    /\ verdict = "none"
    /\ verdict' \in {"rejected", "declined", "error"}
    /\ UNCHANGED <<export, admitted>>

Next == Admit \/ Accept \/ Stop
vars == <<export, admitted, verdict>>
Spec == Init /\ [][Next]_vars /\ WF_vars(Next)
=============================================================================
