----------------------------- MODULE ParseCalls -----------------------------
(***************************************************************************)
(* What ParseFile promises, with no pool and no arena: each call returns   *)
(* an AST made of the nodes of the source it was given, and the AST stays  *)
(* that way for as long as the caller uses it.                             *)
(***************************************************************************)
CONSTANTS
    Callers, Retainers, Files, Broken,
    Nothing

VARIABLES
    pc,      \* where each caller is
    file,    \* the file it is parsing, or whose AST it is using
    view     \* the parses whose nodes a caller sees in the AST it is using

vars == <<pc, file, view>>

Init ==
    /\ pc = [c \in Callers |-> "idle"]
    /\ file = [c \in Callers |-> Nothing]
    /\ view = [c \in Callers |-> {}]

Call(c, f) ==
    /\ pc[c] = "idle"
    /\ pc' = [pc EXCEPT ![c] = "parsing"]
    /\ file' = [file EXCEPT ![c] = f]
    /\ UNCHANGED view

\* The call fails, or its AST is dropped as soon as it is returned.
ReturnNone(c) ==
    /\ pc[c] = "parsing"
    /\ file[c] \in Broken \/ c \notin Retainers
    /\ pc' = [pc EXCEPT ![c] = "idle"]
    /\ file' = [file EXCEPT ![c] = Nothing]
    /\ UNCHANGED view

\* The caller sees the nodes this call has made, and no others.
ReturnAST(c) ==
    /\ pc[c] = "parsing"
    /\ file[c] \notin Broken /\ c \in Retainers
    /\ pc' = [pc EXCEPT ![c] = "using"]
    /\ view' = [view EXCEPT ![c] = {<<c, file[c]>>}]
    /\ UNCHANGED file

Drop(c) ==
    /\ pc[c] = "using"
    /\ pc' = [pc EXCEPT ![c] = "idle"]
    /\ file' = [file EXCEPT ![c] = Nothing]
    /\ view' = [view EXCEPT ![c] = {}]

Next ==
    \E c \in Callers : \/ \E f \in Files : Call(c, f)
                       \/ ReturnNone(c)
                       \/ ReturnAST(c)
                       \/ Drop(c)

Spec == Init /\ [][Next]_vars
=============================================================================
