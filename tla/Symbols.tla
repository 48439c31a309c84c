------------------------------- MODULE Symbols -------------------------------
(***************************************************************************)
(* symbols.Build, the symbol table of a module, and the two checks of the  *)
(* linter that ask it about whole files, F401 and F821.                    *)
(*                                                                         *)
(* Names do not interact, so the table is that of one name.  The builder   *)
(* walks the tree and keeps the scope it is in; each construct that        *)
(* touches scopes or names is an action, and a program is the order in     *)
(* which they come.  Beside the flags the builder sets, reads records      *)
(* the scopes in which Python evaluates the name, and Owner whose binding  *)
(* such a read finds by Python's rules: what the flags are judged by.      *)
(***************************************************************************)
EXTENDS Naturals, Sequences

CONSTANTS
    MaxScopes,     \* bound: scopes of a program, the module among them
    MaxEvents      \* bound: occurrences of the name

ASSUME SymbolsAssumption == MaxScopes \in Nat \ {0} /\ MaxEvents \in Nat

VARIABLES
    kind,       \* kind[s]: kind of scope s; scope 1 is the module
    parent,     \* parent[s]: the scope around it, 0 for the module
    flags,      \* flags[s]: the flags of the name in scope s
    cur,        \* the scope the builder is in
    header,     \* it is at the parameters of a function or lambda
    conflicts,  \* the scopes with diagnostic S001
    events,     \* occurrences so far
    exempt,     \* a statement of the module imports the name from __future__
    built,      \* resolve is done
    reads       \* history: the scopes in which Python reads the name

treeVars == <<kind, parent, cur>>
vars == <<treeVars, flags, header, conflicts, exempt, events, built, reads>>

Kinds == {"module", "function", "class", "lambda", "comprehension"}
Flags == {"Bound", "Used", "Global", "Nonlocal", "Import", "Free", "Cell"}
Scopes == DOMAIN kind

TypeOK ==
    /\ kind \in Seq(Kinds) /\ kind # <<>> /\ Len(kind) <= MaxScopes
    /\ \A s \in Scopes : (kind[s] = "module") <=> s = 1
    /\ parent \in Seq(Nat) /\ DOMAIN parent = Scopes
    \* a tree: every scope comes after the scope around it
    /\ \A s \in Scopes : parent[s] < s /\ (parent[s] = 0 => s = 1)
    /\ flags \in Seq(SUBSET Flags) /\ DOMAIN flags = Scopes
    /\ cur \in Scopes
    /\ header \in BOOLEAN
    /\ conflicts \subseteq {s \in Scopes : {"Global", "Nonlocal"} \subseteq flags[s]}
    /\ exempt \in BOOLEAN
    /\ events \in 0 .. MaxEvents
    /\ built \in BOOLEAN
    /\ reads \subseteq Scopes

Init ==
    /\ kind = <<"module">>
    /\ parent = <<0>>
    /\ flags = <<{}>>
    /\ cur = 1
    /\ header = FALSE
    /\ conflicts = {}
    /\ exempt = FALSE
    /\ events = 0
    /\ built = FALSE
    /\ reads = {}

-----------------------------------------------------------------------------
(* The walk.                                                               *)

IsBlock(s) == kind[s] \in {"module", "function", "class"}
FunctionLike(s) == kind[s] \in {"function", "lambda", "comprehension"}

\* One more occurrence of the name; past the parameters unless inHeader.
Occurs(inHeader) ==
    /\ ~built
    /\ events < MaxEvents
    /\ events' = events + 1
    /\ header' = (header /\ inHeader)

Flagged(table, s, new) == [table EXCEPT ![s] = @ \cup new]

\* A name in a load position: expr's case Name.
Read ==
    /\ Occurs(FALSE)
    /\ flags' = Flagged(flags, cur, {"Used"})
    /\ reads' = reads \cup {cur}
    /\ UNCHANGED <<treeVars, conflicts, exempt, built>>

\* bind on a target: assignments, del, for, with, except, patterns, a later
\* generator of a comprehension.
BindUses == {"Bound", "Used"} \* mutant: bind marks the name as used
BindFlags == {"Bound"}

Bind ==
    /\ IsBlock(cur) \/ kind[cur] = "comprehension"
    /\ Occurs(FALSE)
    /\ flags' = Flagged(flags, cur, BindFlags)
    /\ UNCHANGED <<treeVars, conflicts, exempt, built, reads>>

\* future: it is `import __future__` or `from __future__ import x`, and a statement
\* of the module itself, where futureImportNames looks, in none of its blocks.
Import(future) ==
    /\ IsBlock(cur)
    /\ future => cur = 1
    /\ Occurs(FALSE)
    /\ flags' = Flagged(flags, cur, BindFlags \cup {"Import"})
    /\ exempt' = (exempt \/ future)
    /\ UNCHANGED <<treeVars, conflicts, built, reads>>

\* x += 1 binds its target and reads it.
AugAssign ==
    /\ IsBlock(cur)
    /\ Occurs(FALSE)
    /\ flags' = Flagged(flags, cur, BindFlags \cup {"Used"})
    /\ reads' = reads \cup {cur}
    /\ UNCHANGED <<treeVars, conflicts, exempt, built>>

\* A walrus binds in the scope around the comprehensions it is in.
Host == LET host[s \in Scopes] ==
                IF kind[s] = "comprehension" THEN host[parent[s]] ELSE s
        IN  host[cur]

NamedExpr ==
    /\ Occurs(FALSE)
    /\ flags' = Flagged(flags, Host, BindFlags)
    /\ UNCHANGED <<treeVars, conflicts, exempt, built, reads>>

\* declare: global x or nonlocal x, and S001 when the scope has the other one.
Clashes(flag, declared) ==
    \/ flag = "Global" /\ "Nonlocal" \in declared
    \/ flag = "Nonlocal" /\ "Global" \in declared

Declare(flag) ==
    /\ IsBlock(cur)
    /\ Occurs(FALSE)
    /\ flags' = Flagged(flags, cur, {flag})
    /\ conflicts' = conflicts \cup {s \in {cur} : Clashes(flag, flags[s])}
    /\ UNCHANGED <<treeVars, exempt, built, reads>>

PushSwapped(k) == \* mutant: b.cur is set before child.Parent is
    /\ kind' = Append(kind, k)
    /\ cur' = Len(kind) + 1
    /\ parent' = Append(parent, cur')
Push(k) ==
    /\ kind' = Append(kind, k)
    /\ parent' = Append(parent, cur)
    /\ cur' = Len(kind) + 1

(***************************************************************************)
(* A new scope.  The flags in the scope around it are set before, those in *)
(* the new one after the push: a function or class may itself have the     *)
(* name, and a comprehension may have it as its first target.              *)
(***************************************************************************)
Enter(k, outer, inner) ==
    /\ ~built
    /\ Len(kind) < MaxScopes
    /\ Push(k)
    /\ flags' = Append(Flagged(flags, cur, outer), inner)
    /\ header' = (k \in {"function", "lambda"})
    /\ UNCHANGED <<conflicts, exempt, events, built, reads>>

FunctionDef(named) ==
    /\ IsBlock(cur)
    /\ Enter("function", IF named THEN BindFlags ELSE {}, {})

ClassDef(named) ==
    /\ IsBlock(cur)
    /\ Enter("class", IF named THEN BindFlags ELSE {}, {})

Lambda == Enter("lambda", {}, {})

Comprehension(named) == Enter("comprehension", {}, IF named THEN BindFlags ELSE {})

Param ==
    /\ header
    /\ Occurs(TRUE)
    /\ flags' = Flagged(flags, cur, BindFlags)
    /\ UNCHANGED <<treeVars, conflicts, exempt, built, reads>>

\* params walks the annotation of a parameter inside the function's scope.
ParamAnnotation ==
    /\ header /\ kind[cur] = "function"
    /\ Occurs(TRUE)
    /\ flags' = Flagged(flags, cur, {"Used"})
    /\ reads' = reads \cup {parent[cur]}
    /\ UNCHANGED <<treeVars, conflicts, exempt, built>>

\* The defaults of a lambda are not walked; those of a def are, as a Read.
LambdaDefault ==
    /\ header /\ kind[cur] = "lambda"
    /\ Occurs(TRUE)
    /\ reads' = reads \cup {parent[cur]}
    /\ UNCHANGED <<treeVars, flags, conflicts, exempt, built>>

Pop ==
    /\ ~built
    /\ cur # 1
    /\ cur' = parent[cur]
    /\ header' = FALSE
    /\ UNCHANGED <<kind, parent, flags, conflicts, exempt, events, built, reads>>

-----------------------------------------------------------------------------
(* After the walk.                                                         *)

HasAny(s, some) == flags[s] \cap some # {}

\* Class scopes are passed over by a lookup from inside.
SkipsNothing(s) == FALSE \* mutant: the test for ScopeClass is missing
Skips(s) == kind[s] = "class"

\* lookupCapturable: the scope from which a name is captured, or 0.
LookupCapturable(start) ==
    LET lookup[s \in {0} \cup Scopes] ==
            IF s = 0 THEN 0
            ELSE IF Skips(s) \/ ~HasAny(s, {"Bound"}) THEN lookup[parent[s]]
            ELSE IF kind[s] = "module" THEN 0 ELSE s
    IN  lookup[start]

Declarations == {"Global", "Nonlocal"}

\* The scopes resolve looks a name up for.
Unresolved == {s \in Scopes : /\ FunctionLike(s)
                              /\ HasAny(s, {"Used"})
                              /\ ~HasAny(s, {"Bound"} \cup Declarations)}

Captured(s) == LookupCapturable(parent[s])

Resolve ==
    /\ ~built /\ cur = 1
    /\ flags' = [s \in Scopes |->
            flags[s] \cup {f \in {"Free"} : s \in Unresolved /\ Captured(s) # 0}
                     \cup {f \in {"Cell"} : \E t \in Unresolved : Captured(t) = s}]
    /\ built' = TRUE
    /\ UNCHANGED <<treeVars, header, conflicts, exempt, events, reads>>

Next ==
    \/ Read \/ Bind \/ AugAssign \/ NamedExpr
    \/ \E flag \in Declarations : Declare(flag)
    \/ \E future \in BOOLEAN : Import(future)
    \/ \E named \in BOOLEAN : FunctionDef(named) \/ ClassDef(named) \/ Comprehension(named)
    \/ Lambda \/ Param \/ ParamAnnotation \/ LambdaDefault
    \/ Pop
    \/ Resolve

Spec == Init /\ [][Next]_vars

-----------------------------------------------------------------------------
(* The checks, on the finished table.                                      *)

\* Scope.Resolve: the scope whose entry a use in s finds, or 0.
HidesNothing(t, s) == FALSE \* mutant: the test for ScopeClass is missing
Hides(t, s) == t # s /\ kind[t] = "class"

ResolvedFrom(s) ==
    LET lookup[t \in {0} \cup Scopes] ==
            IF t = 0 THEN 0
            ELSE IF ~Hides(t, s) /\ HasAny(t, {"Bound"} \cup Declarations) THEN t
            ELSE lookup[parent[t]]
    IN  lookup[s]

\* F401: an import of the module is reported when its entry has no use, and
\* the name is not among those of futureImportNames.
ReportsF401 == built /\ HasAny(1, {"Import"}) /\ ~HasAny(1, {"Used"}) /\ ~exempt

\* F821: the uses in s are reported; the name is no builtin, and no import has a star.
ReportsF821(s) ==
    /\ HasAny(s, {"Used"})
    /\ ~HasAny(s, {"Bound"} \cup Declarations)
    /\ ResolvedFrom(s) = 0

-----------------------------------------------------------------------------
(* Python's rules.                                                         *)

(***************************************************************************)
(* The scope whose binding a name in s refers to.  A global declaration    *)
(* leads to the module, here and in the functions inside; a nonlocal name  *)
(* and one that is not bound here belong to the nearest function around    *)
(* that binds it, and if there is none, to the module.                     *)
(***************************************************************************)
Owner(s) ==
    LET around[t \in Scopes] ==
            IF t = 1 THEN 1
            ELSE IF kind[t] = "class" THEN around[parent[t]]
            ELSE IF HasAny(t, {"Global"}) THEN 1
            ELSE IF HasAny(t, {"Bound"}) /\ ~HasAny(t, {"Nonlocal"}) THEN t
            ELSE around[parent[t]]
    IN  IF s = 1 \/ HasAny(s, {"Global"}) THEN 1
        ELSE IF HasAny(s, {"Bound"}) /\ ~HasAny(s, {"Nonlocal"}) THEN s
        ELSE around[parent[s]]

\* No declaration interferes, and each use was recorded where it is evaluated.
Plain == \A s \in Scopes : ~HasAny(s, Declarations) /\ (HasAny(s, {"Used"}) <=> s \in reads)

-----------------------------------------------------------------------------

(***************************************************************************)
(* The classification of CPython's symtable, as it is for scopes that are  *)
(* not inlined (since 3.12 all comprehensions but generator expressions    *)
(* are).  A name is free in every function between its owner and a scope   *)
(* that reads it, the reader included; it is a cell in a function that     *)
(* owns it when a scope inside reads it, a class body too.                 *)
(***************************************************************************)
\* Climbing from t one comes by s: s is t or a scope around it.
Encloses(s, t) ==
    LET climb[u \in Scopes] == IF u <= s THEN u ELSE climb[parent[u]] IN climb[t] = s

PyFree(s) ==
    \E t \in reads : Encloses(s, t) /\ Owner(t) \notin {1, s} /\ Encloses(Owner(t), s)
PyCell(s) == \E t \in reads \ {s} : Owner(t) = s

\* The function does not read the name, and can only pass it on to one inside.
Relays(s) == s \notin reads
\* Of the scopes inside only class bodies read the variable.
ReadByBodies(s) == \A t \in reads \ {s} : Owner(t) = s => kind[t] = "class"

(***************************************************************************)
(* "The output mirrors what CPython's _symtable module produces", in a     *)
(* program without declarations, but for two things that resolve leaves    *)
(* out: it does not mark the name as free in the functions it passes       *)
(* through, nor go by what class bodies read.  Functions, lambdas and      *)
(* comprehensions that read a variable of another one have it free, no     *)
(* others do, and the owner of each has it as a cell, whatever classes are *)
(* in between and wherever the binding comes in the source.                *)
(***************************************************************************)
MirrorsButRelays ==
    built /\ Plain =>
        \A s \in Scopes \ {1} :
            /\ FunctionLike(s) => ("Free" \in flags[s] <=> PyFree(s) /\ ~Relays(s))
            /\ "Cell" \in flags[s] <=> PyCell(s) /\ ~ReadByBodies(s)

(***************************************************************************)
(* F821 "fires when a name is referenced but no scope on its lookup chain  *)
(* binds it": the reads that are reported are those that end in a module   *)
(* without a binding.                                                      *)
(***************************************************************************)
UndefinedIsUnbound ==
    built /\ Plain =>
        \A s \in Scopes :
            ReportsF821(s) <=> s \in reads /\ Owner(s) = 1 /\ ~HasAny(1, {"Bound"})

(***************************************************************************)
(* No unused import is missed but those of __future__: an import of the    *)
(* module whose binding no scope reads is reported by F401, with           *)
(* declarations or without, unless a statement of the module imports the   *)
(* same name from __future__, on which F401 "must not fire".               *)
(***************************************************************************)
ImportIsRead == \E s \in reads : Owner(s) = 1

UnreadImportIsReported ==
    built /\ HasAny(1, {"Import"}) /\ ~ImportIsRead /\ ~exempt => ReportsF401

(***************************************************************************)
(* "checkF401 fires for module-scope names bound by an import that the     *)
(* file never reads": what is reported, and removed by --fix, is unread.   *)
(***************************************************************************)
ReportedImportIsUnread == ReportsF401 => ~ImportIsRead
=============================================================================
