--------------------------- MODULE Symbols_proofs ---------------------------
(***************************************************************************)
(* Theorems about Symbols for programs of any number of scopes and of      *)
(* occurrences of the name.                                                *)
(***************************************************************************)
EXTENDS Symbols, SequenceTheorems, WellFoundedInduction, TLAPS

-----------------------------------------------------------------------------
(* Recursion along the scopes.                                             *)

\* A set of scopes has a first one.
LEMMA FirstOf ==
    ASSUME NEW T, T \subseteq Nat, T # {}
    PROVE  \E s \in T : \A t \in T : s <= t
<1>1. PICK s \in T : \A t \in T : <<t, s>> \notin OpToRel(<, Nat)
  BY WFMin, NatLessThanWellFounded
<1>2. \A t \in T : t \in Nat /\ s \in Nat /\ ~(t < s)
  BY <1>1 DEF OpToRel
<1>. QED
  BY <1>2

(***************************************************************************)
(* The lookups of Symbols are functions of one kind: the value at t is     *)
(* given, or it is the value at a smaller up[t].  Such a function exists.  *)
(***************************************************************************)
IsChain(m, n, stop, value, up) ==
    \A t \in m .. n : IF t \in stop THEN value[t] \in Nat ELSE up[t] \in m .. t - 1

Follows(f, m, n, stop, value, up) ==
    /\ f \in [m .. n -> Nat]
    /\ \A t \in m .. n : f[t] = IF t \in stop THEN value[t] ELSE f[up[t]]

\* By the first place up to which there is none.
LEMMA ChainExists ==
    ASSUME NEW m \in Nat, NEW n \in Nat, NEW stop, NEW value, NEW up,
           IsChain(m, n, stop, value, up)
    PROVE  \E f : Follows(f, m, n, stop, value, up)
<1> DEFINE Solves(f, k) == Follows(f, m, k, stop, value, up)
           T == {k \in 0 .. n : ~ \E f : Solves(f, k)}
<1>1. SUFFICES ASSUME T # {} PROVE FALSE
  OBVIOUS
<1>2. PICK k \in T : \A j \in T : k <= j
  <2>1. T \subseteq Nat
    OBVIOUS
  <2> HIDE DEF T
  <2>. QED
    BY <1>1, <2>1, FirstOf
<1>3. k \in 0 .. n /\ (\A f : ~Solves(f, k))
  OBVIOUS
<1> HIDE DEF T, Solves
<1>4. CASE k = 0
  <2>1. \A t \in m .. k : t \in stop /\ value[t] \in Nat
    BY <1>3, <1>4 DEF IsChain
  <2> DEFINE g == [t \in m .. k |-> value[t]]
  <2>2. g \in [m .. k -> Nat] /\ \A t \in m .. k : g[t] = value[t]
    BY <2>1
  <2> HIDE DEF g
  <2>3. Solves(g, k)
    BY <2>1, <2>2 DEF Solves, Follows
  <2>. QED
    BY <1>3, <2>3
<1>5. CASE k # 0
  <2>1. k - 1 \in 0 .. n /\ k - 1 < k
    BY <1>3, <1>5
  <2>2. PICK f : Solves(f, k - 1)
    BY <1>2, <2>1 DEF T
  <2> DEFINE last == IF k \in stop THEN value[k] ELSE f[up[k]]
             g == [t \in m .. k |-> IF t = k THEN last ELSE f[t]]
  <2>3. k \in m .. n => last \in Nat
    BY <1>3, <2>2 DEF Solves, Follows, IsChain
  <2>4. g \in [m .. k -> Nat] /\ \A t \in m .. k : g[t] = IF t = k THEN last ELSE f[t]
    <3>1. \A t \in m .. k : t \in m .. n /\ (t # k => t \in m .. k - 1 /\ f[t] \in Nat)
      BY <1>3, <2>2 DEF Solves, Follows
    <3> HIDE DEF last
    <3>. QED
      BY <2>3, <3>1
  <2> HIDE DEF g
  <2>5. ASSUME NEW t \in m .. k
        PROVE  g[t] = IF t \in stop THEN value[t] ELSE g[up[t]]
    <3>1. t \notin stop => up[t] \in m .. k /\ up[t] # k
      BY <1>3 DEF IsChain
    <3>2. t \notin stop => g[up[t]] = f[up[t]]
      BY <3>1, <2>4
    <3>3. CASE t = k
      BY <2>4, <3>2, <3>3
    <3>4. CASE t # k
      <4>1. t \in m .. k - 1
        BY <1>3, <3>4
      <4>2. f[t] = IF t \in stop THEN value[t] ELSE f[up[t]]
        BY <2>2, <4>1 DEF Solves, Follows
      <4>. QED
        BY <2>4, <3>2, <3>4, <4>2
    <3>. QED
      BY <3>3, <3>4
  <2>6. Solves(g, k)
    BY <2>4, <2>5 DEF Solves, Follows
  <2>. QED
    BY <1>3, <2>6
<1>. QED
  BY <1>4, <1>5

\* And there is one only.
LEMMA ChainUnique ==
    ASSUME NEW m \in Nat, NEW n \in Nat, NEW stop, NEW value, NEW up,
           IsChain(m, n, stop, value, up),
           NEW f, \A t \in m .. n : f[t] = IF t \in stop THEN value[t] ELSE f[up[t]],
           NEW g, \A t \in m .. n : g[t] = IF t \in stop THEN value[t] ELSE g[up[t]]
    PROVE  \A t \in m .. n : f[t] = g[t]
<1> DEFINE T == {t \in m .. n : f[t] # g[t]}
<1>1. SUFFICES ASSUME T # {} PROVE FALSE
  OBVIOUS
<1>2. PICK t \in T : \A u \in T : t <= u
  <2>1. T \subseteq Nat
    OBVIOUS
  <2> HIDE DEF T
  <2>. QED
    BY <1>1, <2>1, FirstOf
<1>3. t \in m .. n /\ f[t] # g[t]
  OBVIOUS
<1>4. t \notin stop
  BY <1>3
<1>5. up[t] \in m .. t - 1 /\ up[t] \in m .. n /\ up[t] < t
  BY <1>3, <1>4 DEF IsChain
<1>6. f[up[t]] # g[up[t]]
  BY <1>3, <1>4
<1>. QED
  BY <1>2, <1>5, <1>6

-----------------------------------------------------------------------------
(* The lookups.                                                            *)

\* The functions that LookupCapturable, ResolvedFrom, Owner and Encloses are made of.
Capturable == CHOOSE lookup : lookup = [s \in {0} \cup Scopes |->
    IF s = 0 THEN 0
    ELSE IF Skips(s) \/ ~HasAny(s, {"Bound"}) THEN lookup[parent[s]]
    ELSE IF kind[s] = "module" THEN 0 ELSE s]

Found(s) == CHOOSE lookup : lookup = [t \in {0} \cup Scopes |->
    IF t = 0 THEN 0
    ELSE IF ~Hides(t, s) /\ HasAny(t, {"Bound"} \cup Declarations) THEN t
    ELSE lookup[parent[t]]]

Around == CHOOSE around : around = [t \in Scopes |->
    IF t = 1 THEN 1
    ELSE IF kind[t] = "class" THEN around[parent[t]]
    ELSE IF HasAny(t, {"Global"}) THEN 1
    ELSE IF HasAny(t, {"Bound"}) /\ ~HasAny(t, {"Nonlocal"}) THEN t
    ELSE around[parent[t]]]

Climb(s) == CHOOSE climb : climb = [u \in Scopes |-> IF u <= s THEN u ELSE climb[parent[u]]]

\* They are what the operators of Symbols return.
LEMMA Lookups ==
    /\ \A s : LookupCapturable(s) = Capturable[s]
    /\ \A s : ResolvedFrom(s) = Found(s)[s]
    /\ \A s : Owner(s) = IF s = 1 \/ HasAny(s, {"Global"}) THEN 1
                         ELSE IF HasAny(s, {"Bound"}) /\ ~HasAny(s, {"Nonlocal"}) THEN s
                         ELSE Around[parent[s]]
    /\ \A s, t : Encloses(s, t) <=> Climb(s)[t] = s
<1>1. \A s : LookupCapturable(s) = Capturable[s]
  BY DEF LookupCapturable, Capturable
<1>2. \A s : ResolvedFrom(s) = Found(s)[s]
  BY DEF ResolvedFrom, Found
<1>3. \A s : Owner(s) = IF s = 1 \/ HasAny(s, {"Global"}) THEN 1
                        ELSE IF HasAny(s, {"Bound"}) /\ ~HasAny(s, {"Nonlocal"}) THEN s
                        ELSE Around[parent[s]]
  BY DEF Owner, Around
<1>4. \A s, t : Encloses(s, t) <=> Climb(s)[t] = s
  BY DEF Encloses, Climb
<1>. QED
  BY <1>1, <1>2, <1>3, <1>4

\* The scopes are numbered from the module inwards.
LEMMA Tree ==
    ASSUME TypeOK
    PROVE  /\ Len(kind) \in Nat \ {0} /\ Scopes = 1 .. Len(kind) /\ 1 \in Scopes
           /\ kind[1] = "module" /\ parent[1] = 0
           /\ \A s \in Scopes : s # 1 => /\ parent[s] \in Scopes /\ parent[s] < s
                                         /\ kind[s] # "module"
<1>1. Len(kind) \in Nat \ {0} /\ Scopes = 1 .. Len(kind)
  BY DEF TypeOK, Scopes
<1>2. parent \in [Scopes -> Nat]
  BY DEF TypeOK
<1>. QED
  BY <1>1, <1>2 DEF TypeOK

\* LookupCapturable, one scope at a time.
LEMMA CapturableStep ==
    ASSUME TypeOK
    PROVE  /\ Capturable[0] = 0
           /\ \A s \in Scopes :
                  Capturable[s] = IF Skips(s) \/ ~HasAny(s, {"Bound"}) THEN Capturable[parent[s]]
                                  ELSE IF kind[s] = "module" THEN 0 ELSE s
<1> DEFINE n == Len(kind)
           stop == {s \in 0 .. n : s = 0 \/ ~(Skips(s) \/ ~HasAny(s, {"Bound"}))}
           value == [s \in 0 .. n |-> IF s = 0 THEN 0 ELSE IF kind[s] = "module" THEN 0 ELSE s]
           Body(f) == [s \in {0} \cup Scopes |->
               IF s = 0 THEN 0
               ELSE IF Skips(s) \/ ~HasAny(s, {"Bound"}) THEN f[parent[s]]
               ELSE IF kind[s] = "module" THEN 0 ELSE s]
<1>1. {0} \cup Scopes = 0 .. n /\ n \in Nat /\ 0 \in Nat
  BY Tree
<1>2. IsChain(0, n, stop, value, parent)
  BY <1>1, Tree DEF IsChain
<1>3. PICK f : Follows(f, 0, n, stop, value, parent)
  <2> HIDE DEF stop, value, n
  <2>. QED
    BY <1>1, <1>2, ChainExists
<1>4. f = Body(f)
  <2>1. ASSUME NEW t \in 0 .. n
        PROVE  f[t] = Body(f)[t]
    <3>1. f[t] = IF t \in stop THEN value[t] ELSE f[parent[t]]
      <4> HIDE DEF stop, value, n
      <4>. QED
        BY <1>3 DEF Follows
    <3>. QED
      BY <1>1, <3>1
  <2>2. Body(f) = [t \in 0 .. n |-> Body(f)[t]]
    BY <1>1
  <2> HIDE DEF Body, n
  <2>. QED
    BY <1>1, <1>3, <2>1, <2>2 DEF Follows
<1>5. Capturable = Body(Capturable)
  BY <1>4 DEF Capturable
<1>6. Capturable[0] = 0 /\ \A t \in Scopes : Capturable[t] = Body(Capturable)[t]
  BY <1>5
<1>. QED
  BY <1>6, <1>1, Tree

\* Scope.Resolve, one scope at a time.
LEMMA FoundStep ==
    ASSUME TypeOK, NEW s
    PROVE  /\ Found(s)[0] = 0
           /\ \A t \in Scopes :
                  Found(s)[t] = IF ~Hides(t, s) /\ HasAny(t, {"Bound"} \cup Declarations) THEN t
                                ELSE Found(s)[parent[t]]
<1> DEFINE n == Len(kind)
           stop == {t \in 0 .. n :
                       \/ t = 0
                       \/ ~Hides(t, s) /\ HasAny(t, {"Bound"} \cup Declarations)}
           value == [t \in 0 .. n |-> t]
           Body(f) == [t \in {0} \cup Scopes |->
               IF t = 0 THEN 0
               ELSE IF ~Hides(t, s) /\ HasAny(t, {"Bound"} \cup Declarations) THEN t
               ELSE f[parent[t]]]
<1>1. {0} \cup Scopes = 0 .. n /\ n \in Nat /\ 0 \in Nat
  BY Tree
<1>2. IsChain(0, n, stop, value, parent)
  BY <1>1, Tree DEF IsChain
<1>3. PICK f : Follows(f, 0, n, stop, value, parent)
  <2> HIDE DEF stop, value, n
  <2>. QED
    BY <1>1, <1>2, ChainExists
<1>4. f = Body(f)
  <2>1. ASSUME NEW t \in 0 .. n
        PROVE  f[t] = Body(f)[t]
    <3>1. f[t] = IF t \in stop THEN value[t] ELSE f[parent[t]]
      <4> HIDE DEF stop, value, n
      <4>. QED
        BY <1>3 DEF Follows
    <3>. QED
      BY <1>1, <3>1
  <2>2. Body(f) = [t \in 0 .. n |-> Body(f)[t]]
    BY <1>1
  <2> HIDE DEF Body, n
  <2>. QED
    BY <1>1, <1>3, <2>1, <2>2 DEF Follows
<1>5. Found(s) = Body(Found(s))
  BY <1>4 DEF Found
<1>6. \A t \in {0} \cup Scopes : Found(s)[t] = Body(Found(s))[t]
  <2> HIDE DEF Body
  <2>. QED
    BY <1>5
<1>7. \A t \in Scopes : t # 0
  BY Tree
<1>. QED
  BY <1>6, <1>7

\* The search for the owner of a name, one scope at a time.
LEMMA AroundStep ==
    ASSUME TypeOK, NEW t \in Scopes
    PROVE  Around[t] = IF t = 1 THEN 1
                       ELSE IF kind[t] = "class" THEN Around[parent[t]]
                       ELSE IF HasAny(t, {"Global"}) THEN 1
                       ELSE IF HasAny(t, {"Bound"}) /\ ~HasAny(t, {"Nonlocal"}) THEN t
                       ELSE Around[parent[t]]
<1> DEFINE n == Len(kind)
           Local(s) == HasAny(s, {"Bound"}) /\ ~HasAny(s, {"Nonlocal"})
           stop == {s \in 1 .. n :
                       \/ s = 1
                       \/ kind[s] # "class" /\ (HasAny(s, {"Global"}) \/ Local(s))}
           value == [s \in 1 .. n |-> IF s = 1 THEN 1 ELSE IF HasAny(s, {"Global"}) THEN 1 ELSE s]
           Body(f) == [s \in Scopes |->
               IF s = 1 THEN 1
               ELSE IF kind[s] = "class" THEN f[parent[s]]
               ELSE IF HasAny(s, {"Global"}) THEN 1
               ELSE IF Local(s) THEN s
               ELSE f[parent[s]]]
<1>1. Scopes = 1 .. n /\ n \in Nat /\ 1 \in Nat
  BY Tree
<1>2. IsChain(1, n, stop, value, parent)
  <2> HIDE DEF Local
  <2>. QED
    BY <1>1, Tree DEF IsChain
<1>3. PICK f : Follows(f, 1, n, stop, value, parent)
  <2> HIDE DEF stop, value, n
  <2>. QED
    BY <1>1, <1>2, ChainExists
<1>4. f = Body(f)
  <2>1. ASSUME NEW s \in 1 .. n
        PROVE  f[s] = Body(f)[s]
    <3>1. f[s] = IF s \in stop THEN value[s] ELSE f[parent[s]]
      <4> HIDE DEF stop, value, n
      <4>. QED
        BY <1>3 DEF Follows
    <3> HIDE DEF Local
    <3>. QED
      BY <1>1, <3>1
  <2>2. Body(f) = [s \in 1 .. n |-> Body(f)[s]]
    BY <1>1
  <2> HIDE DEF Body, n
  <2>. QED
    BY <1>1, <1>3, <2>1, <2>2 DEF Follows
<1>5. Around = Body(Around)
  BY <1>4 DEF Around
<1>6. Around[t] = Body(Around)[t]
  BY <1>5
<1>. QED
  BY <1>6

\* Climbing to the scope s, one scope at a time.
LEMMA ClimbStep ==
    ASSUME TypeOK, NEW s \in Scopes, NEW t \in Scopes
    PROVE  Climb(s)[t] = IF t <= s THEN t ELSE Climb(s)[parent[t]]
<1> DEFINE n == Len(kind)
           stop == {u \in 1 .. n : u <= s}
           value == [u \in 1 .. n |-> u]
           Body(f) == [u \in Scopes |-> IF u <= s THEN u ELSE f[parent[u]]]
<1>1. Scopes = 1 .. n /\ n \in Nat /\ 1 \in Nat /\ s \in 1 .. n
  BY Tree
<1>2. IsChain(1, n, stop, value, parent)
  <2>1. \A u \in 1 .. n : u # 1 => parent[u] \in 1 .. n /\ parent[u] < u
    BY <1>1, Tree
  <2>. QED
    BY <1>1, <2>1 DEF IsChain
<1>3. PICK f : Follows(f, 1, n, stop, value, parent)
  <2> HIDE DEF stop, value, n
  <2>. QED
    BY <1>1, <1>2, ChainExists
<1>4. f = Body(f)
  <2>1. ASSUME NEW u \in 1 .. n
        PROVE  f[u] = Body(f)[u]
    <3>1. f[u] = IF u \in stop THEN value[u] ELSE f[parent[u]]
      <4> HIDE DEF stop, value, n
      <4>. QED
        BY <1>3 DEF Follows
    <3>. QED
      BY <1>1, <3>1
  <2>2. Body(f) = [u \in 1 .. n |-> Body(f)[u]]
    BY <1>1
  <2> HIDE DEF Body, n
  <2>. QED
    BY <1>1, <1>3, <2>1, <2>2 DEF Follows
<1>5. Climb(s) = Body(Climb(s))
  BY <1>4 DEF Climb
<1>6. Climb(s)[t] = Body(Climb(s))[t]
  <2> HIDE DEF Body
  <2>. QED
    BY <1>5
<1>. QED
  BY <1>6

-----------------------------------------------------------------------------
(* Programs without declarations.                                          *)

NoDeclarations == \A s \in Scopes : ~HasAny(s, Declarations)

(***************************************************************************)
(* The two searches for a variable, that of resolve and that of Python,    *)
(* end in the same scope; resolve does not capture from the module.        *)
(***************************************************************************)
LEMMA SearchesAgree ==
    ASSUME TypeOK, NoDeclarations
    PROVE  \A t \in Scopes :
               /\ Around[t] \in 1 .. t
               /\ Capturable[t] = IF Around[t] = 1 THEN 0 ELSE Around[t]
<1> DEFINE Agree(t) == /\ Around[t] \in 1 .. t
                       /\ Capturable[t] = IF Around[t] = 1 THEN 0 ELSE Around[t]
           T == {t \in Scopes : ~Agree(t)}
<1>1. SUFFICES ASSUME T # {} PROVE FALSE
  OBVIOUS
<1>2. PICK t \in T : \A u \in T : t <= u
  <2>1. T \subseteq Nat
    BY Tree
  <2> HIDE DEF T
  <2>. QED
    BY <1>1, <2>1, FirstOf
<1>3. t \in Scopes /\ ~Agree(t) /\ \A u \in Scopes : u < t => Agree(u)
  <2>1. t \in Nat /\ \A u \in Scopes : u \in Nat
    BY Tree
  <2> HIDE DEF Agree
  <2>. QED
    BY <1>2, <2>1
<1>4. ~HasAny(t, {"Global"}) /\ ~HasAny(t, {"Nonlocal"})
  BY <1>3 DEF NoDeclarations, HasAny, Declarations
<1>5. CASE t = 1
  <2>1. Around[1] = 1 /\ Capturable[1] = 0
    BY <1>5, Tree, AroundStep, CapturableStep
  <2>. QED
    BY <1>3, <1>5, <2>1
<1>6. CASE t # 1
  <2>1. parent[t] \in Scopes /\ parent[t] \in Nat /\ parent[t] < t /\ t \in Nat
        /\ kind[t] # "module"
    BY <1>3, <1>6, Tree
  <2>2. Agree(parent[t])
    BY <1>3, <2>1
  <2>3. /\ Around[t] = IF ~Skips(t) /\ HasAny(t, {"Bound"}) THEN t ELSE Around[parent[t]]
        /\ Capturable[t] = IF ~Skips(t) /\ HasAny(t, {"Bound"}) THEN t
                           ELSE Capturable[parent[t]]
    BY <1>3, <1>4, <1>6, <2>1, AroundStep, CapturableStep DEF Skips
  <2>. QED
    BY <1>3, <1>6, <2>1, <2>2, <2>3
<1>. QED
  BY <1>5, <1>6

\* A search that does not end at t goes on around it.
LEMMA AroundClimbs ==
    ASSUME TypeOK, NoDeclarations, NEW t \in Scopes, Around[t] # t
    PROVE  t # 1 /\ parent[t] \in Scopes /\ parent[t] < t /\ Around[t] = Around[parent[t]]
<1>1. ~HasAny(t, {"Global"})
  BY DEF NoDeclarations, HasAny, Declarations
<1>. QED
  BY <1>1, Tree, AroundStep

\* It ends in a scope around the one it came from.
LEMMA AroundEncloses ==
    ASSUME TypeOK, NoDeclarations
    PROVE  \A t \in Scopes : Climb(Around[t])[t] = Around[t]
<1> DEFINE Goal(t) == Climb(Around[t])[t] = Around[t]
           T == {t \in Scopes : ~Goal(t)}
<1>1. SUFFICES ASSUME T # {} PROVE FALSE
  OBVIOUS
<1>2. PICK t \in T : \A u \in T : t <= u
  <2>1. T \subseteq Nat
    BY Tree
  <2> HIDE DEF T
  <2>. QED
    BY <1>1, <2>1, FirstOf
<1>3. t \in Scopes /\ ~Goal(t) /\ \A u \in Scopes : u < t => Goal(u)
  <2>1. t \in Nat /\ \A u \in Scopes : u \in Nat
    BY Tree
  <2> HIDE DEF Goal
  <2>. QED
    BY <1>2, <2>1
<1>4. t \in Nat /\ Around[t] \in 1 .. t /\ Around[t] \in Scopes
  BY <1>3, Tree, SearchesAgree
<1>5. CASE Around[t] = t
  BY <1>3, <1>4, <1>5, ClimbStep
<1>6. CASE Around[t] # t
  <2>1. parent[t] \in Scopes /\ parent[t] < t /\ Around[t] = Around[parent[t]]
    BY <1>3, <1>6, AroundClimbs
  <2>2. Goal(parent[t])
    BY <1>3, <2>1
  <2>3. ~(t <= Around[t])
    BY <1>4, <1>6
  <2>4. Climb(Around[t])[t] = Climb(Around[t])[parent[t]]
    BY <1>3, <1>4, <2>3, ClimbStep
  <2>. QED
    BY <1>3, <2>1, <2>2, <2>4
<1>. QED
  BY <1>5, <1>6

\* From inside of s it ends inside of s, or where the search from s does.
LEMMA AroundFrom ==
    ASSUME TypeOK, NoDeclarations, NEW s \in Scopes
    PROVE  \A t \in Scopes : Climb(s)[t] = s => Around[t] = Around[s] \/ s <= Around[t]
<1> DEFINE Goal(t) == Climb(s)[t] = s => Around[t] = Around[s] \/ s <= Around[t]
           T == {t \in Scopes : ~Goal(t)}
<1>1. SUFFICES ASSUME T # {} PROVE FALSE
  OBVIOUS
<1>2. PICK t \in T : \A u \in T : t <= u
  <2>1. T \subseteq Nat
    BY Tree
  <2> HIDE DEF T
  <2>. QED
    BY <1>1, <2>1, FirstOf
<1>3. t \in Scopes /\ ~Goal(t) /\ \A u \in Scopes : u < t => Goal(u)
  <2>1. t \in Nat /\ \A u \in Scopes : u \in Nat
    BY Tree
  <2> HIDE DEF Goal
  <2>. QED
    BY <1>2, <2>1
<1>4. t \in Nat /\ s \in Nat /\ Climb(s)[t] = s /\ t # s
  BY <1>3, Tree
<1>5. ~(t <= s) /\ Climb(s)[t] = Climb(s)[parent[t]]
  BY <1>3, <1>4, ClimbStep
<1>6. Around[t] # t
  BY <1>3, <1>4, <1>5
<1>7. parent[t] \in Scopes /\ parent[t] < t /\ Around[t] = Around[parent[t]]
  BY <1>3, <1>6, AroundClimbs
<1>8. Goal(parent[t])
  BY <1>3, <1>7
<1>. QED
  BY <1>3, <1>4, <1>5, <1>7, <1>8

\* Scope.Resolve finds nothing when Python's search ends in a module without a binding.
LEMMA NothingFound ==
    ASSUME TypeOK, NoDeclarations, NEW s \in Scopes
    PROVE  \A t \in Scopes : t < s => (Found(s)[t] = 0 <=> Around[t] = 1 /\ ~HasAny(1, {"Bound"}))
<1> DEFINE Agree(t) == Found(s)[t] = 0 <=> Around[t] = 1 /\ ~HasAny(1, {"Bound"})
           T == {t \in Scopes : t < s /\ ~Agree(t)}
<1>1. SUFFICES ASSUME T # {} PROVE FALSE
  OBVIOUS
<1>2. PICK t \in T : \A u \in T : t <= u
  <2>1. T \subseteq Nat
    BY Tree
  <2> HIDE DEF T
  <2>. QED
    BY <1>1, <2>1, FirstOf
<1>3. t \in Scopes /\ t < s /\ ~Agree(t) /\ \A u \in Scopes : u < t => Agree(u)
  <2>1. t \in Nat /\ s \in Nat /\ \A u \in Scopes : u \in Nat
    BY Tree
  <2> HIDE DEF Agree
  <2>. QED
    BY <1>2, <2>1
<1>4. /\ ~HasAny(t, {"Global"}) /\ ~HasAny(t, {"Nonlocal"})
      /\ HasAny(t, {"Bound"} \cup Declarations) <=> HasAny(t, {"Bound"})
  BY <1>3 DEF NoDeclarations, HasAny, Declarations
<1>5. t # s /\ t # 0 /\ t \in Nat
  BY <1>3, Tree
<1>6. CASE t = 1
  <2>1. Around[1] = 1 /\ Found(s)[1] = IF HasAny(1, {"Bound"}) THEN 1 ELSE 0
    <3>1. 1 \in Scopes /\ kind[1] = "module" /\ parent[1] = 0
      BY Tree
    <3>2. Found(s)[1] = IF HasAny(1, {"Bound"}) THEN 1 ELSE Found(s)[0]
      BY <1>4, <1>6, <3>1, FoundStep DEF Hides
    <3>. QED
      BY <3>1, <3>2, AroundStep, FoundStep
  <2>. QED
    BY <1>3, <1>6, <2>1
<1>7. CASE t # 1
  <2>1. parent[t] \in Scopes /\ parent[t] < t
    BY <1>3, <1>7, Tree
  <2>2. Agree(parent[t])
    BY <1>3, <2>1
  <2>3. CASE kind[t] # "class" /\ HasAny(t, {"Bound"})
    <3>1. Around[t] = t /\ Found(s)[t] = t
      BY <1>3, <1>4, <1>7, <2>3, AroundStep, FoundStep DEF Hides
    <3>. QED
      BY <1>3, <1>5, <1>7, <3>1
  <2>4. CASE kind[t] = "class" \/ ~HasAny(t, {"Bound"})
    <3>1. Around[t] = Around[parent[t]] /\ Found(s)[t] = Found(s)[parent[t]]
      BY <1>3, <1>4, <1>5, <1>7, <2>4, AroundStep, FoundStep DEF Hides
    <3>. QED
      BY <1>3, <2>2, <3>1
  <2>. QED
    BY <2>3, <2>4
<1>. QED
  BY <1>6, <1>7

\* The owner of a name in a program without declarations.
LEMMA OwnerIs ==
    ASSUME TypeOK, NoDeclarations, NEW s \in Scopes
    PROVE  Owner(s) = IF s = 1 THEN 1
                      ELSE IF HasAny(s, {"Bound"}) THEN s ELSE Around[parent[s]]
<1>1. ~HasAny(s, {"Global"}) /\ ~HasAny(s, {"Nonlocal"})
  BY DEF NoDeclarations, HasAny, Declarations
<1>. QED
  BY <1>1, Lookups

\* The reads that F821 reports are the reads of an unbound name of the module.
LEMMA UndefinedFound ==
    ASSUME TypeOK
    PROVE  UndefinedIsUnbound
<1> SUFFICES ASSUME Plain, NEW s \in Scopes
             PROVE  ReportsF821(s) <=> s \in reads /\ Owner(s) = 1 /\ ~HasAny(1, {"Bound"})
  BY DEF UndefinedIsUnbound
<1>1. NoDeclarations
  BY DEF Plain, NoDeclarations
<1>2. /\ HasAny(s, {"Used"}) <=> s \in reads
      /\ HasAny(s, {"Bound"} \cup Declarations) <=> HasAny(s, {"Bound"})
  BY DEF Plain, HasAny, Declarations
<1>3. Found(s)[s] = IF HasAny(s, {"Bound"}) THEN s ELSE Found(s)[parent[s]]
  BY <1>2, FoundStep DEF Hides
<1>4. CASE s = 1
  <2>1. Found(s)[s] = IF HasAny(1, {"Bound"}) THEN 1 ELSE 0
    BY <1>3, <1>4, Tree, FoundStep
  <2>. QED
    BY <1>1, <1>2, <1>4, <2>1, OwnerIs, Lookups DEF ReportsF821
<1>5. CASE s # 1
  <2>1. parent[s] \in Scopes /\ parent[s] < s
    BY <1>5, Tree
  <2>2. Found(s)[parent[s]] = 0 <=> Around[parent[s]] = 1 /\ ~HasAny(1, {"Bound"})
    BY <1>1, <2>1, NothingFound
  <2>. QED
    BY <1>1, <1>2, <1>3, <1>5, <2>2, OwnerIs, Lookups DEF ReportsF821
<1>. QED
  BY <1>4, <1>5

-----------------------------------------------------------------------------
(* The table.                                                              *)

\* Free and Cell are set by resolve only, ...
NoMarks == ~built => \A s \in Scopes : flags[s] \cap {"Free", "Cell"} = {}

\* ... and say what the lookups on the finished table say.
MarksOK ==
    built => \A s \in Scopes :
        /\ "Free" \in flags[s] <=> s \in Unresolved /\ Captured(s) # 0
        /\ "Cell" \in flags[s] <=> \E t \in Unresolved : Captured(t) = s

\* A use recorded in the module is one: annotations and defaults are inside it.
ModuleReads == HasAny(1, {"Used"}) => 1 \in reads

TableInv == TypeOK /\ NoMarks /\ ModuleReads /\ MarksOK

\* CPython has the name free in a reader exactly when its variable is another one's.
LEMMA FreeInReaders ==
    ASSUME TypeOK, NoDeclarations, NEW s \in Scopes, s # 1, FunctionLike(s), s \in reads
    PROVE  PyFree(s) <=> Owner(s) \notin {1, s}
<1>1. /\ s \in Nat /\ \A t \in Scopes : t \in Nat
      /\ parent[s] \in Scopes /\ parent[s] \in Nat /\ parent[s] < s /\ reads \subseteq Scopes
      /\ \A t \in Scopes : Around[t] \in Scopes /\ Around[t] \in Nat /\ Around[t] <= t
  <2>1. \A t \in Scopes : t \in Nat /\ t \in 1 .. Len(kind) /\ Len(kind) \in Nat
    BY Tree
  <2>2. \A t \in Scopes : Around[t] \in 1 .. t
    BY SearchesAgree
  <2>3. \A t \in Scopes : Around[t] \in 1 .. Len(kind) /\ Around[t] <= t /\ Around[t] \in Nat
    BY <2>1, <2>2
  <2>4. parent[s] \in Scopes /\ parent[s] < s /\ reads \subseteq Scopes /\ Scopes = 1 .. Len(kind)
    BY Tree DEF TypeOK
  <2>. QED
    BY <2>1, <2>3, <2>4
<1>2. ASSUME Owner(s) \notin {1, s}
      PROVE  PyFree(s)
  <2>1. Owner(s) = Around[parent[s]]
    BY <1>2, OwnerIs
  <2> DEFINE o == Around[parent[s]]
  <2>2. o \in Scopes /\ o \in Nat /\ o <= parent[s] /\ ~(s <= o)
    BY <1>1
  <2>3. Climb(o)[parent[s]] = o
    BY <1>1, AroundEncloses
  <2>4. Climb(o)[s] = o
    <3> HIDE DEF o
    <3>. QED
      BY <1>1, <2>2, <2>3, ClimbStep
  <2>5. Climb(s)[s] = s
    BY <1>1, ClimbStep
  <2>. QED
    BY <1>2, <2>1, <2>4, <2>5, Lookups DEF PyFree
<1>3. ASSUME PyFree(s)
      PROVE  Owner(s) \notin {1, s}
  <2>1. PICK t \in reads : Encloses(s, t) /\ Owner(t) \notin {1, s} /\ Encloses(Owner(t), s)
    BY <1>3 DEF PyFree
  <2>2. CASE t = s
    BY <2>1, <2>2
  <2>3. CASE t # s
    <3>1. t \in Scopes /\ t # 1 /\ Climb(s)[t] = s
      <4>1. Owner(1) = 1
        BY Lookups
      <4>. QED
        BY <1>1, <2>1, <4>1, Lookups
    <3>2. parent[t] \in Scopes /\ Owner(t) \in Scopes /\ Climb(Owner(t))[s] = Owner(t)
      BY <1>1, <2>1, <3>1, Tree, OwnerIs, Lookups
    <3>3. Owner(t) \in Nat /\ Owner(t) < s /\ ~(s <= Owner(t))
      <4>1. Climb(Owner(t))[s] = IF s <= Owner(t) THEN s ELSE Climb(Owner(t))[parent[s]]
        BY <3>2, ClimbStep
      <4>2. Owner(t) \in Nat /\ Owner(t) # s
        BY <1>1, <2>1, <3>2
      <4>3. ~(s <= Owner(t))
        BY <3>2, <4>1, <4>2
      <4>. QED
        BY <1>1, <4>2, <4>3
    <3>4. ~(t <= s) /\ Climb(s)[parent[t]] = s
      BY <1>1, <2>3, <3>1, ClimbStep
    <3>5. Owner(t) = Around[parent[t]]
      BY <1>1, <3>1, <3>3, <3>4, OwnerIs
    <3>6. Owner(t) = Around[s]
      <4>1. Around[parent[t]] = Around[s] \/ s <= Around[parent[t]]
        BY <3>2, <3>4, AroundFrom
      <4>. QED
        BY <3>3, <3>5, <4>1
    <3>7. ~HasAny(s, {"Bound"}) /\ Around[s] = Around[parent[s]]
      <4>1. Around[s] # s
        BY <2>1, <3>6
      <4>2. ~HasAny(s, {"Global"}) /\ ~HasAny(s, {"Nonlocal"}) /\ kind[s] # "class"
        BY DEF NoDeclarations, HasAny, Declarations, FunctionLike
      <4>. QED
        BY <4>1, <4>2, AroundStep
    <3>. QED
      BY <2>1, <3>6, <3>7, OwnerIs
  <2>. QED
    BY <2>2, <2>3
<1>. QED
  BY <1>2, <1>3

\* What the marks say is what Python's rules say.
LEMMA MarksMirror ==
    ASSUME TypeOK, MarksOK
    PROVE  MirrorsButRelays
<1> SUFFICES ASSUME built, Plain, NEW s \in Scopes \ {1}
             PROVE  /\ FunctionLike(s) => ("Free" \in flags[s] <=> PyFree(s) /\ ~Relays(s))
                    /\ "Cell" \in flags[s] <=> PyCell(s) /\ ~ReadByBodies(s)
  BY DEF MirrorsButRelays
<1>1. NoDeclarations
  BY DEF Plain, NoDeclarations
<1>2. reads \subseteq Scopes /\ s \in Nat /\ s # 0
  BY Tree DEF TypeOK
<1>3. \A t \in Scopes : FunctionLike(t) => t # 1
  BY Tree DEF FunctionLike
<1>4. \A t \in Scopes :
          t \in Unresolved <=> FunctionLike(t) /\ t \in reads /\ ~HasAny(t, {"Bound"})
  BY DEF Plain, Unresolved, HasAny, Declarations
<1>5. ASSUME NEW t \in Scopes, t # 1
      PROVE  /\ Around[parent[t]] \in Nat \ {0} /\ Around[parent[t]] # t
             /\ Captured(t) = IF Around[parent[t]] = 1 THEN 0 ELSE Around[parent[t]]
             /\ Owner(t) = IF HasAny(t, {"Bound"}) THEN t ELSE Around[parent[t]]
  <2>1. parent[t] \in Scopes /\ parent[t] < t /\ parent[t] \in Nat /\ t \in Nat
    BY <1>5, Tree
  <2>2. Around[parent[t]] \in 1 .. parent[t]
        /\ Capturable[parent[t]] = IF Around[parent[t]] = 1 THEN 0 ELSE Around[parent[t]]
    BY <1>1, <2>1, SearchesAgree
  <2>3. Captured(t) = Capturable[parent[t]]
    BY Lookups DEF Captured
  <2>4. Owner(t) = IF HasAny(t, {"Bound"}) THEN t ELSE Around[parent[t]]
    BY <1>1, <1>5, OwnerIs
  <2>. QED
    BY <2>1, <2>2, <2>3, <2>4
<1>6. FunctionLike(s) => ("Free" \in flags[s] <=> s \in reads /\ Owner(s) \notin {1, s})
  BY <1>4, <1>5 DEF MarksOK
<1>7. ASSUME NEW t \in Unresolved, Captured(t) = s
      PROVE  t \in reads \ {s} /\ FunctionLike(t) /\ Owner(t) = s
  <2>1. t \in Scopes
    BY DEF Unresolved
  <2>. QED
    BY <1>2, <1>3, <1>4, <1>5, <1>7, <2>1
<1>8. ASSUME NEW t \in reads \ {s}, FunctionLike(t), Owner(t) = s
      PROVE  t \in Unresolved /\ Captured(t) = s
  BY <1>2, <1>3, <1>4, <1>5, <1>8
<1>9. "Cell" \in flags[s] <=> \E t \in reads \ {s} : FunctionLike(t) /\ Owner(t) = s
  BY <1>7, <1>8 DEF MarksOK
<1>10. \A t \in reads \ {s} : Owner(t) = s => (FunctionLike(t) <=> kind[t] # "class")
  <2>1. \A t \in Scopes : kind[t] \in Kinds
    BY Tree DEF TypeOK
  <2>2. \A t \in Scopes : FunctionLike(t) <=> kind[t] \notin {"module", "class"}
    BY <2>1 DEF FunctionLike, Kinds
  <2>3. Owner(1) # s
    BY Lookups
  <2>. QED
    BY <1>2, <2>2, <2>3, Tree
<1>11. PyCell(s) /\ ~ReadByBodies(s) <=> \E t \in reads \ {s} : FunctionLike(t) /\ Owner(t) = s
  BY <1>10 DEF PyCell, ReadByBodies
<1>12. FunctionLike(s) =>
           (PyFree(s) /\ ~Relays(s) <=> s \in reads /\ Owner(s) \notin {1, s})
  BY <1>1, FreeInReaders, Tree DEF Relays
<1>. QED
  BY <1>6, <1>9, <1>11, <1>12

\* A use of the module is one more place where its import is read.
LEMMA ModuleReadsSuffice ==
    ASSUME ModuleReads
    PROVE  UnreadImportIsReported
<1>1. Owner(1) = 1
  BY Lookups
<1>. QED
  BY <1>1 DEF ModuleReads, UnreadImportIsReported, ReportsF401, ImportIsRead

-----------------------------------------------------------------------------
(* The walk.                                                               *)

\* The table with new flags for the name in one scope.
HasAdded(result, table, s, new) ==
    /\ result \in Seq(SUBSET Flags)
    /\ DOMAIN result = DOMAIN table
    /\ \A t \in DOMAIN table : result[t] = IF t = s THEN table[t] \cup new ELSE table[t]

\* What Flagged returns, also when there is no such scope.
LEMMA FlaggedTable ==
    ASSUME NEW table, table \in Seq(SUBSET Flags), NEW s, NEW new, new \in SUBSET Flags
    PROVE  HasAdded(Flagged(table, s, new), table, s, new)
<1> DEFINE result == Flagged(table, s, new)
<1>1. /\ Len(table) \in Nat /\ DOMAIN table = 1 .. Len(table)
      /\ \A t \in DOMAIN table : table[t] \in SUBSET Flags
  OBVIOUS
<1>2. /\ DOMAIN result = DOMAIN table
      /\ result = [t \in DOMAIN table |-> IF t = s THEN table[t] \cup new ELSE table[t]]
  BY <1>1 DEF Flagged
<1>3. \A t \in DOMAIN table :
          result[t] = (IF t = s THEN table[t] \cup new ELSE table[t]) /\ result[t] \in SUBSET Flags
  BY <1>1, <1>2
<1>4. result \in [1 .. Len(table) -> SUBSET Flags]
  BY <1>1, <1>2
<1>5. result \in Seq(SUBSET Flags)
  BY <1>1, <1>4
<1>. QED
  BY <1>2, <1>3, <1>5 DEF HasAdded

\* The steps that leave the scopes as they are and add flags in one of them.
Adds(s, new) ==
    /\ ~built
    /\ UNCHANGED <<treeVars, built>>
    /\ flags' = Flagged(flags, s, new)
    /\ events < MaxEvents /\ events' = events + 1
    /\ header' \in BOOLEAN /\ exempt' \in BOOLEAN

\* Such a step keeps the invariant: a use it records in the module is read there.
LEMMA AddsInv ==
    ASSUME TableInv, NEW s, NEW new \in SUBSET (Flags \ {"Free", "Cell"}), Adds(s, new),
           reads' \in SUBSET Scopes, reads \subseteq reads',
           s = 1 /\ "Used" \in new => 1 \in reads',
           conflicts' \subseteq {t \in Scopes : {"Global", "Nonlocal"} \subseteq flags'[t]}
    PROVE  TableInv'
<1>1. /\ flags' \in Seq(SUBSET Flags) /\ DOMAIN flags' = Scopes
      /\ \A t \in Scopes : flags'[t] = IF t = s THEN flags[t] \cup new ELSE flags[t]
  <2>1. flags \in Seq(SUBSET Flags) /\ DOMAIN flags = Scopes /\ new \in SUBSET Flags
    BY DEF TableInv, TypeOK
  <2>2. HasAdded(Flagged(flags, s, new), flags, s, new)
    BY <2>1, FlaggedTable
  <2>3. flags' = Flagged(flags, s, new)
    BY DEF Adds
  <2>. QED
    BY <2>1, <2>2, <2>3 DEF HasAdded
<1>2. TypeOK'
  BY <1>1, SymbolsAssumption DEF TableInv, TypeOK, Adds, treeVars, Scopes
<1>3. NoMarks'
  BY <1>1 DEF TableInv, NoMarks, Adds, treeVars, Scopes
<1>4. ModuleReads'
  <2>1. 1 \in Scopes
    BY Tree DEF TableInv
  <2>. QED
    BY <1>1, <2>1 DEF TableInv, ModuleReads, HasAny
<1>5. MarksOK'
  BY DEF MarksOK, Adds
<1>. QED
  BY <1>2, <1>3, <1>4, <1>5 DEF TableInv

\* A new scope comes after the one it is in.
LEMMA EnterInv ==
    ASSUME TableInv, NEW k \in Kinds \ {"module"},
           NEW outer \in SUBSET {"Bound"}, NEW inner \in SUBSET {"Bound"},
           Enter(k, outer, inner)
    PROVE  TableInv'
<1> DEFINE n == Len(kind)
           table == Flagged(flags, cur, outer)
<1>1. /\ n \in Nat \ {0} /\ Scopes = 1 .. n /\ kind \in Seq(Kinds) /\ kind # <<>>
      /\ parent \in Seq(Nat) /\ Len(parent) = n
      /\ flags \in Seq(SUBSET Flags) /\ DOMAIN flags = Scopes /\ cur \in 1 .. n
  BY Tree DEF TableInv, TypeOK
<1>2. /\ table \in Seq(SUBSET Flags) /\ Len(table) = n
      /\ \A t \in 1 .. n : table[t] = IF t = cur THEN flags[t] \cup outer ELSE flags[t]
  <2>1. outer \in SUBSET Flags
    BY DEF Flags
  <2>2. /\ table \in Seq(SUBSET Flags) /\ DOMAIN table = 1 .. n
        /\ \A t \in 1 .. n : table[t] = IF t = cur THEN flags[t] \cup outer ELSE flags[t]
    <3>1. HasAdded(table, flags, cur, outer)
      <4>1. flags \in Seq(SUBSET Flags)
        BY <1>1
      <4>. QED
        BY <2>1, <4>1, FlaggedTable
    <3> HIDE DEF table
    <3>. QED
      BY <1>1, <3>1 DEF HasAdded
  <2> HIDE DEF table
  <2>. QED
    BY <1>1, <2>2, LenProperties
<1>3. /\ kind' = Append(kind, k) /\ parent' = Append(parent, cur) /\ cur' = n + 1
      /\ flags' = Append(table, inner) /\ ~built /\ n < MaxScopes
      /\ header' \in BOOLEAN /\ UNCHANGED <<conflicts, exempt, events, built, reads>>
  BY DEF Enter, Push
<1>4. /\ kind' \in Seq(Kinds) /\ Len(kind') = n + 1 /\ kind'[n + 1] = k
      /\ \A t \in 1 .. n : kind'[t] = kind[t]
  BY <1>1, <1>3, AppendProperties
<1>5. /\ parent' \in Seq(Nat) /\ Len(parent') = n + 1 /\ parent'[n + 1] = cur
      /\ \A t \in 1 .. n : parent'[t] = parent[t]
  BY <1>1, <1>3, AppendProperties
<1>6. /\ flags' \in Seq(SUBSET Flags) /\ Len(flags') = n + 1 /\ flags'[n + 1] = inner
      /\ \A t \in 1 .. n : flags'[t] = IF t = cur THEN flags[t] \cup outer ELSE flags[t]
  <2>1. inner \in SUBSET Flags
    BY DEF Flags
  <2> HIDE DEF table, n
  <2>2. /\ flags' \in Seq(SUBSET Flags) /\ Len(flags') = n + 1 /\ flags'[n + 1] = inner
        /\ \A t \in 1 .. n : flags'[t] = table[t]
    <3>1. /\ Append(table, inner) \in Seq(SUBSET Flags)
          /\ Len(Append(table, inner)) = Len(table) + 1
          /\ \A t \in 1 .. Len(table) : Append(table, inner)[t] = table[t]
          /\ Append(table, inner)[Len(table) + 1] = inner
      BY <1>2, <2>1, AppendProperties
    <3>. QED
      BY <1>2, <1>3, <3>1
  <2>. QED
    BY <1>2, <2>2
<1>7. Scopes' = 1 .. n + 1 /\ \A t \in Scopes' : t \in Scopes \/ t = n + 1
  BY <1>1, <1>4 DEF Scopes
<1> HIDE DEF n, table
<1>8. TypeOK'
  <2>1. kind' # <<>> /\ Len(kind') <= MaxScopes
    BY <1>1, <1>3, <1>4, SymbolsAssumption
  <2>2. \A t \in Scopes' : (kind'[t] = "module") <=> t = 1
    <3>1. \A t \in 1 .. n : kind[t] = "module" <=> t = 1
      BY <1>1 DEF TableInv, TypeOK
    <3>. QED
      BY <1>1, <1>4, <1>7, <3>1
  <2>3. \A t \in Scopes' : parent'[t] < t /\ (parent'[t] = 0 => t = 1)
    <3>1. \A t \in Scopes : parent'[t] = parent[t] /\ parent[t] < t /\ (parent[t] = 0 => t = 1)
      BY <1>1, <1>5 DEF TableInv, TypeOK
    <3>2. parent'[n + 1] < n + 1 /\ parent'[n + 1] # 0
      BY <1>1, <1>5
    <3>. QED
      BY <1>7, <3>1, <3>2
  <2>4. conflicts' \subseteq {t \in Scopes' : {"Global", "Nonlocal"} \subseteq flags'[t]}
    <3>1. \A t \in conflicts : t \in 1 .. n /\ {"Global", "Nonlocal"} \subseteq flags[t]
      BY <1>1 DEF TableInv, TypeOK
    <3>2. \A t \in 1 .. n : flags[t] \subseteq flags'[t]
      BY <1>6
    <3>3. \A t \in 1 .. n : t \in Scopes'
      BY <1>1, <1>7
    <3>. QED
      BY <1>3, <3>1, <3>2, <3>3
  <2>5. DOMAIN parent' = Scopes' /\ DOMAIN flags' = Scopes' /\ cur' \in Scopes'
        /\ reads' \subseteq Scopes'
    BY <1>1, <1>3, <1>5, <1>6, <1>7 DEF TableInv, TypeOK
  <2>. QED
    BY <1>3, <1>4, <1>5, <1>6, <2>1, <2>2, <2>3, <2>4, <2>5 DEF TableInv, TypeOK
<1>9. NoMarks'
  BY <1>1, <1>3, <1>6, <1>7 DEF TableInv, NoMarks
<1>10. ModuleReads'
  <2>1. 1 \in 1 .. n
    BY <1>1
  <2>. QED
    BY <1>3, <1>6, <2>1 DEF TableInv, ModuleReads, HasAny
<1>11. MarksOK'
  BY <1>3 DEF MarksOK
<1>. QED
  BY <1>8, <1>9, <1>10, <1>11 DEF TableInv

(***************************************************************************)
(* LookupCapturable goes by the kinds and parents of the scopes and by     *)
(* where the name is bound: a step that leaves these alone keeps what it   *)
(* returns.                                                                *)
(***************************************************************************)
CapturableFollows ==
    /\ Capturable[0] = 0
    /\ \A s \in Scopes :
           Capturable[s] = IF Skips(s) \/ ~HasAny(s, {"Bound"}) THEN Capturable[parent[s]]
                           ELSE IF kind[s] = "module" THEN 0 ELSE s

\* Every table has it.
LEMMA CapturableAlways == TypeOK => CapturableFollows
BY CapturableStep DEF CapturableFollows

\* The lookup of the new table is that of the old one.
LEMMA CapturableKept ==
    ASSUME TypeOK, CapturableFollows, CapturableFollows', kind' = kind, parent' = parent,
           \A s \in Scopes : HasAny(s, {"Bound"})' <=> HasAny(s, {"Bound"})
    PROVE  \A s \in {0} \cup Scopes : Capturable'[s] = Capturable[s]
<1> DEFINE n == Len(kind)
           stop == {s \in 0 .. n : s = 0 \/ ~(Skips(s) \/ ~HasAny(s, {"Bound"}))}
           value == [s \in 0 .. n |-> IF s = 0 THEN 0 ELSE IF kind[s] = "module" THEN 0 ELSE s]
<1>1. {0} \cup Scopes = 0 .. n /\ n \in Nat /\ 0 \in Nat
  BY Tree
<1>2. IsChain(0, n, stop, value, parent)
  BY <1>1, Tree DEF IsChain
<1>3. \A s \in 0 .. n : Capturable[s] = IF s \in stop THEN value[s] ELSE Capturable[parent[s]]
  BY <1>1 DEF CapturableFollows
<1>4. \A s \in 0 .. n : Capturable'[s] = IF s \in stop THEN value[s] ELSE Capturable'[parent[s]]
  <2>1. /\ Capturable'[0] = 0
        /\ \A s \in Scopes : Capturable'[s] =
               IF Skips(s) \/ ~HasAny(s, {"Bound"}) THEN Capturable'[parent[s]]
               ELSE IF kind[s] = "module" THEN 0 ELSE s
    BY DEF CapturableFollows, Scopes, Skips
  <2>. QED
    BY <1>1, <2>1
<1> HIDE DEF stop, value, n
<1>. QED
  BY <1>1, <1>2, <1>3, <1>4, ChainUnique

\* And so does what resolve looks up: the marks it sets are not among what it goes by.
LEMMA LookupsKept ==
    ASSUME TypeOK, CapturableFollows, CapturableFollows', kind' = kind, parent' = parent,
           \A s \in Scopes : \A some : some \cap {"Free", "Cell"} = {} =>
               (HasAny(s, some)' <=> HasAny(s, some))
    PROVE  \A s \in Scopes : /\ s \in Unresolved' <=> s \in Unresolved
                             /\ Captured(s)' = Captured(s)
<1>1. Scopes' = Scopes
  BY DEF Scopes
<1>2. \A s \in {0} \cup Scopes : Capturable'[s] = Capturable[s]
  <2>1. \A s \in Scopes : HasAny(s, {"Bound"})' <=> HasAny(s, {"Bound"})
    OBVIOUS
  <2>. QED
    BY <2>1, CapturableKept
<1>3. ASSUME NEW s \in Scopes PROVE s \in Unresolved' <=> s \in Unresolved
  <2>1. /\ HasAny(s, {"Used"})' <=> HasAny(s, {"Used"})
        /\ HasAny(s, {"Bound"} \cup Declarations)' <=> HasAny(s, {"Bound"} \cup Declarations)
    BY DEF Declarations, HasAny
  <2>. QED
    BY <1>1, <2>1 DEF Unresolved, FunctionLike
<1>4. ASSUME NEW s \in Scopes PROVE Captured(s)' = Captured(s)
  <2>1. parent'[s] = parent[s] /\ parent[s] \in {0} \cup Scopes
    BY Tree
  <2>2. Captured(s) = Capturable[parent[s]]
    BY Lookups DEF Captured
  <2>3. Captured(s)' = Capturable'[parent'[s]]
    BY DEF Captured, LookupCapturable, Capturable
  <2>4. Capturable'[parent[s]] = Capturable[parent[s]]
    BY <1>2, <2>1
  <2>5. Capturable'[parent'[s]] = Capturable'[parent[s]]
    BY <2>1
  <2>. QED
    BY <2>2, <2>3, <2>4, <2>5
<1>. QED
  BY <1>3, <1>4

-----------------------------------------------------------------------------

\* resolve sets the marks by the lookups, and leaves these as they are.
LEMMA ResolveInv ==
    ASSUME TableInv, Resolve, CapturableFollows, TypeOK' => CapturableFollows'
    PROVE  TableInv'
<1>1. /\ ~built /\ built' = TRUE
      /\ UNCHANGED <<kind, parent, cur, header, conflicts, exempt, events, reads>>
      /\ flags' = [s \in Scopes |->
             flags[s] \cup {f \in {"Free"} : s \in Unresolved /\ Captured(s) # 0}
                      \cup {f \in {"Cell"} : \E t \in Unresolved : Captured(t) = s}]
  BY DEF Resolve, treeVars
<1>2. /\ Scopes' = Scopes /\ Len(kind) \in Nat /\ Scopes = 1 .. Len(kind)
      /\ flags \in Seq(SUBSET Flags) /\ DOMAIN flags = Scopes
  BY <1>1, Tree DEF TableInv, TypeOK, Scopes
<1>3. \A s \in Scopes : /\ flags[s] \in SUBSET (Flags \ {"Free", "Cell"})
                        /\ flags'[s] \in SUBSET Flags
                        /\ flags'[s] \ {"Free", "Cell"} = flags[s]
                        /\ "Free" \in flags'[s] <=> s \in Unresolved /\ Captured(s) # 0
                        /\ "Cell" \in flags'[s] <=> \E t \in Unresolved : Captured(t) = s
  <2> SUFFICES ASSUME NEW s \in Scopes
               PROVE  /\ flags[s] \in SUBSET (Flags \ {"Free", "Cell"})
                      /\ flags'[s] \in SUBSET Flags
                      /\ flags'[s] \ {"Free", "Cell"} = flags[s]
                      /\ "Free" \in flags'[s] <=> s \in Unresolved /\ Captured(s) # 0
                      /\ "Cell" \in flags'[s] <=> \E t \in Unresolved : Captured(t) = s
    OBVIOUS
  <2> DEFINE free == s \in Unresolved /\ Captured(s) # 0
             cell == \E t \in Unresolved : Captured(t) = s
  <2>1. flags'[s] = flags[s] \cup {f \in {"Free"} : free} \cup {f \in {"Cell"} : cell}
    BY <1>1
  <2>2. flags[s] \in SUBSET Flags /\ flags[s] \cap {"Free", "Cell"} = {}
    BY <1>1, <1>2 DEF TableInv, NoMarks
  <2> HIDE DEF free, cell
  <2>3. /\ flags[s] \in SUBSET (Flags \ {"Free", "Cell"})
        /\ flags'[s] \in SUBSET Flags
        /\ flags'[s] \ {"Free", "Cell"} = flags[s]
        /\ "Free" \in flags'[s] <=> free
        /\ "Cell" \in flags'[s] <=> cell
    BY <2>1, <2>2 DEF Flags
  <2>. QED
    BY <2>3 DEF free, cell
<1>4. TypeOK'
  <2>1. flags' \in Seq(SUBSET Flags) /\ DOMAIN flags' = Scopes
    <3>1. DOMAIN flags' = Scopes /\ flags' = [s \in Scopes |-> flags'[s]]
      BY <1>1
    <3>2. flags' \in [1 .. Len(kind) -> SUBSET Flags]
      BY <1>2, <1>3, <3>1
    <3>. QED
      BY <1>2, <3>1, <3>2
  <2>2. conflicts' \subseteq {s \in Scopes' : {"Global", "Nonlocal"} \subseteq flags'[s]}
    BY <1>1, <1>2, <1>3 DEF TableInv, TypeOK
  <2>. QED
    BY <1>1, <1>2, <2>1, <2>2 DEF TableInv, TypeOK
<1>5. NoMarks'
  BY <1>1 DEF NoMarks
<1>6. ModuleReads'
  <2>1. 1 \in Scopes
    BY Tree DEF TableInv
  <2>2. "Used" \in flags'[1] => "Used" \in flags[1]
    BY <1>3, <2>1
  <2>. QED
    BY <1>1, <2>2 DEF TableInv, ModuleReads, HasAny
<1>7. MarksOK'
  <2>1. \A s \in Scopes : \A some : some \cap {"Free", "Cell"} = {} =>
            (HasAny(s, some)' <=> HasAny(s, some))
    BY <1>3 DEF HasAny
  <2>2. \A s \in Scopes : /\ s \in Unresolved' <=> s \in Unresolved
                          /\ Captured(s)' = Captured(s)
    BY <1>1, <1>4, <2>1, LookupsKept DEF TableInv
  <2>3. Unresolved \subseteq Scopes /\ Unresolved' \subseteq Scopes
    BY <1>2 DEF Unresolved
  <2>4. \A s \in Scopes : /\ "Free" \in flags'[s] <=> s \in Unresolved' /\ Captured(s)' # 0
                          /\ "Cell" \in flags'[s] <=> \E t \in Unresolved' : Captured(t)' = s
    BY <1>3, <2>2, <2>3
  <2>. QED
    BY <1>2, <2>4 DEF MarksOK
<1>. QED
  BY <1>4, <1>5, <1>6, <1>7 DEF TableInv

\* Every construct keeps the table as the invariant says, and so does resolve.
LEMMA NextTableInv ==
    ASSUME TableInv, CapturableFollows, TypeOK' => CapturableFollows', [Next]_vars
    PROVE  TableInv'
<1>1. /\ cur \in Scopes /\ header \in BOOLEAN /\ exempt \in BOOLEAN /\ reads \subseteq Scopes
      /\ conflicts \subseteq {s \in Scopes : {"Global", "Nonlocal"} \subseteq flags[s]}
      /\ 1 \in Scopes /\ kind[1] = "module"
  BY Tree DEF TableInv, TypeOK
<1>2. ASSUME NEW inHeader \in BOOLEAN, Occurs(inHeader), NEW s, NEW new,
             new \in SUBSET (Flags \ {"Free", "Cell"}),
             flags' = Flagged(flags, s, new), UNCHANGED <<treeVars, built>>,
             reads' \in SUBSET Scopes, reads \subseteq reads',
             s = 1 /\ "Used" \in new => 1 \in reads',
             UNCHANGED conflicts, exempt' \in BOOLEAN
      PROVE  TableInv'
  <2>1. Adds(s, new)
    BY <1>2 DEF Adds, Occurs
  <2>2. HasAdded(flags', flags, s, new) /\ DOMAIN flags = Scopes
    <3>1. flags \in Seq(SUBSET Flags) /\ new \in SUBSET Flags /\ DOMAIN flags = Scopes
      BY <1>2 DEF TableInv, TypeOK
    <3>. QED
      BY <1>2, <3>1, FlaggedTable
  <2>3. conflicts' \subseteq {t \in Scopes : {"Global", "Nonlocal"} \subseteq flags'[t]}
    BY <1>1, <1>2, <2>2 DEF HasAdded
  <2>. QED
    BY <1>2, <2>1, <2>3, AddsInv
<1>3. CASE Read
  BY <1>1, <1>2, <1>3 DEF Read, Flags, treeVars
<1>4. CASE Bind
  BY <1>1, <1>2, <1>4 DEF Bind, BindFlags, Flags
<1>5. ASSUME NEW future \in BOOLEAN, Import(future)
      PROVE  TableInv'
  <2>1. exempt' \in BOOLEAN
    BY <1>1, <1>5 DEF Import
  <2>. QED
    BY <1>1, <1>2, <1>5, <2>1 DEF Import, BindFlags, Flags
<1>6. CASE AugAssign
  BY <1>1, <1>2, <1>6 DEF AugAssign, BindFlags, Flags
<1>7. CASE NamedExpr
  BY <1>1, <1>2, <1>7 DEF NamedExpr, BindFlags, Flags
<1>8. ASSUME NEW flag \in Declarations, Declare(flag)
      PROVE  TableInv'
  <2>1. /\ Adds(cur, {flag}) /\ UNCHANGED reads
        /\ conflicts' = conflicts \cup {s \in {cur} : Clashes(flag, flags[s])}
    BY <1>1, <1>8 DEF Declare, Occurs, Adds, treeVars
  <2>2. HasAdded(flags', flags, cur, {flag}) /\ DOMAIN flags = Scopes
    <3>1. flags \in Seq(SUBSET Flags) /\ {flag} \in SUBSET Flags /\ DOMAIN flags = Scopes
      BY DEF TableInv, TypeOK, Flags, Declarations
    <3>. QED
      BY <2>1, <3>1, FlaggedTable DEF Adds
  <2>3. conflicts' \subseteq {t \in Scopes : {"Global", "Nonlocal"} \subseteq flags'[t]}
    BY <1>1, <2>1, <2>2 DEF HasAdded, Clashes
  <2>4. {flag} \in SUBSET (Flags \ {"Free", "Cell"}) /\ "Used" \notin {flag}
    BY DEF Flags, Declarations
  <2>. QED
    BY <1>1, <2>1, <2>3, <2>4, AddsInv
<1>9. ASSUME NEW named \in BOOLEAN, FunctionDef(named)
      PROVE  TableInv'
  BY <1>9, EnterInv DEF FunctionDef, BindFlags, Kinds
<1>10. ASSUME NEW named \in BOOLEAN, ClassDef(named)
       PROVE  TableInv'
  BY <1>10, EnterInv DEF ClassDef, BindFlags, Kinds
<1>11. ASSUME NEW named \in BOOLEAN, Comprehension(named)
       PROVE  TableInv'
  BY <1>11, EnterInv DEF Comprehension, BindFlags, Kinds
<1>12. CASE Lambda
  BY <1>12, EnterInv DEF Lambda, Kinds
<1>13. CASE Param
  BY <1>1, <1>2, <1>13 DEF Param, BindFlags, Flags
<1>14. CASE ParamAnnotation
  <2>1. parent[cur] \in Scopes /\ cur # 1
    BY <1>1, <1>14, Tree DEF ParamAnnotation, TableInv
  <2>. QED
    BY <1>1, <1>2, <1>14, <2>1 DEF ParamAnnotation, Flags
<1>15. CASE LambdaDefault
  <2>1. parent[cur] \in Scopes
    BY <1>1, <1>15, Tree DEF LambdaDefault, TableInv
  <2>2. /\ flags' = flags /\ kind' = kind /\ parent' = parent /\ cur' = cur
        /\ conflicts' = conflicts /\ exempt' = exempt /\ built' = built /\ ~built
        /\ header' \in BOOLEAN
        /\ reads' = reads \cup {parent[cur]} /\ events < MaxEvents /\ events' = events + 1
    BY <1>15 DEF LambdaDefault, Occurs, treeVars
  <2>3. TypeOK'
    BY <1>1, <2>1, <2>2, SymbolsAssumption DEF TableInv, TypeOK, Scopes
  <2>. QED
    BY <2>2, <2>3 DEF TableInv, NoMarks, ModuleReads, MarksOK, HasAny, Scopes
<1>16. CASE Pop
  <2>1. parent[cur] \in Scopes
    BY <1>1, <1>16, Tree DEF Pop, TableInv
  <2>2. TypeOK'
    BY <1>16, <2>1 DEF Pop, TableInv, TypeOK, Scopes
  <2>. QED
    BY <1>16, <2>2 DEF Pop, TableInv, NoMarks, ModuleReads, MarksOK, HasAny, Scopes
<1>17. CASE Resolve
  BY <1>17, ResolveInv
<1>18. CASE UNCHANGED vars
  <2>1. TypeOK' /\ NoMarks' /\ ModuleReads'
    BY <1>18 DEF TableInv, TypeOK, NoMarks, ModuleReads, HasAny, Scopes, vars, treeVars
  <2>2. MarksOK'
    <3>1. /\ kind' = kind /\ parent' = parent /\ flags' = flags /\ built' = built
          /\ Scopes' = Scopes
      BY <1>18 DEF vars, treeVars, Scopes
    <3>2. \A s \in Scopes : \A some : HasAny(s, some)' <=> HasAny(s, some)
      BY <3>1 DEF HasAny
    <3>3. \A s \in Scopes : /\ s \in Unresolved' <=> s \in Unresolved
                            /\ Captured(s)' = Captured(s)
      BY <2>1, <3>1, <3>2, LookupsKept DEF TableInv
    <3>4. Unresolved \subseteq Scopes /\ Unresolved' \subseteq Scopes
      BY <3>1 DEF Unresolved
    <3>5. built => \A s \in Scopes :
              /\ "Free" \in flags[s] <=> s \in Unresolved' /\ Captured(s)' # 0
              /\ "Cell" \in flags[s] <=> \E t \in Unresolved' : Captured(t)' = s
      BY <3>3, <3>4 DEF TableInv, MarksOK
    <3>. QED
      BY <3>1, <3>5 DEF MarksOK
  <2>. QED
    BY <2>1, <2>2 DEF TableInv
<1>. QED
  BY <1>3, <1>4, <1>5, <1>6, <1>7, <1>8, <1>9, <1>10, <1>11, <1>12, <1>13, <1>14, <1>15,
     <1>16, <1>17, <1>18 DEF Next

\* The table of an empty module.
LEMMA InitTableInv == ASSUME Init PROVE TableInv
<1>1. TypeOK
  <2>1. /\ kind \in Seq(Kinds) /\ parent \in Seq(Nat) /\ flags \in Seq(SUBSET Flags)
        /\ Len(kind) = 1 /\ Len(parent) = 1 /\ Len(flags) = 1 /\ Scopes = {1}
        /\ kind[1] = "module" /\ parent[1] = 0 /\ flags[1] = {}
    BY DEF Init, Scopes, Kinds
  <2>2. DOMAIN parent = {1} /\ DOMAIN flags = {1} /\ kind # <<>>
    BY <2>1
  <2>3. cur = 1 /\ header = FALSE /\ conflicts = {} /\ exempt = FALSE
        /\ events = 0 /\ built = FALSE /\ reads = {}
    BY DEF Init
  <2>4. Len(kind) <= MaxScopes /\ events \in 0 .. MaxEvents
    BY <2>1, <2>3, SymbolsAssumption
  <2>5. /\ \A s \in Scopes : (kind[s] = "module") <=> s = 1
        /\ \A s \in Scopes : parent[s] < s /\ (parent[s] = 0 => s = 1)
    BY <2>1
  <2>6. kind \in Seq(Kinds) /\ parent \in Seq(Nat) /\ flags \in Seq(SUBSET Flags)
        /\ DOMAIN parent = Scopes /\ DOMAIN flags = Scopes /\ cur \in Scopes
        /\ header \in BOOLEAN /\ exempt \in BOOLEAN /\ built \in BOOLEAN /\ reads \subseteq Scopes
    BY <2>1, <2>2, <2>3
  <2>7. conflicts \subseteq {s \in Scopes : {"Global", "Nonlocal"} \subseteq flags[s]}
    BY <2>3
  <2>. QED
    BY <2>2, <2>4, <2>5, <2>6, <2>7 DEF TypeOK
<1>. QED
  BY <1>1 DEF Init, TableInv, NoMarks, ModuleReads, MarksOK, HasAny, Scopes

\* The invariant of the builder.
LEMMA TableInvariant == Spec => []TableInv
<1>1. Init => TableInv
  BY InitTableInv
<1>2. /\ TableInv /\ CapturableFollows /\ (TypeOK' => CapturableFollows')
      /\ [Next]_vars
      => TableInv'
  BY NextTableInv
<1>3. TypeOK => CapturableFollows
  BY CapturableAlways
<1>4. TableInv => TypeOK
  BY DEF TableInv
<1>. QED
  BY <1>1, <1>2, <1>3, <1>4, PTL DEF Spec

-----------------------------------------------------------------------------

(***************************************************************************)
(* The scopes are a tree with the module at its root, in which every scope *)
(* comes after the one around it, and the builder is in one of them; S001  *)
(* is reported only where both declarations stand.                         *)
(***************************************************************************)
THEOREM TypeCorrect == Spec => []TypeOK
BY TableInvariant, PTL DEF TableInv

(***************************************************************************)
(* In programs of every shape and size without declarations the table has  *)
(* the classification of CPython, but for the two things that resolve      *)
(* leaves out: a name is free in exactly those functions, lambdas and      *)
(* comprehensions where it is free in CPython and that read it themselves, *)
(* and a cell in exactly those scopes where CPython makes it one for more  *)
(* than the sake of class bodies.                                          *)
(***************************************************************************)
THEOREM TableMirrorsButRelays == Spec => []MirrorsButRelays
<1>1. TableInv => MirrorsButRelays
  BY MarksMirror DEF TableInv
<1>. QED
  BY <1>1, TableInvariant, PTL

\* F821 reports the reads of a name that nothing binds, and no others.
THEOREM UndefinedIsAlwaysUnbound == Spec => []UndefinedIsUnbound
<1>1. TableInv => UndefinedIsUnbound
  BY UndefinedFound DEF TableInv
<1>. QED
  BY <1>1, TableInvariant, PTL

(***************************************************************************)
(* F401 misses no import of the module that is not read, with declarations *)
(* or without, but those of a name that the module imports from            *)
(* __future__, which it never reports.                                     *)
(***************************************************************************)
THEOREM UnreadImportsAreReported == Spec => []UnreadImportIsReported
<1>1. TableInv => UnreadImportIsReported
  BY ModuleReadsSuffice DEF TableInv
<1>. QED
  BY <1>1, TableInvariant, PTL
=============================================================================
