--------------------------- MODULE LspServer_proofs ---------------------------
(***************************************************************************)
(* Theorems about LspServer for every number of documents, directories,    *)
(* texts, configurations and messages.                                     *)
(***************************************************************************)
EXTENDS LspServer, TLAPS

-----------------------------------------------------------------------------
(* What is in the pipes.                                                   *)

\* A message that is about a document names one, and only requests have an id.
MessageOK(m) ==
    /\ m.method \in {"didOpen", "didChange", "didClose", "codeAction"} => m.uri \in Uris
    /\ m.method = "didOpen" => m.texts # <<>> /\ m.texts[1] = Last(m.texts)
    /\ m.id # 0 <=> m.method \in Requests

EditorMessages ==
    [method : Requests \cup Notifications, id : 0 .. MaxSent, uri : Uris \cup {Nothing},
     texts : Seq(Texts), quickFix : BOOLEAN]

Results ==
    {"capabilities", "null", "method not found", "invalid request", <<>>}
        \cup ({"fix all"} \X Texts \X Configs)
ServerMessages ==
    [kind : {"diagnostics"}, uri : Uris, diags : Shown]
        \cup [kind : {"response"}, id : 1 .. MaxSent, result : Results]

PipesOK ==
    /\ c2s \in Seq(EditorMessages) /\ s2c \in Seq(ServerMessages)
    /\ \A k \in DOMAIN c2s : MessageOK(c2s[k])

\* Ids grow, so a request is known by its id, in the pipes and to the editor.
IdsOK ==
    /\ \A r \in pending : r.id <= sent /\ (r.method = "codeAction" => r.uri \in Uris)
    /\ \A r, q \in pending : r.id = q.id => r = q
    /\ \A k \in DOMAIN c2s : c2s[k].id <= sent
    /\ \A k \in Answers : s2c[k].id <= sent
    /\ \A k \in Unread, r \in pending :
           r.id = c2s[k].id =>
               r.method = c2s[k].method /\ r.uri = c2s[k].uri /\ r.quickFix = c2s[k].quickFix

-----------------------------------------------------------------------------
(* The buffers, as the server comes to see them.                           *)

\* The messages on the way that change what the server has of u, and to what.
IsEdit(m, u) ==
    /\ m.uri = u
    /\ \/ m.method \in {"didOpen", "didClose"}
       \/ m.method = "didChange" /\ m.texts # <<>>
Edits(u) == {k \in DOMAIN c2s : IsEdit(c2s[k], u)}
Leaves(m) == IF m.method = "didClose" THEN Closed ELSE Last(m.texts)

\* When the server comes to message k, this will be its text of u.
WillBe(k, u, text) ==
    \/ docs[u] = text /\ \A j \in Edits(u) : k <= j
    \/ \E j \in Edits(u) : /\ j < k /\ Leaves(c2s[j]) = text
                           /\ \A i \in Edits(u) : i < k => i <= j

\* The server will have the buffer when it has read all, and at a request for actions it
\* will have the buffer that the editor asked about.
TextsFollow ==
    srv = "running" /\ ~shuttingDown =>
        /\ \A u \in Uris : WillBe(Len(c2s) + 1, u, buffer[u])
        /\ \A k \in Unread, r \in pending :
               r.id = c2s[k].id /\ r.method = "codeAction" => WillBe(k, r.uri, r.text)

-----------------------------------------------------------------------------
(* What the server has said.                                               *)

\* The configuration of a directory is known for good once one of its files was linted.
Known(u) == DirOf[u] # Nothing => cfgCache[DirOf[u]] # Nothing
ConfigsKnown ==
    /\ \A u \in Uris : docs[u] # Closed => Known(u)
    /\ hangUp = "no" =>
           \A k \in Answers, r \in pending :
               /\ r.id = s2c[k].id
               /\ r.method = "codeAction" /\ s2c[k].result # "invalid request"
               /\ r.quickFix /\ r.text # Closed
               => Known(r.uri)

\* The diagnostics of u that the editor will show when it has read all.
WillShow(u, diags) ==
    \/ About(u) = {} /\ shown[u] = diags
    \/ \E k \in About(u) : s2c[k].diags = diags /\ \A j \in About(u) : j <= k
PublishedLast ==
    hangUp = "no" =>
        \A u \in Uris :
            WillShow(u, IF docs[u] = Closed THEN <<>> ELSE Lint(docs[u], ConfigSeen(u)))

IInv ==
    /\ TypeOK
    /\ PipesOK /\ IdsOK
    /\ TextsFollow
    /\ ConfigsKnown /\ PublishedLast
    /\ AnsweredInOrder /\ OffersFitRequest
    /\ NilOnlyIfAgreed

-----------------------------------------------------------------------------
(* Sequences.                                                              *)

\* What is left of a pipe when its first message was taken.
LEMMA TailFacts ==
    ASSUME NEW S, NEW s \in Seq(S), s # <<>>, NEW t, t = Tail(s)
    PROVE  /\ t \in Seq(S) /\ Len(s) \in Nat \ {0} /\ Len(t) = Len(s) - 1
           /\ DOMAIN s = 1 .. Len(s) /\ DOMAIN t = 1 .. Len(t)
           /\ Head(s) = s[1] /\ s[1] \in S
           /\ \A k \in 1 .. Len(t) : k + 1 \in 1 .. Len(s) /\ t[k] = s[k + 1]
           /\ \A k \in 1 .. Len(s) : k # 1 => k - 1 \in 1 .. Len(t) /\ t[k - 1] = s[k]
<1>1. /\ t \in Seq(S) /\ Len(s) \in Nat \ {0} /\ Len(t) = Len(s) - 1
      /\ Head(s) = s[1] /\ s[1] \in S
  OBVIOUS
<1>2. DOMAIN s = 1 .. Len(s) /\ DOMAIN t = 1 .. Len(t)
  BY <1>1
<1>3. \A k \in 1 .. Len(t) : k + 1 \in 1 .. Len(s) /\ t[k] = s[k + 1]
  OBVIOUS
<1>4. \A k \in 1 .. Len(s) : k # 1 => k - 1 \in 1 .. Len(t) /\ t[k - 1] = s[k]
  BY <1>1, <1>3
<1>. QED
  BY <1>1, <1>2, <1>3, <1>4

\* A pipe with one more message.
LEMMA AppendFacts ==
    ASSUME NEW S, NEW s \in Seq(S), NEW e \in S, NEW t, t = Append(s, e)
    PROVE  /\ t \in Seq(S) /\ Len(s) \in Nat /\ Len(t) = Len(s) + 1
           /\ DOMAIN s = 1 .. Len(s) /\ DOMAIN t = 1 .. Len(t)
           /\ \A k \in 1 .. Len(s) : k \in 1 .. Len(t) /\ t[k] = s[k]
           /\ Len(s) + 1 \in 1 .. Len(t) /\ t[Len(s) + 1] = e
           /\ \A k \in 1 .. Len(t) : k \in 1 .. Len(s) \/ k = Len(s) + 1
<1>1. t \in Seq(S) /\ Len(s) \in Nat /\ Len(t) = Len(s) + 1
  OBVIOUS
<1>2. DOMAIN s = 1 .. Len(s) /\ DOMAIN t = 1 .. Len(t)
  BY <1>1
<1>3. \A k \in 1 .. Len(s) : k \in 1 .. Len(t) /\ t[k] = s[k]
  OBVIOUS
<1>4. /\ Len(s) + 1 \in 1 .. Len(t) /\ t[Len(s) + 1] = e
      /\ \A k \in 1 .. Len(t) : k \in 1 .. Len(s) \/ k = Len(s) + 1
  BY <1>1
<1>. QED
  BY <1>1, <1>2, <1>3, <1>4

\* The last element has the largest index.
LEMMA MaxIs ==
    ASSUME NEW S \in SUBSET Nat, NEW k \in S, \A j \in S : j <= k
    PROVE  Max(S) = k
<1>1. \E x \in S : \A y \in S : x >= y
  OBVIOUS
<1>2. Max(S) \in S /\ \A y \in S : Max(S) >= y
  BY <1>1 DEF Max
<1>3. \A x \in S : (\A y \in S : x >= y) => x = k
  OBVIOUS
<1>. QED
  BY <1>2, <1>3

-----------------------------------------------------------------------------
(* The steps of the server, by what they say and what they change.         *)

Tells(m) == s2c' = IF hangUp = "no" THEN Append(s2c, m) ELSE s2c

\* A version of a document is stored, linted and published.
Lints(m, text) ==
    /\ m.uri \in Uris /\ m.id = 0 /\ 1 \in Edits(m.uri)
    /\ text \in Texts /\ text = Leaves(m)
    /\ docs' = [docs EXCEPT ![m.uri] = text]
    /\ RememberConfig(m.uri)
    /\ Tells(Publish(m.uri, Lint(text, ConfigFor(m.uri))))

Drops(m) ==
    /\ m.uri \in Uris /\ m.id = 0 /\ 1 \in Edits(m.uri) /\ Leaves(m) = Closed
    /\ docs' = [docs EXCEPT ![m.uri] = Closed]
    /\ UNCHANGED cfgCache
    /\ Tells(Publish(m.uri, <<>>))

\* Nothing is said of the message, which is no request, or the server stops.
Passes(m) ==
    /\ m.id = 0 \/ srv' # "running"
    /\ srv' = "running" /\ ~shuttingDown' => \A u \in Uris : 1 \notin Edits(u)
    /\ UNCHANGED <<docs, cfgCache, s2c>>

\* A request is answered; of the answers to a codeAction, why it is this one.
Responds(m, result) ==
    /\ m.id # 0 /\ result \in Results /\ \A u \in Uris : 1 \notin Edits(u)
    /\ Tells(Answer(m.id, result))
    /\ UNCHANGED docs
    /\ \/ /\ m.method # "codeAction" \/ result = "invalid request"
          /\ UNCHANGED cfgCache
       \/ /\ m.method = "codeAction" /\ ~shuttingDown /\ m.uri \in Uris
          /\ IF m.quickFix /\ docs[m.uri] # Closed
             THEN RememberConfig(m.uri) /\ result = Offer(docs[m.uri], ConfigFor(m.uri))
             ELSE UNCHANGED cfgCache /\ result = <<>>

\* What every step that reads a message has in common.
ReadsOne ==
    /\ srv = "running" /\ c2s # <<>> /\ c2s' = Tail(c2s)
    /\ srv' \in {"running", "nil", "error"} /\ NilOnlyIfAgreed'
    /\ shuttingDown' \in BOOLEAN /\ (shuttingDown => shuttingDown')
    /\ UNCHANGED <<editorVars, project>>

ServerStep(m) ==
    /\ ReadsOne /\ m = c2s[1]
    /\ \/ \E text \in Texts : Lints(m, text)
       \/ Drops(m)
       \/ Passes(m)
       \/ \E result \in Results : Responds(m, result)

\* The message the server reads next, and which document it edits.
LEMMA HeadFacts ==
    ASSUME IInv, c2s # <<>>
    PROVE  /\ Head(c2s) = c2s[1] /\ c2s[1] \in EditorMessages /\ MessageOK(c2s[1])
           /\ \A u : 1 \in Edits(u) <=>
                  /\ c2s[1].uri = u
                  /\ \/ c2s[1].method \in {"didOpen", "didClose"}
                     \/ c2s[1].method = "didChange" /\ c2s[1].texts # <<>>
<1>1. c2s \in Seq(EditorMessages)
  BY DEF IInv, PipesOK
<1>2. Head(c2s) = c2s[1] /\ c2s[1] \in EditorMessages /\ 1 \in DOMAIN c2s
  BY <1>1
<1>. QED
  BY <1>2 DEF IInv, PipesOK, Edits, IsEdit

\* The configuration of a document that is linted is the one it has from then on.
LEMMA ConfigForFacts ==
    ASSUME TypeOK, NEW u \in Uris
    PROVE  /\ ConfigFor(u) \in Configs
           /\ RememberConfig(u) =>
                  /\ cfgCache' \in [Dirs -> Configs \cup {Nothing}]
                  /\ Known(u)' /\ ConfigSeen(u)' = ConfigFor(u)
                  /\ \A v \in Uris : Known(v) => Known(v)' /\ ConfigSeen(v)' = ConfigSeen(v)
<1>1. DirOf[u] = Nothing \/ DirOf[u] \in Dirs
  BY LspAssumption
<1>2. ConfigFor(u) \in Configs
  BY <1>1, LspAssumption DEF ConfigFor, TypeOK
<1>3. CASE DirOf[u] = Nothing
  BY <1>2, <1>3 DEF RememberConfig, Known, ConfigSeen, ConfigFor, TypeOK
<1>4. CASE DirOf[u] # Nothing
  <2>1. ASSUME RememberConfig(u)
        PROVE  /\ cfgCache' \in [Dirs -> Configs \cup {Nothing}]
               /\ cfgCache'[DirOf[u]] = ConfigFor(u)
               /\ \A d \in Dirs : cfgCache[d] # Nothing => cfgCache'[d] = cfgCache[d]
    BY <1>1, <1>2, <1>4, <2>1 DEF RememberConfig, ConfigFor, TypeOK
  <2>2. \A v \in Uris : DirOf[v] = Nothing \/ DirOf[v] \in Dirs
    BY LspAssumption
  <2>. QED
    BY <1>1, <1>2, <1>4, <2>1, <2>2, LspAssumption DEF Known, ConfigSeen
<1>. QED
  BY <1>3, <1>4

\* Every step of the server is one of these, or the end of file.
LEMMA ServerSteps ==
    ASSUME IInv, Server
    PROVE  \/ /\ UNCHANGED <<c2s, s2c, docs, cfgCache, shuttingDown, editorVars, project>>
              /\ srv' \in {"nil", "error"} /\ NilOnlyIfAgreed'
           \/ ServerStep(c2s[1])
<1> DEFINE m == c2s[1]
<1>. TypeOK /\ NilOnlyIfAgreed
  BY DEF IInv
<1>0. c2s # <<>> => Head(c2s) = m /\ m \in EditorMessages /\ MessageOK(m)
  BY HeadFacts
<1>1. CASE HandleDidOpen
  <2>1. c2s # <<>> /\ m.method = "didOpen" /\ Head(c2s) = m
    BY <1>0, <1>1 DEF HandleDidOpen, Handles, Reads
  <2>2. /\ m.id = 0 /\ m.uri \in Uris /\ 1 \in Edits(m.uri) /\ m.texts \in Seq(Texts)
        /\ m.texts # <<>> /\ m.texts[1] = Last(m.texts)
    BY <1>0, <2>1, HeadFacts DEF MessageOK, EditorMessages, Requests
  <2>3. Last(m.texts) \in Texts
    BY <2>2 DEF Last
  <2>4. Lints(m, Last(m.texts))
    BY <1>1, <2>1, <2>2, <2>3
       DEF HandleDidOpen, StoreAndLint, Write, Tells, Lints, Leaves
  <2>. QED
    BY <1>1, <2>1, <2>3, <2>4
       DEF HandleDidOpen, Handles, Reads, StoreAndLint, Write, ServerStep, ReadsOne,
           NilOnlyIfAgreed,
           TypeOK
<1>2. CASE HandleDidChange
  <2>1. c2s # <<>> /\ m.method = "didChange" /\ Head(c2s) = m
    BY <1>0, <1>2 DEF HandleDidChange, Handles, Reads
  <2>2. m.id = 0 /\ m.uri \in Uris /\ m.texts \in Seq(Texts)
    BY <1>0, <2>1 DEF MessageOK, EditorMessages, Requests
  <2>3. CASE m.texts = <<>>
    <3>1. Passes(m)
      BY <1>2, <2>1, <2>2, <2>3, HeadFacts DEF HandleDidChange, Passes
    <3>. QED
      BY <1>2, <2>1, <2>3, <3>1
         DEF HandleDidChange, Handles, Reads, ServerStep, ReadsOne, NilOnlyIfAgreed, TypeOK
  <2>4. CASE m.texts # <<>>
    <3>1. Last(m.texts) \in Texts /\ 1 \in Edits(m.uri)
      BY <2>1, <2>2, <2>4, HeadFacts DEF Last
    <3>2. Lints(m, Last(m.texts))
      BY <1>2, <2>1, <2>2, <2>4, <3>1
         DEF HandleDidChange, StoreAndLint, NewText, Write, Tells, Lints, Leaves
    <3>. QED
      BY <1>2, <2>1, <2>4, <3>1, <3>2
         DEF HandleDidChange, Handles, Reads, StoreAndLint, Write, ServerStep, ReadsOne,
             NilOnlyIfAgreed, TypeOK
  <2>. QED
    BY <2>3, <2>4
<1>3. CASE HandleDidClose
  <2>1. c2s # <<>> /\ m.method = "didClose" /\ Head(c2s) = m
    BY <1>0, <1>3 DEF HandleDidClose, Handles, Reads
  <2>2. m.id = 0 /\ m.uri \in Uris /\ 1 \in Edits(m.uri)
    BY <1>0, <2>1, HeadFacts DEF MessageOK, EditorMessages, Requests
  <2>3. Drops(m)
    BY <1>3, <2>1, <2>2 DEF HandleDidClose, Dropped, Write, Tells, Drops, Leaves
  <2>. QED
    BY <1>3, <2>1, <2>3
       DEF HandleDidClose, Handles, Reads, Write, ServerStep, ReadsOne, NilOnlyIfAgreed, TypeOK
<1>4. CASE HandleCodeAction
  <2>1. c2s # <<>> /\ m.method = "codeAction" /\ Head(c2s) = m
    BY <1>0, <1>4 DEF HandleCodeAction, Handles, Reads
  <2>2. /\ m.id # 0 /\ m.uri \in Uris /\ m.quickFix \in BOOLEAN
        /\ \A u \in Uris : 1 \notin Edits(u)
    BY <1>0, <2>1, HeadFacts DEF MessageOK, EditorMessages, Requests
  <2> DEFINE serves == m.quickFix /\ docs[m.uri] # Closed
             result == IF serves THEN Offer(docs[m.uri], ConfigFor(m.uri)) ELSE <<>>
  <2>3. result \in Results
    <3>1. serves => docs[m.uri] \in Texts /\ ConfigFor(m.uri) \in Configs
      BY <2>2, ConfigForFacts DEF TypeOK
    <3>. QED
      BY <3>1 DEF Offer, Results
  <2>4. Responds(m, result)
    BY <1>4, <2>1, <2>2, <2>3
       DEF HandleCodeAction, Handles, Write, Tells, Responds
  <2>. QED
    BY <1>4, <2>1, <2>3, <2>4
       DEF HandleCodeAction, Handles, Reads, Write, ServerStep, ReadsOne, NilOnlyIfAgreed, TypeOK
<1>5. CASE HandleInitialize \/ HandleShutdown
  <2>1. /\ c2s # <<>> /\ m.method \in {"initialize", "shutdown"} /\ Head(c2s) = m
        /\ m.id # 0 /\ \A u \in Uris : 1 \notin Edits(u)
    BY <1>0, <1>5, HeadFacts
       DEF HandleInitialize, HandleShutdown, Handles, Reads, MessageOK, Requests
  <2>2. \E result \in Results : Responds(m, result)
    BY <1>5, <2>1 DEF HandleInitialize, HandleShutdown, Write, Tells, Responds, Results
  <2>. QED
    BY <1>5, <2>1, <2>2
       DEF HandleInitialize, HandleShutdown, Handles, Reads, Write, ServerStep, ReadsOne,
           NilOnlyIfAgreed, TypeOK
<1>6. CASE HandleUnknown
  <2>1. /\ c2s # <<>> /\ m.method = "unknown" /\ Head(c2s) = m
        /\ m.id # 0 /\ \A u \in Uris : 1 \notin Edits(u)
    BY <1>0, <1>6, HeadFacts DEF HandleUnknown, Handles, Reads, MessageOK, Requests
  <2>2. \E result \in Results : Responds(m, result)
    BY <1>6, <2>1 DEF HandleUnknown, RespondError, Tells, Responds, Results
  <2>. QED
    BY <1>6, <2>1, <2>2
       DEF HandleUnknown, Handles, Reads, RespondError, ServerStep, ReadsOne, NilOnlyIfAgreed,
           TypeOK
<1>7. CASE IgnoreNotification
  <2>1. /\ c2s # <<>> /\ m.method = "ignored" /\ Head(c2s) = m
        /\ m.id = 0 /\ \A u \in Uris : 1 \notin Edits(u)
    BY <1>0, <1>7, HeadFacts DEF IgnoreNotification, Handles, Reads, MessageOK, Requests
  <2>2. Passes(m)
    BY <1>7, <2>1 DEF IgnoreNotification, serverVars, Passes
  <2>. QED
    BY <1>7, <2>1, <2>2
       DEF IgnoreNotification, Handles, Reads, serverVars, ServerStep, ReadsOne, NilOnlyIfAgreed,
           TypeOK
<1>8. CASE RefuseLate
  <2>1. /\ c2s # <<>> /\ Head(c2s) = m /\ shuttingDown' /\ m.method # "exit"
        /\ UNCHANGED <<docs, cfgCache>>
    BY <1>0, <1>8 DEF RefuseLate, Reads
  <2>2. ReadsOne
    BY <1>8, <2>1 DEF RefuseLate, Reads, Refuse, RespondError, ReadsOne, NilOnlyIfAgreed, TypeOK
  <2>3. CASE m.id # 0
    <3>1. \A u \in Uris : 1 \notin Edits(u)
      BY <1>0, <2>1, <2>3, HeadFacts DEF MessageOK, Requests
    <3>2. "invalid request" \in Results /\ Tells(Answer(m.id, "invalid request"))
      BY <1>8, <2>1, <2>3 DEF RefuseLate, Refuse, RespondError, Results, Tells
    <3>. QED
      BY <2>1, <2>2, <2>3, <3>1, <3>2 DEF Responds, ServerStep
  <2>4. CASE m.id = 0
    BY <1>8, <2>1, <2>2, <2>4 DEF RefuseLate, Refuse, Passes, ServerStep
  <2>. QED
    BY <2>3, <2>4
<1>9. CASE Exit \/ FailMalformed
  <2>1. /\ c2s # <<>> /\ Head(c2s) = m /\ srv' \in {"nil", "error"}
        /\ srv' = "nil" => shuttingDown
        /\ c2s' = Tail(c2s)
        /\ UNCHANGED <<s2c, docs, cfgCache, shuttingDown, editorVars, project>>
    BY <1>0, <1>9 DEF Exit, FailMalformed, Reads, ExitOutcome
  <2>2. Passes(m)
    BY <2>1 DEF Passes
  <2>3. ReadsOne
    BY <1>9, <2>1 DEF ReadsOne, NilOnlyIfAgreed, TypeOK, Exit, FailMalformed, Reads
  <2>. QED
    BY <2>2, <2>3 DEF ServerStep
<1>10. CASE ReadEOF
  BY <1>10 DEF ReadEOF, EOFOutcome, NilOnlyIfAgreed, editorVars, TypeOK
<1>. QED
  BY <1>1, <1>2, <1>3, <1>4, <1>5, <1>6, <1>7, <1>8, <1>9, <1>10 DEF Server

-----------------------------------------------------------------------------
(* What one message more or less in a pipe does to what the pipe says.     *)

\* The pipe to the server when one message was read.
LEMMA ReadOne ==
    ASSUME IInv, ReadsOne
    PROVE  /\ c2s' \in Seq(EditorMessages) /\ Len(c2s) \in Nat \ {0} /\ Len(c2s') = Len(c2s) - 1
           /\ DOMAIN c2s = 1 .. Len(c2s) /\ DOMAIN c2s' = 1 .. Len(c2s')
           /\ c2s[1] \in EditorMessages /\ MessageOK(c2s[1])
           /\ \A k \in DOMAIN c2s' : k \in Nat /\ k + 1 \in DOMAIN c2s /\ c2s'[k] = c2s[k + 1]
           /\ \A k \in DOMAIN c2s : k # 1 => k - 1 \in DOMAIN c2s' /\ c2s'[k - 1] = c2s[k]
           /\ \A k \in Unread' : k \in Nat /\ k + 1 \in Unread /\ c2s'[k] = c2s[k + 1]
           /\ \A k \in Unread : k # 1 => k - 1 \in Unread' /\ c2s'[k - 1] = c2s[k]
           /\ 1 \in Unread <=> c2s[1].id # 0
<1>1. c2s \in Seq(EditorMessages) /\ c2s # <<>> /\ c2s' = Tail(c2s)
  BY DEF IInv, PipesOK, ReadsOne
<1>2. /\ c2s' \in Seq(EditorMessages) /\ Len(c2s) \in Nat \ {0} /\ Len(c2s') = Len(c2s) - 1
      /\ DOMAIN c2s = 1 .. Len(c2s) /\ DOMAIN c2s' = 1 .. Len(c2s')
      /\ c2s[1] \in EditorMessages
      /\ \A k \in 1 .. Len(c2s') : k + 1 \in 1 .. Len(c2s) /\ c2s'[k] = c2s[k + 1]
      /\ \A k \in 1 .. Len(c2s) : k # 1 => k - 1 \in 1 .. Len(c2s') /\ c2s'[k - 1] = c2s[k]
  BY <1>1, TailFacts
<1>3. MessageOK(c2s[1]) /\ 1 \in DOMAIN c2s
  BY <1>2 DEF IInv, PipesOK
<1>. QED
  BY <1>2, <1>3 DEF Unread

\* Ids can be compared.
LEMMA IdsAreNumbers ==
    ASSUME PipesOK
    PROVE  /\ \A k \in DOMAIN c2s : c2s[k].id \in Nat
           /\ \A k \in Answers : s2c[k].id \in Nat
<1>1. /\ \A k \in DOMAIN c2s : c2s[k] \in EditorMessages
      /\ \A k \in DOMAIN s2c : s2c[k] \in ServerMessages
  BY DEF PipesOK
<1>2. \A m \in EditorMessages : m.id \in Nat
  BY LspAssumption DEF EditorMessages
<1>3. \A m \in ServerMessages : m.kind = "response" => m.id \in Nat
  BY LspAssumption DEF ServerMessages
<1>. QED
  BY <1>1, <1>2, <1>3 DEF Answers

\* The id of a request is one that can be answered.
LEMMA IdsOfRequests ==
    ASSUME IInv, ReadsOne, c2s[1].id # 0 PROVE c2s[1].id \in 1 .. MaxSent
<1>1. c2s[1] \in EditorMessages
  BY ReadOne
<1>2. c2s[1].id \in 0 .. MaxSent
  BY <1>1 DEF EditorMessages
<1>. QED
  BY <1>2, LspAssumption

\* Diagnostics are sent: the editor will show them, and all else as before.
LEMMA PublishOne ==
    ASSUME IInv, NEW u \in Uris, NEW d \in Shown, s2c' = Append(s2c, Publish(u, d)), shown' = shown
    PROVE  /\ s2c' \in Seq(ServerMessages)
           /\ Answers' = Answers /\ \A k \in Answers : s2c'[k] = s2c[k]
           /\ WillShow(u, d)'
           /\ \A v, e : v # u /\ WillShow(v, e) => WillShow(v, e)'
<1> DEFINE n == Len(s2c) + 1
<1>1. s2c \in Seq(ServerMessages) /\ Publish(u, d) \in ServerMessages
  BY DEF IInv, PipesOK, Publish, ServerMessages
<1>2. /\ s2c' \in Seq(ServerMessages) /\ Len(s2c) \in Nat
      /\ DOMAIN s2c = 1 .. Len(s2c) /\ DOMAIN s2c' = 1 .. Len(s2c')
      /\ \A k \in 1 .. Len(s2c) : k \in 1 .. Len(s2c') /\ s2c'[k] = s2c[k]
      /\ n \in 1 .. Len(s2c') /\ s2c'[n] = Publish(u, d)
      /\ \A k \in 1 .. Len(s2c') : k \in 1 .. Len(s2c) \/ k = n
  BY <1>1, AppendFacts
<1>3. Answers' = Answers /\ \A k \in Answers : s2c'[k] = s2c[k]
  BY <1>2 DEF Answers, Publish
<1>4. n \in About(u)' /\ \A k \in About(u)' : k <= n
  BY <1>2 DEF About, Publish
<1>5. ASSUME NEW v, v # u
      PROVE  About(v)' = About(v) /\ \A k \in About(v) : s2c'[k] = s2c[k]
  BY <1>2, <1>5 DEF About, Publish
<1>6. WillShow(u, d)'
  BY <1>2, <1>4 DEF WillShow, Publish
<1>7. ASSUME NEW v, NEW e, v # u, WillShow(v, e) PROVE WillShow(v, e)'
  <2>1. About(v)' = About(v) /\ \A k \in About(v) : s2c'[k] = s2c[k]
    BY <1>5, <1>7
  <2>2. CASE About(v) = {} /\ shown[v] = e
    BY <2>1, <2>2 DEF WillShow
  <2>3. ASSUME NEW k \in About(v), s2c[k].diags = e, \A j \in About(v) : j <= k
        PROVE  WillShow(v, e)'
    BY <2>1, <2>3 DEF WillShow
  <2>. QED
    BY <1>7, <2>2, <2>3 DEF WillShow
<1>. QED
  BY <1>2, <1>3, <1>6, <1>7

\* An answer is sent: it is the last, and the editor will show what it would have.
LEMMA AnswerOne ==
    ASSUME IInv, NEW id \in 1 .. MaxSent, NEW result \in Results,
           s2c' = Append(s2c, Answer(id, result)), shown' = shown
    PROVE  /\ s2c' \in Seq(ServerMessages)
           /\ Len(s2c) + 1 \in Answers' /\ s2c'[Len(s2c) + 1] = Answer(id, result)
           /\ \A k \in Answers : k \in Answers' /\ s2c'[k] = s2c[k] /\ k \in Nat /\ k < Len(s2c) + 1
           /\ \A k \in Answers' : k \in Answers \/ k = Len(s2c) + 1
           /\ \A v, e : WillShow(v, e) => WillShow(v, e)'
<1> DEFINE n == Len(s2c) + 1
<1>1. s2c \in Seq(ServerMessages) /\ Answer(id, result) \in ServerMessages
  BY DEF IInv, PipesOK, Answer, ServerMessages
<1>2. /\ s2c' \in Seq(ServerMessages) /\ Len(s2c) \in Nat
      /\ DOMAIN s2c = 1 .. Len(s2c) /\ DOMAIN s2c' = 1 .. Len(s2c')
      /\ \A k \in 1 .. Len(s2c) : k \in 1 .. Len(s2c') /\ s2c'[k] = s2c[k]
      /\ n \in 1 .. Len(s2c') /\ s2c'[n] = Answer(id, result)
      /\ \A k \in 1 .. Len(s2c') : k \in 1 .. Len(s2c) \/ k = n
  BY <1>1, AppendFacts
<1>3. /\ n \in Answers'
      /\ \A k \in Answers : k \in Answers' /\ s2c'[k] = s2c[k] /\ k \in Nat /\ k < n
      /\ \A k \in Answers' : k \in Answers \/ k = n
  BY <1>2 DEF Answers, Answer
<1>4. ASSUME NEW v
      PROVE  About(v)' = About(v) /\ \A k \in About(v) : s2c'[k] = s2c[k]
  BY <1>2 DEF About, Answer
<1>5. ASSUME NEW v, NEW e, WillShow(v, e) PROVE WillShow(v, e)'
  <2>1. About(v)' = About(v) /\ \A k \in About(v) : s2c'[k] = s2c[k]
    BY <1>4, <1>5
  <2>2. CASE About(v) = {} /\ shown[v] = e
    BY <2>1, <2>2 DEF WillShow
  <2>3. ASSUME NEW k \in About(v), s2c[k].diags = e, \A j \in About(v) : j <= k
        PROVE  WillShow(v, e)'
    BY <2>1, <2>3 DEF WillShow
  <2>. QED
    BY <1>5, <2>2, <2>3 DEF WillShow
<1>. QED
  BY <1>2, <1>3, <1>5

\* The next message was read and, if it edits u, done: the rest edits u to the same texts.
LEMMA WillStillBe ==
    ASSUME IInv, ReadsOne, NEW u, NEW text, NEW k \in Nat, WillBe(k, u, text),
           k \in 2 .. Len(c2s) + 1,
           docs'[u] = IF 1 \in Edits(u) THEN Leaves(c2s[1]) ELSE docs[u]
    PROVE  WillBe(k - 1, u, text)'
<1>1. /\ \A j \in Edits(u)' : j \in Nat \ {0} /\ j + 1 \in Edits(u) /\ c2s'[j] = c2s[j + 1]
      /\ \A j \in Edits(u) : j \in Nat \ {0} /\ (j # 1 => j - 1 \in Edits(u)' /\ c2s'[j - 1] = c2s[j])
  BY ReadOne DEF Edits
<1>2. CASE docs[u] = text /\ \A j \in Edits(u) : k <= j
  <2>1. 1 \notin Edits(u) /\ docs'[u] = text
    BY <1>2
  <2>2. \A j \in Edits(u)' : k - 1 <= j
    BY <1>1, <1>2
  <2>. QED
    BY <2>1, <2>2 DEF WillBe
<1>3. ASSUME NEW j \in Edits(u), j < k, Leaves(c2s[j]) = text, \A i \in Edits(u) : i < k => i <= j
      PROVE  WillBe(k - 1, u, text)'
  <2>1. CASE j = 1
    <3>1. docs'[u] = text
      BY <1>3, <2>1
    <3>2. \A i \in Edits(u)' : k - 1 <= i
      BY <1>1, <1>3, <2>1
    <3>. QED
      BY <3>1, <3>2 DEF WillBe
  <2>2. CASE j # 1
    <3>1. j - 1 \in Edits(u)' /\ Leaves(c2s'[j - 1]) = text /\ j - 1 < k - 1
      BY <1>1, <1>3, <2>2
    <3>2. ASSUME NEW i \in Edits(u)', i < k - 1 PROVE i <= j - 1
      <4>1. i \in Nat /\ i + 1 \in Edits(u) /\ j \in Nat
        BY <1>1
      <4>2. i + 1 <= j
        BY <1>3, <3>2, <4>1
      <4>. QED
        BY <4>1, <4>2
    <3>. QED
      BY <3>1, <3>2 DEF WillBe, Leaves
  <2>. QED
    BY <2>1, <2>2
<1>. QED
  BY <1>2, <1>3 DEF WillBe

-----------------------------------------------------------------------------
(* The server keeps the invariant.                                         *)

\* The server does what it reads, so it will still come to the texts of the editor.
LEMMA ServerKeepsTexts ==
    ASSUME IInv, ServerStep(c2s[1]) PROVE TextsFollow'
<1> SUFFICES ASSUME srv' = "running", ~shuttingDown'
             PROVE  /\ \A u \in Uris : WillBe(Len(c2s) + 1, u, buffer[u])'
                    /\ \A k \in Unread', r \in pending :
                           r.id = c2s'[k].id /\ r.method = "codeAction" => WillBe(k, r.uri, r.text)'
  BY DEF TextsFollow, ServerStep, ReadsOne, editorVars
<1>1. /\ ReadsOne /\ srv = "running" /\ ~shuttingDown /\ c2s # <<>>
      /\ buffer' = buffer /\ pending' = pending
  BY DEF ServerStep, ReadsOne, editorVars
<1>2. ASSUME NEW u \in Uris
      PROVE  docs'[u] = IF 1 \in Edits(u) THEN Leaves(c2s[1]) ELSE docs[u]
  <2>1. docs \in [Uris -> Texts \cup {Closed}]
    BY DEF IInv, TypeOK
  <2>2. 1 \in Edits(u) => c2s[1].uri = u
    BY <1>1, HeadFacts
  <2>. QED
    BY <2>1, <2>2 DEF ServerStep, Lints, Drops, Passes, Responds
<1>3. ASSUME NEW u \in Uris PROVE WillBe(Len(c2s) + 1, u, buffer[u])'
  <2> SUFFICES ASSUME NEW k, k = Len(c2s) + 1, NEW text, text = buffer[u]
               PROVE  WillBe(k - 1, u, text)'
    <3>1. Len(c2s') + 1 = (Len(c2s) + 1) - 1
      BY <1>1, ReadOne
    <3>. QED
      BY <1>1, <3>1
  <2>1. WillBe(k, u, text)
    BY <1>1 DEF IInv, TextsFollow
  <2>2. k \in Nat /\ k \in 2 .. Len(c2s) + 1
    BY <1>1, ReadOne
  <2>. QED
    BY <1>1, <1>2, <2>1, <2>2, WillStillBe
<1>4. ASSUME NEW k \in Unread', NEW r \in pending, r.id = c2s'[k].id, r.method = "codeAction"
      PROVE  WillBe(k, r.uri, r.text)'
  <2>1. k \in Nat /\ k + 1 \in Unread /\ r.id = c2s[k + 1].id /\ r.uri \in Uris
    BY <1>1, <1>4, ReadOne DEF IInv, IdsOK
  <2>2. WillBe(k + 1, r.uri, r.text)
    BY <1>1, <1>4, <2>1 DEF IInv, TextsFollow
  <2>3. k + 1 \in Nat /\ k + 1 \in 2 .. Len(c2s) + 1 /\ (k + 1) - 1 = k
    <3>1. k \in 1 .. Len(c2s') /\ Len(c2s') = Len(c2s) - 1 /\ Len(c2s) \in Nat
      BY <1>1, ReadOne DEF Unread
    <3>. QED
      BY <3>1
  <2>. QED
    BY <1>1, <1>2, <2>1, <2>2, <2>3, WillStillBe
<1>. QED
  BY <1>3, <1>4

\* What a step of the server writes.
LEMMA ServerSays ==
    ASSUME IInv, ServerStep(c2s[1]), NEW m, m = c2s[1]
    PROVE  \/ s2c' = s2c
           \/ /\ hangUp = "no" /\ m.id = 0 /\ m.uri \in Uris
              /\ \E d \in Shown : s2c' = Append(s2c, Publish(m.uri, d))
           \/ /\ hangUp = "no" /\ m.id # 0
              /\ \E result \in Results : s2c' = Append(s2c, Answer(m.id, result))
<1>1. ASSUME NEW text \in Texts, Lints(m, text) PROVE Lint(text, ConfigFor(m.uri)) \in Shown
  BY <1>1, ConfigForFacts DEF IInv, Lints, Lint, Shown
<1>2. <<>> \in Shown
  BY DEF Shown
<1>. QED
  BY <1>1, <1>2 DEF ServerStep, Lints, Drops, Passes, Responds, Tells

\* Neither an answer nor diagnostics bring an id the editor has not used.
LEMMA ServerKeepsPipes ==
    ASSUME IInv, ServerStep(c2s[1]) PROVE PipesOK' /\ IdsOK'
<1>1. ReadsOne /\ pending' = pending /\ sent' = sent /\ shown' = shown /\ hangUp' = hangUp
  BY DEF ServerStep, ReadsOne, editorVars
<1>2. c2s[1].id \in 0 .. MaxSent /\ 1 \in DOMAIN c2s /\ c2s[1].id <= sent
  <2>1. c2s[1] \in EditorMessages /\ 1 \in DOMAIN c2s
    BY <1>1, ReadOne
  <2>. QED
    BY <2>1 DEF EditorMessages, IInv, IdsOK
<1>3. /\ s2c' \in Seq(ServerMessages)
      /\ \A k \in Answers' : s2c'[k].id <= sent
  <2>1. CASE s2c' = s2c
    BY <2>1 DEF IInv, PipesOK, IdsOK, Answers
  <2>2. ASSUME NEW d \in Shown, c2s[1].uri \in Uris, s2c' = Append(s2c, Publish(c2s[1].uri, d))
        PROVE  /\ s2c' \in Seq(ServerMessages)
               /\ \A k \in Answers' : s2c'[k].id <= sent
    BY <1>1, <2>2, PublishOne DEF IInv, IdsOK
  <2>3. ASSUME NEW result \in Results, c2s[1].id # 0, s2c' = Append(s2c, Answer(c2s[1].id, result))
        PROVE  /\ s2c' \in Seq(ServerMessages)
               /\ \A k \in Answers' : s2c'[k].id <= sent
    <3>1. c2s[1].id \in 1 .. MaxSent
      BY <1>2, <2>3
    <3>2. /\ s2c' \in Seq(ServerMessages) /\ s2c'[Len(s2c) + 1] = Answer(c2s[1].id, result)
          /\ \A k \in Answers : s2c'[k] = s2c[k]
          /\ \A k \in Answers' : k \in Answers \/ k = Len(s2c) + 1
      BY <1>1, <2>3, <3>1, AnswerOne
    <3>. QED
      BY <1>2, <3>2 DEF IInv, IdsOK, Answer
  <2>. QED
    BY <2>1, <2>2, <2>3, ServerSays
<1>4. PipesOK'
  BY <1>1, <1>3, ReadOne DEF IInv, PipesOK, MessageOK
<1>5. IdsOK'
  <2>1. \A k \in DOMAIN c2s' : c2s'[k].id <= sent
    BY <1>1, ReadOne DEF IInv, IdsOK
  <2>2. ASSUME NEW k \in Unread', NEW r \in pending, r.id = c2s'[k].id
        PROVE  r.method = c2s'[k].method /\ r.uri = c2s'[k].uri /\ r.quickFix = c2s'[k].quickFix
    <3>1. k + 1 \in Unread /\ c2s'[k] = c2s[k + 1]
      BY <1>1, ReadOne
    <3>. QED
      BY <2>2, <3>1 DEF IInv, IdsOK
  <2>. QED
    BY <1>1, <1>3, <2>1, <2>2 DEF IInv, IdsOK
<1>. QED
  BY <1>4, <1>5

\* The request that is read is the oldest, and its answer becomes the last.
LEMMA ServerKeepsAnswers ==
    ASSUME IInv, ServerStep(c2s[1]) PROVE AnsweredInOrder'
<1> SUFFICES ASSUME srv' = "running", hangUp = "no" PROVE AnsweredInOrder'
  BY DEF AnsweredInOrder, ServerStep, ReadsOne, editorVars
<1>1. ReadsOne /\ srv = "running" /\ pending' = pending /\ shown' = shown
  BY DEF ServerStep, ReadsOne, editorVars
<1>2. /\ {r.id : r \in pending} = {s2c[k].id : k \in Answers} \cup {c2s[k].id : k \in Unread}
      /\ \A j, k \in Answers : j < k => s2c[j].id < s2c[k].id
      /\ \A j, k \in Unread : j < k => c2s[j].id < c2s[k].id
      /\ \A j \in Answers, k \in Unread : s2c[j].id < c2s[k].id
  BY <1>1 DEF IInv, AnsweredInOrder
<1>3. \A j, k \in Unread' : j < k => c2s'[j].id < c2s'[k].id
  <2> SUFFICES ASSUME NEW j \in Unread', NEW k \in Unread', j < k PROVE c2s'[j].id < c2s'[k].id
    OBVIOUS
  <2>1. /\ j + 1 \in Unread /\ c2s'[j] = c2s[j + 1] /\ k + 1 \in Unread /\ c2s'[k] = c2s[k + 1]
        /\ j \in Nat /\ k \in Nat
    BY <1>1, ReadOne
  <2>2. j + 1 < k + 1
    BY <2>1
  <2>. QED
    BY <1>2, <2>1, <2>2
<1>4. CASE Answers' = Answers /\ (\A k \in Answers : s2c'[k] = s2c[k]) /\ c2s[1].id = 0
  <2>1. {c2s'[k].id : k \in Unread'} = {c2s[k].id : k \in Unread}
    BY <1>1, <1>4, ReadOne
  <2>2. {s2c'[k].id : k \in Answers'} = {s2c[k].id : k \in Answers}
    BY <1>4
  <2>3. \A j \in Answers', k \in Unread' : s2c'[j].id < c2s'[k].id
    BY <1>1, <1>2, <1>4, ReadOne
  <2>4. \A j, k \in Answers' : j < k => s2c'[j].id < s2c'[k].id
    BY <1>2, <1>4
  <2>. QED
    BY <1>1, <1>2, <1>3, <2>1, <2>2, <2>3, <2>4 DEF AnsweredInOrder
<1>5. ASSUME NEW result \in Results, c2s[1].id # 0, s2c' = Append(s2c, Answer(c2s[1].id, result))
      PROVE  AnsweredInOrder'
  <2> DEFINE n == Len(s2c) + 1
  <2>1. 1 \in Unread /\ c2s[1].id \in 1 .. MaxSent
    BY <1>1, <1>5, ReadOne DEF EditorMessages
  <2>2. /\ n \in Answers' /\ s2c'[n] = Answer(c2s[1].id, result)
        /\ \A k \in Answers : k \in Answers' /\ s2c'[k] = s2c[k] /\ k \in Nat /\ k < n
        /\ \A k \in Answers' : k \in Answers \/ k = n
    BY <1>1, <1>5, <2>1, AnswerOne
  <2>. s2c'[n].id = c2s[1].id
    BY <2>2 DEF Answer
  <2>3. {s2c'[k].id : k \in Answers'} = {s2c[k].id : k \in Answers} \cup {c2s[1].id}
    BY <2>2
  <2>4. {c2s[k].id : k \in Unread} = {c2s'[k].id : k \in Unread'} \cup {c2s[1].id}
    <3>1. \A k \in Unread : k = 1 \/ \E j \in Unread' : c2s'[j] = c2s[k]
      BY <1>1, ReadOne
    <3>2. \A j \in Unread' : \E k \in Unread : c2s'[j] = c2s[k]
      BY <1>1, ReadOne
    <3>. QED
      BY <2>1, <3>1, <3>2
  <2>5. \A j, k \in Answers' : j < k => s2c'[j].id < s2c'[k].id
    <3> SUFFICES ASSUME NEW j \in Answers', NEW k \in Answers', j < k
                 PROVE  s2c'[j].id < s2c'[k].id
      OBVIOUS
    <3>1. n \in Int
      BY DEF IInv, PipesOK
    <3>2. j \in Answers
      BY <2>2, <3>1
    <3>. QED
      BY <1>2, <2>1, <2>2, <3>2
  <2>6. \A j \in Answers', k \in Unread' : s2c'[j].id < c2s'[k].id
    <3> SUFFICES ASSUME NEW j \in Answers', NEW k \in Unread' PROVE s2c'[j].id < c2s'[k].id
      OBVIOUS
    <3>1. k \in Nat \ {0} /\ k + 1 \in Unread /\ c2s'[k] = c2s[k + 1] /\ 1 < k + 1
      BY <1>1, ReadOne DEF Unread
    <3>2. c2s[1].id < c2s[k + 1].id
      BY <1>2, <2>1, <3>1
    <3>. QED
      BY <1>2, <2>2, <3>1, <3>2
  <2>. QED
    BY <1>1, <1>2, <1>3, <2>3, <2>4, <2>5, <2>6 DEF AnsweredInOrder
<1>. QED
  <2>1. ASSUME s2c' = s2c PROVE Answers' = Answers /\ \A k \in Answers : s2c'[k] = s2c[k]
    BY <2>1 DEF Answers
  <2>2. ASSUME NEW d \in Shown, c2s[1].uri \in Uris, s2c' = Append(s2c, Publish(c2s[1].uri, d))
        PROVE  Answers' = Answers /\ \A k \in Answers : s2c'[k] = s2c[k]
    BY <1>1, <2>2, PublishOne
  <2>3. \/ c2s[1].id = 0 /\ s2c' = s2c
        \/ c2s[1].id = 0 /\ c2s[1].uri \in Uris /\ \E d \in Shown : s2c' = Append(s2c, Publish(c2s[1].uri, d))
        \/ c2s[1].id # 0 /\ \E result \in Results : s2c' = Append(s2c, Answer(c2s[1].id, result))
    BY ServerSays DEF ServerStep, Lints, Drops, Passes, Responds, Tells
  <2>. QED
    BY <1>4, <1>5, <2>1, <2>2, <2>3

\* What is known of the configurations stays known, and is not replaced.
LEMMA CacheGrows ==
    ASSUME IInv, ServerStep(c2s[1])
    PROVE  /\ cfgCache' \in [Dirs -> Configs \cup {Nothing}]
           /\ \A v \in Uris : Known(v) => Known(v)' /\ ConfigSeen(v)' = ConfigSeen(v)
<1>1. TypeOK
  BY DEF IInv
<1>2. CASE cfgCache' = cfgCache
  BY <1>1, <1>2 DEF TypeOK, Known, ConfigSeen
<1>3. ASSUME NEW u \in Uris, RememberConfig(u)
      PROVE  /\ cfgCache' \in [Dirs -> Configs \cup {Nothing}]
             /\ \A v \in Uris : Known(v) => Known(v)' /\ ConfigSeen(v)' = ConfigSeen(v)
  BY <1>1, <1>3, ConfigForFacts
<1>. QED
  BY <1>2, <1>3 DEF ServerStep, Lints, Drops, Passes, Responds

\* What the server stores has the type of what it was sent.
LEMMA ServerKeepsTypes ==
    ASSUME IInv, ServerStep(c2s[1]) PROVE TypeOK'
<1>1. TypeOK /\ ReadsOne
  BY DEF IInv, ServerStep
<1>2. docs' \in [Uris -> Texts \cup {Closed}]
  BY <1>1 DEF TypeOK, ServerStep, Lints, Drops, Passes, Responds
<1>3. /\ \A m \in ToSet(c2s') : m.method \in Requests \cup Notifications
      /\ \A m \in ToSet(s2c') : m.kind \in {"diagnostics", "response"}
  <2>1. c2s' \in Seq(EditorMessages) /\ s2c' \in Seq(ServerMessages)
    BY ServerKeepsPipes DEF PipesOK
  <2>2. /\ \A m \in ToSet(c2s') : m \in EditorMessages
        /\ \A m \in ToSet(s2c') : m \in ServerMessages
    BY <2>1 DEF ToSet
  <2>. QED
    BY <2>2 DEF EditorMessages, ServerMessages
<1>. QED
  BY <1>1, <1>2, <1>3, CacheGrows DEF TypeOK, ReadsOne, editorVars

\* An offer is made from the text the editor asked about.
LEMMA ServerKeepsOffers ==
    ASSUME IInv, ServerStep(c2s[1]) PROVE ConfigsKnown' /\ OffersFitRequest'
<1> DEFINE m == c2s[1]
           Due(r) == r.quickFix /\ r.text # Closed
<1>1. /\ ReadsOne /\ TypeOK /\ srv = "running" /\ pending' = pending /\ shown' = shown
      /\ hangUp' = hangUp
  BY DEF IInv, ServerStep, ReadsOne, editorVars
<1>2. \A u \in Uris : docs'[u] # Closed => Known(u)'
  <2> SUFFICES ASSUME NEW u \in Uris, docs'[u] # Closed PROVE Known(u)'
    OBVIOUS
  <2>1. CASE docs[u] # Closed
    BY <2>1, CacheGrows DEF IInv, ConfigsKnown
  <2>2. CASE docs[u] = Closed
    <3>1. m.uri = u /\ RememberConfig(u)
      BY <1>1, <2>2 DEF TypeOK, ServerStep, Lints, Drops, Passes, Responds
    <3>. QED
      BY <1>1, <3>1, ConfigForFacts
  <2>. QED
    BY <2>1, <2>2
<1>3. ASSUME hangUp = "no", NEW k \in Answers', NEW r \in pending,
             r.id = s2c'[k].id, r.method = "codeAction", s2c'[k].result # "invalid request"
      PROVE  /\ Due(r) => Known(r.uri)'
             /\ s2c'[k].result = IF Due(r) THEN Offer(r.text, ConfigSeen(r.uri)') ELSE <<>>
  <2>1. r.uri \in Uris
    BY <1>3 DEF IInv, IdsOK
  <2>2. CASE k \in Answers /\ s2c'[k] = s2c[k]
    <3>1. /\ Due(r) => Known(r.uri)
          /\ s2c[k].result = IF Due(r) THEN Offer(r.text, ConfigSeen(r.uri)) ELSE <<>>
      BY <1>3, <2>2 DEF IInv, ConfigsKnown, OffersFitRequest
    <3>2. Due(r) => Known(r.uri)' /\ ConfigSeen(r.uri)' = ConfigSeen(r.uri)
      BY <2>1, <3>1, CacheGrows
    <3>. QED
      BY <2>2, <3>1, <3>2
  <2>3. ASSUME NEW result \in Results, Responds(m, result), s2c'[k] = Answer(m.id, result)
        PROVE  /\ Due(r) => Known(r.uri)'
               /\ s2c'[k].result = IF Due(r) THEN Offer(r.text, ConfigSeen(r.uri)') ELSE <<>>
    <3>1. s2c'[k].id = m.id /\ s2c'[k].result = result
      BY <2>3 DEF Answer
    <3>2. 1 \in Unread
      BY <1>1, <2>3, ReadOne DEF Responds
    <3>3. r.id = m.id /\ r.method = m.method /\ r.uri = m.uri /\ r.quickFix = m.quickFix
      BY <1>3, <3>1, <3>2 DEF IInv, IdsOK
    <3>4. /\ ~shuttingDown
          /\ IF m.quickFix /\ docs[m.uri] # Closed
             THEN RememberConfig(m.uri) /\ result = Offer(docs[m.uri], ConfigFor(m.uri))
             ELSE UNCHANGED cfgCache /\ result = <<>>
      BY <1>3, <2>3, <3>1, <3>3 DEF Responds
    <3>5. docs[r.uri] = r.text
      <4>1. WillBe(1, r.uri, r.text)
        BY <1>1, <1>3, <3>2, <3>3, <3>4 DEF IInv, TextsFollow
      <4>2. \A j \in Edits(r.uri) : ~(j < 1)
        BY <1>1, ReadOne DEF Edits
      <4>. QED
        BY <4>1, <4>2 DEF WillBe
    <3>6. Due(r) => Known(r.uri)' /\ ConfigSeen(r.uri)' = ConfigFor(r.uri)
      BY <1>1, <2>1, <3>3, <3>4, <3>5, ConfigForFacts
    <3>. QED
      BY <3>1, <3>3, <3>4, <3>5, <3>6
  <2>4. CASE s2c' = s2c
    BY <2>2, <2>4 DEF Answers
  <2>5. ASSUME NEW d \in Shown, m.uri \in Uris, s2c' = Append(s2c, Publish(m.uri, d))
        PROVE  k \in Answers /\ s2c'[k] = s2c[k]
    BY <1>1, <2>5, PublishOne
  <2>6. ASSUME NEW result \in Results, Responds(m, result)
        PROVE  (k \in Answers /\ s2c'[k] = s2c[k]) \/ s2c'[k] = Answer(m.id, result)
    <3>1. m.id \in 1 .. MaxSent
      BY <1>1, <2>6, IdsOfRequests DEF Responds
    <3>2. s2c' = Append(s2c, Answer(m.id, result))
      BY <1>3, <2>6 DEF Responds, Tells
    <3>. QED
      BY <1>1, <3>1, <3>2, AnswerOne
  <2>7. \/ s2c' = s2c
        \/ m.uri \in Uris /\ \E d \in Shown : s2c' = Append(s2c, Publish(m.uri, d))
        \/ \E result \in Results : Responds(m, result)
    BY ServerSays DEF ServerStep, Lints, Drops, Passes
  <2>. QED
    BY <2>2, <2>3, <2>4, <2>5, <2>6, <2>7
<1>4. ConfigsKnown'
  BY <1>1, <1>2, <1>3 DEF ConfigsKnown
<1>5. OffersFitRequest'
  BY <1>1, <1>3 DEF OffersFitRequest
<1>. QED
  BY <1>4, <1>5

\* What is published is the lint of what is stored, under the configuration that stays.
LEMMA ServerKeepsPublished ==
    ASSUME IInv, ServerStep(c2s[1]) PROVE PublishedLast'
<1> DEFINE m == c2s[1]
<1> SUFFICES ASSUME hangUp = "no", NEW u \in Uris
             PROVE  WillShow(u, IF docs[u] = Closed THEN <<>> ELSE Lint(docs[u], ConfigSeen(u)))'
  BY DEF PublishedLast, ServerStep, ReadsOne, editorVars
<1>1. ReadsOne /\ TypeOK /\ shown' = shown
  BY DEF IInv, ServerStep, ReadsOne, editorVars
<1>2. WillShow(u, IF docs[u] = Closed THEN <<>> ELSE Lint(docs[u], ConfigSeen(u)))
  BY DEF IInv, PublishedLast
<1>3. ASSUME docs'[u] = docs[u], \A d : WillShow(u, d) => WillShow(u, d)'
      PROVE  WillShow(u, IF docs[u] = Closed THEN <<>> ELSE Lint(docs[u], ConfigSeen(u)))'
  <2>1. docs[u] # Closed => ConfigSeen(u)' = ConfigSeen(u)
    BY CacheGrows DEF IInv, ConfigsKnown
  <2>2. PICK d : d = IF docs[u] = Closed THEN <<>> ELSE Lint(docs[u], ConfigSeen(u))
    OBVIOUS
  <2>3. WillShow(u, d)'
    BY <1>2, <1>3, <2>2
  <2>4. d = IF docs'[u] = Closed THEN <<>> ELSE Lint(docs'[u], ConfigSeen(u)')
    BY <1>3, <2>1, <2>2 DEF Lint
  <2>. QED
    BY <2>3, <2>4
<1>4. ASSUME NEW text \in Texts, Lints(m, text)
      PROVE  WillShow(u, IF docs[u] = Closed THEN <<>> ELSE Lint(docs[u], ConfigSeen(u)))'
  <2>1. PICK d \in Shown : d = Lint(text, ConfigFor(m.uri))
    BY <1>1, <1>4, ConfigForFacts DEF Lints, Lint, Shown
  <2>2. m.uri \in Uris /\ s2c' = Append(s2c, Publish(m.uri, d)) /\ RememberConfig(m.uri)
    BY <1>4, <2>1 DEF Lints, Tells
  <2>3. CASE u = m.uri
    <3>1. WillShow(u, d)'
      BY <1>1, <2>2, <2>3, PublishOne
    <3>2. docs'[u] = text /\ text # Closed
      BY <1>1, <1>4, <2>3, LspAssumption DEF Lints, TypeOK
    <3>3. ConfigSeen(u)' = ConfigFor(u)
      BY <1>1, <2>2, <2>3, ConfigForFacts
    <3>4. d = IF docs'[u] = Closed THEN <<>> ELSE Lint(docs'[u], ConfigSeen(u)')
      BY <2>1, <2>3, <3>2, <3>3
    <3>. QED
      BY <3>1, <3>4
  <2>4. CASE u # m.uri
    <3>1. docs'[u] = docs[u]
      BY <1>1, <1>4, <2>4 DEF Lints, TypeOK
    <3>. QED
      BY <1>1, <1>3, <2>2, <2>4, <3>1, PublishOne
  <2>. QED
    BY <2>3, <2>4
<1>5. CASE Drops(m)
  <2>1. m.uri \in Uris /\ <<>> \in Shown /\ s2c' = Append(s2c, Publish(m.uri, <<>>))
    BY <1>5 DEF Drops, Tells, Shown
  <2>2. CASE u = m.uri
    <3>1. WillShow(u, <<>>)'
      BY <1>1, <2>1, <2>2, PublishOne
    <3>2. docs'[u] = Closed
      BY <1>1, <1>5, <2>2 DEF Drops, TypeOK
    <3>. QED
      BY <3>1, <3>2
  <2>3. CASE u # m.uri
    <3>1. docs'[u] = docs[u]
      BY <1>1, <1>5, <2>3 DEF Drops, TypeOK
    <3>. QED
      BY <1>1, <1>3, <2>1, <2>3, <3>1, PublishOne
  <2>. QED
    BY <2>2, <2>3
<1>6. CASE Passes(m)
  BY <1>1, <1>3, <1>6 DEF Passes, WillShow, About
<1>7. ASSUME NEW result \in Results, Responds(m, result)
      PROVE  WillShow(u, IF docs[u] = Closed THEN <<>> ELSE Lint(docs[u], ConfigSeen(u)))'
  <2>1. m.id \in 1 .. MaxSent /\ s2c' = Append(s2c, Answer(m.id, result)) /\ docs' = docs
    BY <1>1, <1>7, IdsOfRequests DEF Responds, Tells
  <2>. QED
    BY <1>1, <1>3, <2>1, AnswerOne
<1>. QED
  BY <1>4, <1>5, <1>6, <1>7 DEF ServerStep

\* The end of the pipe changes nothing but the server.
LEMMA ServerNextIInv ==
    ASSUME IInv, Server PROVE IInv'
<1>1. CASE ServerStep(c2s[1])
  BY <1>1, ServerKeepsTypes, ServerKeepsPipes, ServerKeepsTexts, ServerKeepsOffers,
     ServerKeepsPublished, ServerKeepsAnswers
     DEF IInv, ServerStep, ReadsOne
<1>2. CASE /\ UNCHANGED <<c2s, s2c, docs, cfgCache, shuttingDown, editorVars, project>>
           /\ srv' \in {"nil", "error"} /\ NilOnlyIfAgreed'
  <2>. UNCHANGED <<c2s, s2c, docs, cfgCache, shuttingDown, buffer, shown, pending, sent, hangUp, project>>
    BY <1>2 DEF editorVars
  <2>1. TypeOK' /\ PipesOK' /\ IdsOK'
    BY <1>2 DEF IInv, TypeOK, PipesOK, IdsOK, Answers, Unread
  <2>2. TextsFollow' /\ AnsweredInOrder'
    BY <1>2 DEF TextsFollow, AnsweredInOrder
  <2>3. ConfigsKnown' /\ OffersFitRequest'
    <3>1. /\ Answers' = Answers
          /\ \A u : Known(u)' <=> Known(u)
          /\ \A u : ConfigSeen(u)' = ConfigSeen(u)
      BY DEF Answers, Known, ConfigSeen
    <3>2. ConfigsKnown'
      BY <3>1 DEF IInv, ConfigsKnown
    <3>3. OffersFitRequest'
      BY <3>1 DEF IInv, OffersFitRequest
    <3>. QED
      BY <3>2, <3>3
  <2>4. PublishedLast'
    BY DEF IInv, PublishedLast, ConfigSeen, WillShow, About
  <2>. QED
    BY <1>2, <2>1, <2>2, <2>3, <2>4 DEF IInv
<1>. QED
  BY <1>1, <1>2, ServerSteps

-----------------------------------------------------------------------------
(* The steps of the editor.                                                *)

PendingRequests ==
    [id : 1 .. MaxSent, method : Requests, uri : Uris \cup {Nothing},
     text : Texts \cup {Closed}, quickFix : BOOLEAN]

\* A message is sent: an edit as the buffer changes, a request as it becomes pending.
Sends(m) ==
    /\ Send(m)
    /\ m \in EditorMessages /\ MessageOK(m) /\ m.id \in {0, sent + 1}
    /\ buffer' \in [Uris -> Texts \cup {Closed}]
    /\ \A u \in Uris : buffer'[u] = IF IsEdit(m, u) THEN Leaves(m) ELSE buffer[u]
    /\ \/ m.id = 0 /\ pending' = pending
       \/ \E r \in PendingRequests :
              /\ m.id # 0 /\ r.id = m.id
              /\ r.method = m.method /\ r.uri = m.uri /\ r.quickFix = m.quickFix
              /\ r.method = "codeAction" => r.uri \in Uris /\ r.text = buffer[r.uri]
              /\ pending' = pending \cup {r}

\* Every step of the editor sends one such message, reads one or hangs up.
LEMMA EditorSteps ==
    ASSUME IInv, Editor
    PROVE  \/ \E m \in EditorMessages : Sends(m)
           \/ ReadMessage
           \/ \E how \in {"clean", "inHeader", "inBody"} : HangUp(how)
<1>1. /\ buffer \in [Uris -> Texts \cup {Closed}] /\ sent \in 0 .. MaxSent
      /\ MaxSent \in Nat /\ Closed \notin Texts /\ Nothing \notin Uris
  BY LspAssumption DEF IInv, TypeOK
<1>2. ASSUME NEW u \in Uris, NEW text \in Texts, Open(u, text)
      PROVE  \E m \in EditorMessages : Sends(m)
  <2> DEFINE m == Message("didOpen", 0, u, <<text>>, FALSE)
  <2>1. m \in EditorMessages
    BY <1>1 DEF Message, EditorMessages, Notifications
  <2>2. MessageOK(m) /\ m.id = 0 /\ Leaves(m) = text /\ \A v : IsEdit(m, v) <=> v = u
    BY DEF Message, MessageOK, Requests, Leaves, IsEdit, Last
  <2>3. Sends(m)
    BY <1>1, <1>2, <2>1, <2>2 DEF Open, Notify, Sends
  <2>. QED
    BY <2>1, <2>3
<1>3. ASSUME NEW u \in Uris, NEW texts \in Seq(Texts), Change(u, texts)
      PROVE  \E m \in EditorMessages : Sends(m)
  <2> DEFINE m == Message("didChange", 0, u, texts, FALSE)
  <2>1. m \in EditorMessages
    BY <1>1 DEF Message, EditorMessages, Notifications
  <2>2. /\ MessageOK(m) /\ m.id = 0 /\ Leaves(m) = Last(texts)
        /\ \A v : IsEdit(m, v) <=> v = u /\ texts # <<>>
    BY DEF Message, MessageOK, Requests, Leaves, IsEdit
  <2>3. texts # <<>> => Last(texts) \in Texts
    BY DEF Last
  <2>4. Send(m) /\ pending' = pending
    BY <1>3 DEF Change, Notify
  <2>5. /\ buffer' \in [Uris -> Texts \cup {Closed}]
        /\ \A v \in Uris : buffer'[v] = IF v = u /\ texts # <<>> THEN Last(texts) ELSE buffer[v]
    BY <1>1, <1>3, <2>3 DEF Change
  <2>6. Sends(m)
    <3> HIDE DEF m
    <3>. QED
      BY <2>1, <2>2, <2>4, <2>5 DEF Sends
  <2>. QED
    BY <2>1, <2>6
<1>4. ASSUME NEW u \in Uris, Close(u)
      PROVE  \E m \in EditorMessages : Sends(m)
  <2> DEFINE m == Message("didClose", 0, u, <<>>, FALSE)
  <2>1. m \in EditorMessages
    BY <1>1 DEF Message, EditorMessages, Notifications
  <2>2. MessageOK(m) /\ m.id = 0 /\ Leaves(m) = Closed /\ \A v : IsEdit(m, v) <=> v = u
    BY DEF Message, MessageOK, Requests, Leaves, IsEdit
  <2>3. Sends(m)
    BY <1>1, <1>4, <2>1, <2>2 DEF Close, Notify, Sends
  <2>. QED
    BY <2>1, <2>3
<1>5. ASSUME NEW method, Say(method)
      PROVE  \E m \in EditorMessages : Sends(m)
  <2> DEFINE m == Message(method, 0, Nothing, <<>>, FALSE)
  <2>0. method \in {"exit", "ignored", "malformed"}
    BY <1>5 DEF Say
  <2>1. m \in EditorMessages
    BY <1>1, <2>0 DEF Message, EditorMessages, Notifications
  <2>2. MessageOK(m) /\ m.id = 0 /\ \A v : ~IsEdit(m, v)
    BY <2>0 DEF Message, MessageOK, Requests, IsEdit
  <2>3. Sends(m)
    BY <1>1, <1>5, <2>1, <2>2 DEF Say, Notify, Sends
  <2>. QED
    BY <2>1, <2>3
<1>6. ASSUME NEW method \in Requests, NEW u \in Uris \cup {Nothing}, NEW quickFix \in BOOLEAN,
             Request(method, u, quickFix), method = "codeAction" => u \in Uris
      PROVE  \E m \in EditorMessages : Sends(m)
  <2> DEFINE m == Message(method, sent + 1, u, <<>>, quickFix)
             r == [id |-> sent + 1, method |-> method, uri |-> u,
                   text |-> IF u \in Uris THEN buffer[u] ELSE Closed,
                   quickFix |-> quickFix]
  <2>0. sent + 1 \in 0 .. MaxSent /\ sent + 1 \in 1 .. MaxSent /\ sent + 1 # 0
    BY <1>1, <1>6 DEF Request, Send
  <2>1. m \in EditorMessages
    BY <1>1, <2>0 DEF Message, EditorMessages
  <2>2. MessageOK(m) /\ m.id = sent + 1 /\ \A v : ~IsEdit(m, v)
    BY <1>6, <2>0 DEF Message, MessageOK, Requests, IsEdit
  <2>3. r \in PendingRequests
    BY <1>1, <2>0 DEF PendingRequests
  <2>4. Send(m) /\ pending' = pending \cup {r} /\ buffer' = buffer
    BY <1>6 DEF Request
  <2>5. r.id = m.id /\ r.method = m.method /\ r.uri = m.uri /\ r.quickFix = m.quickFix
    BY DEF Message
  <2>6. r.method = "codeAction" => r.uri \in Uris /\ r.text = buffer[r.uri]
    BY <1>6
  <2>7. Sends(m)
    <3> HIDE DEF m, r
    <3>. QED
      BY <1>1, <2>0, <2>1, <2>2, <2>3, <2>4, <2>5, <2>6 DEF Sends
  <2>. QED
    BY <2>1, <2>7
<1>7. \A text, text2 \in Texts : <<text>> \in Seq(Texts) /\ <<text, text2>> \in Seq(Texts)
  OBVIOUS
<1>8. <<>> \in Seq(Texts) /\ "codeAction" \in Requests
  BY DEF Requests
<1>. QED
  BY <1>2, <1>3, <1>4, <1>5, <1>6, <1>7, <1>8 DEF Editor

\* The pipe to the server with one more message.
LEMMA SendOne ==
    ASSUME IInv, NEW m \in EditorMessages, Sends(m), NEW n, n = Len(c2s) + 1
    PROVE  /\ c2s' \in Seq(EditorMessages) /\ n \in Nat \ {0} /\ Len(c2s') = n
           /\ DOMAIN c2s = 1 .. Len(c2s) /\ DOMAIN c2s' = 1 .. Len(c2s')
           /\ n \in DOMAIN c2s' /\ c2s'[n] = m
           /\ \A k \in DOMAIN c2s :
                  k \in Nat /\ k < n /\ k \in DOMAIN c2s' /\ c2s'[k] = c2s[k]
           /\ \A k \in DOMAIN c2s' : k \in DOMAIN c2s \/ k = n
           /\ \A k \in Unread :
                  k \in Nat /\ k < n /\ k \in Unread' /\ c2s'[k] = c2s[k] /\ c2s[k].id <= sent
           /\ \A k \in Unread' : k \in Unread \/ k = n
           /\ n \in Unread' <=> m.id # 0
<1>1. c2s \in Seq(EditorMessages) /\ c2s' = Append(c2s, m)
  BY DEF IInv, PipesOK, Sends, Send
<1>2. /\ c2s' \in Seq(EditorMessages) /\ n \in Nat \ {0} /\ Len(c2s') = n
      /\ DOMAIN c2s = 1 .. Len(c2s) /\ DOMAIN c2s' = 1 .. Len(c2s')
      /\ n \in DOMAIN c2s' /\ c2s'[n] = m
      /\ \A k \in DOMAIN c2s :
             k \in Nat /\ k < n /\ k \in DOMAIN c2s' /\ c2s'[k] = c2s[k]
      /\ \A k \in DOMAIN c2s' : k \in DOMAIN c2s \/ k = n
  BY <1>1, AppendFacts
<1>3. \A k \in DOMAIN c2s : c2s[k].id <= sent
  BY DEF IInv, IdsOK
<1>. QED
  BY <1>2, <1>3 DEF Unread

\* A request that has just become pending has an id of its own.
LEMMA SendIds ==
    ASSUME IInv, NEW m \in EditorMessages, Sends(m)
    PROVE  /\ \A r \in pending' : r.id <= sent + 1 /\ (r.method = "codeAction" => r.uri \in Uris)
           /\ \A r, q \in pending' : r.id = q.id => r = q
           /\ \A r \in pending' : r.id <= sent => r \in pending
           /\ m.id # 0 =>
                  \A r \in pending' : r.id = m.id =>
                      /\ r.method = m.method /\ r.uri = m.uri /\ r.quickFix = m.quickFix
                      /\ r.method = "codeAction" => r.uri \in Uris /\ r.text = buffer[r.uri]
<1>1. /\ \A r \in pending : r.id <= sent /\ (r.method = "codeAction" => r.uri \in Uris)
      /\ \A r \in pending : r.id \in Nat
      /\ \A r, q \in pending : r.id = q.id => r = q
      /\ sent \in Nat
  BY LspAssumption DEF IInv, IdsOK, TypeOK
<1>2. CASE m.id = 0 /\ pending' = pending
  BY <1>1, <1>2
<1>3. ASSUME m.id # 0, NEW r, r.id = m.id,
             r.method = m.method, r.uri = m.uri, r.quickFix = m.quickFix,
             r.method = "codeAction" => r.uri \in Uris /\ r.text = buffer[r.uri],
             pending' = pending \cup {r}
      PROVE  /\ \A q \in pending' : q.id <= sent + 1 /\ (q.method = "codeAction" => q.uri \in Uris)
             /\ \A q, p \in pending' : q.id = p.id => q = p
             /\ \A q \in pending' : q.id <= sent => q \in pending
             /\ \A q \in pending' : q.id = m.id => q = r
  <2>1. r.id = sent + 1
    BY <1>3 DEF Sends
  <2>. QED
    BY <1>1, <1>3, <2>1
<1>. QED
  BY <1>2, <1>3 DEF Sends

\* A message that is sent comes after all others, with the buffer as it is then.
LEMMA SendKeepsTexts ==
    ASSUME IInv, NEW m \in EditorMessages, Sends(m) PROVE TextsFollow'
<1> SUFFICES ASSUME srv = "running", ~shuttingDown PROVE TextsFollow'
  BY DEF TextsFollow, Sends, Send, serverVars
<1>1. docs' = docs /\ TextsFollow /\ srv = "running"
  BY DEF IInv, Sends, Send, serverVars
<1>2. PICK n : n = Len(c2s) + 1
  OBVIOUS
<1>3. ASSUME NEW u
      PROVE  /\ \A k \in Edits(u) : k \in Nat /\ k < n /\ k \in Edits(u)' /\ c2s'[k] = c2s[k]
             /\ \A k \in Edits(u)' : k \in Edits(u) \/ k = n
             /\ n \in Edits(u)' <=> IsEdit(m, u)
             /\ n \in Nat /\ c2s'[n] = m
  BY <1>2, SendOne DEF Edits
<1>4. ASSUME NEW u, NEW text, NEW k \in Nat, k <= n, WillBe(k, u, text) PROVE WillBe(k, u, text)'
  <2>1. CASE docs[u] = text /\ \A j \in Edits(u) : k <= j
    BY <1>1, <1>3, <1>4, <2>1 DEF WillBe
  <2>2. ASSUME NEW j \in Edits(u), j < k, Leaves(c2s[j]) = text, \A i \in Edits(u) : i < k => i <= j
        PROVE  WillBe(k, u, text)'
    <3>1. j \in Edits(u)' /\ c2s'[j] = c2s[j]
      BY <1>3
    <3>2. \A i \in Edits(u)' : i < k => i <= j
      BY <1>3, <1>4, <2>2
    <3>. QED
      BY <2>2, <3>1, <3>2 DEF WillBe, Leaves
  <2>. QED
    BY <1>4, <2>1, <2>2 DEF WillBe
<1>5. ASSUME NEW u \in Uris, NEW k, k = n + 1, NEW text, text = buffer'[u] PROVE WillBe(k, u, text)'
  <2>1. CASE IsEdit(m, u)
    <3>1. n \in Edits(u)' /\ c2s'[n] = m /\ Leaves(m) = text /\ n < k
      BY <1>3, <1>5, <2>1 DEF Sends
    <3>2. \A i \in Edits(u)' : i < k => i <= n
      BY <1>3, <1>5
    <3>. QED
      BY <3>1, <3>2 DEF WillBe, Leaves
  <2>2. CASE ~IsEdit(m, u)
    <3>1. WillBe(n, u, text)
      BY <1>1, <1>2, <1>5, <2>2 DEF TextsFollow, Sends
    <3>2. \A i \in Edits(u)' : i \in Edits(u) /\ c2s'[i] = c2s[i] /\ i \in Nat /\ i < n
      BY <1>3, <2>2
    <3>3. \A i \in Edits(u) : i \in Edits(u)' /\ i < n
      BY <1>3
    <3>4. Edits(u)' = Edits(u)
      BY <3>2, <3>3
    <3>5. CASE docs[u] = text /\ \A j \in Edits(u) : n <= j
      BY <1>1, <1>3, <3>2, <3>4, <3>5 DEF WillBe
    <3>6. ASSUME NEW j \in Edits(u), j < n, Leaves(c2s[j]) = text,
                 \A i \in Edits(u) : i < n => i <= j
          PROVE  WillBe(k, u, text)'
      <4>1. j \in Edits(u)' /\ c2s'[j] = c2s[j] /\ j < k
        BY <1>3, <1>5
      <4>2. \A i \in Edits(u)' : i < k => i <= j
        BY <3>2, <3>6
      <4>. QED
        BY <3>6, <4>1, <4>2 DEF WillBe, Leaves
    <3>. QED
      BY <3>1, <3>5, <3>6 DEF WillBe
  <2>. QED
    BY <2>1, <2>2
<1>6. \A u \in Uris : WillBe(Len(c2s) + 1, u, buffer[u])'
  <2>1. Len(c2s') + 1 = n + 1
    BY <1>2, SendOne
  <2>. QED
    BY <1>5, <2>1
<1>7. ASSUME NEW k \in Unread', NEW r \in pending', r.id = c2s'[k].id, r.method = "codeAction"
      PROVE  WillBe(k, r.uri, r.text)'
  <2>1. CASE k \in Unread
    <3>1. c2s'[k] = c2s[k] /\ c2s[k].id <= sent /\ k \in Nat /\ k <= n
      BY <1>2, <2>1, SendOne
    <3>2. r \in pending
      BY <1>7, <2>1, <3>1, SendIds
    <3>3. WillBe(k, r.uri, r.text)
      BY <1>1, <1>7, <2>1, <3>1, <3>2 DEF TextsFollow
    <3>. QED
      BY <1>4, <3>1, <3>3
  <2>2. CASE k = n
    <3>1. c2s'[k].id = m.id /\ m.id # 0
      BY <1>2, <1>7, <2>2, SendOne
    <3>2. r.uri \in Uris /\ r.text = buffer[r.uri]
      BY <1>7, <3>1, SendIds
    <3>3. WillBe(n, r.uri, r.text)
      BY <1>1, <1>2, <3>2 DEF TextsFollow
    <3>. QED
      BY <1>3, <1>4, <2>2, <3>3
  <2>. QED
    BY <1>2, <1>7, <2>1, <2>2, SendOne
<1>. QED
  BY <1>6, <1>7 DEF TextsFollow

\* A message that is sent keeps the invariant.
LEMMA SendKeepsIInv ==
    ASSUME IInv, NEW m \in EditorMessages, Sends(m) PROVE IInv'
<1>1. /\ UNCHANGED <<shown, hangUp, s2c, srv, docs, cfgCache, shuttingDown, project>>
      /\ sent' = sent + 1 /\ sent < MaxSent /\ hangUp = "no" /\ MaxSent \in Nat
      /\ sent \in Nat
  BY LspAssumption DEF IInv, TypeOK, Sends, Send, serverVars
<1>2. PICK n : n = Len(c2s) + 1
  OBVIOUS
<1>3. PipesOK'
  BY <1>1, <1>2, SendOne DEF IInv, PipesOK, Sends
<1>4. pending' \subseteq PendingRequests
  BY DEF IInv, TypeOK, Sends, PendingRequests
<1>5. TypeOK'
  <2>1. \A x \in ToSet(c2s') : x.method \in Requests \cup Notifications
    <3>1. \A x \in ToSet(c2s') : x \in EditorMessages
      BY <1>3 DEF PipesOK, ToSet
    <3>. QED
      BY <3>1 DEF EditorMessages
  <2>2. sent' \in 0 .. MaxSent
    BY <1>1
  <2>. QED
    BY <1>1, <1>4, <2>1, <2>2 DEF IInv, TypeOK, PendingRequests, Sends
<1>6. IdsOK'
  <2>1. \A r \in pending' : r.id <= sent' /\ (r.method = "codeAction" => r.uri \in Uris)
    BY <1>1, SendIds
  <2>2. \A r, q \in pending' : r.id = q.id => r = q
    BY SendIds
  <2>3. \A k \in DOMAIN c2s' : c2s'[k].id <= sent'
    <3>1. \A k \in DOMAIN c2s : c2s[k].id <= sent /\ c2s[k].id \in Nat
      BY IdsAreNumbers DEF IInv, IdsOK
    <3>2. m.id <= sent'
      BY <1>1 DEF Sends
    <3>. QED
      BY <1>1, <1>2, <3>1, <3>2, SendOne
  <2>4. \A k \in Answers' : s2c'[k].id <= sent'
    <3>1. \A k \in Answers : s2c[k].id <= sent /\ s2c[k].id \in Nat
      BY IdsAreNumbers DEF IInv, IdsOK
    <3>. QED
      BY <1>1, <3>1 DEF Answers
  <2>5. ASSUME NEW k \in Unread', NEW r \in pending', r.id = c2s'[k].id
        PROVE  r.method = c2s'[k].method /\ r.uri = c2s'[k].uri /\ r.quickFix = c2s'[k].quickFix
    <3>1. CASE k \in Unread
      <4>1. c2s'[k] = c2s[k] /\ c2s[k].id <= sent
        BY <1>2, <3>1, SendOne
      <4>2. r \in pending
        BY <2>5, <4>1, SendIds
      <4>. QED
        BY <2>5, <3>1, <4>1, <4>2 DEF IInv, IdsOK
    <3>2. CASE k = n
      <4>1. c2s'[k] = m /\ m.id # 0
        BY <1>2, <2>5, <3>2, SendOne
      <4>. QED
        BY <2>5, <4>1, SendIds
    <3>. QED
      BY <1>2, <3>1, <3>2, SendOne
  <2>. QED
    BY <2>1, <2>2, <2>3, <2>4, <2>5 DEF IdsOK
<1>7. AnsweredInOrder'
  <2> SUFFICES ASSUME srv = "running" PROVE AnsweredInOrder'
    BY <1>1 DEF AnsweredInOrder
  <2>1. /\ {r.id : r \in pending} = {s2c[k].id : k \in Answers} \cup {c2s[k].id : k \in Unread}
        /\ \A j, k \in Answers : j < k => s2c[j].id < s2c[k].id
        /\ \A j, k \in Unread : j < k => c2s[j].id < c2s[k].id
        /\ \A j \in Answers, k \in Unread : s2c[j].id < c2s[k].id
    BY <1>1 DEF IInv, AnsweredInOrder
  <2>2. Answers' = Answers /\ s2c' = s2c
    BY <1>1 DEF Answers
  <2>3. /\ \A k \in Answers : s2c[k].id <= sent /\ s2c[k].id \in Nat
        /\ \A k \in Unread : c2s[k].id <= sent /\ c2s[k].id \in Nat
    BY IdsAreNumbers DEF IInv, IdsOK, Unread
  <2>4. m.id # 0 => m.id = sent + 1
    BY DEF Sends
  <2>5. {r.id : r \in pending'} = {r.id : r \in pending} \cup (IF m.id = 0 THEN {} ELSE {m.id})
    BY DEF Sends
  <2>6. {c2s'[k].id : k \in Unread'}
            = {c2s[k].id : k \in Unread} \cup (IF m.id = 0 THEN {} ELSE {m.id})
    BY <1>2, SendOne
  <2>7. ASSUME NEW j \in Unread', NEW k \in Unread', j < k PROVE c2s'[j].id < c2s'[k].id
    <3>1. j \in Unread
      BY <1>2, <2>7, SendOne
    <3>2. CASE k \in Unread
      BY <1>2, <2>1, <2>7, <3>1, <3>2, SendOne
    <3>3. CASE k = n
      <4>1. c2s'[k].id = sent + 1
        BY <1>2, <2>4, <2>7, <3>3, SendOne
      <4>2. c2s'[j] = c2s[j]
        BY <1>2, <3>1, SendOne
      <4>. QED
        BY <1>1, <2>3, <3>1, <4>1, <4>2
    <3>. QED
      BY <1>2, <3>2, <3>3, SendOne
  <2>8. ASSUME NEW j \in Answers, NEW k \in Unread' PROVE s2c[j].id < c2s'[k].id
    <3>1. CASE k \in Unread
      BY <1>2, <2>1, <3>1, SendOne
    <3>2. CASE k = n
      <4>1. c2s'[k].id = sent + 1
        BY <1>2, <2>4, <2>8, <3>2, SendOne
      <4>. QED
        BY <1>1, <2>3, <4>1
    <3>. QED
      BY <1>2, <3>1, <3>2, SendOne
  <2>. QED
    BY <2>1, <2>2, <2>5, <2>6, <2>7, <2>8 DEF AnsweredInOrder
<1>8. ASSUME NEW k \in Answers', NEW r \in pending', r.id = s2c'[k].id
      PROVE  k \in Answers /\ r \in pending /\ s2c'[k] = s2c[k]
  <2>1. k \in Answers /\ s2c'[k] = s2c[k] /\ s2c[k].id <= sent
    BY <1>1 DEF Answers, IInv, IdsOK
  <2>. QED
    BY <1>8, <2>1, SendIds
<1>9. ConfigsKnown'
  BY <1>1, <1>8 DEF IInv, ConfigsKnown, Known
<1>10. OffersFitRequest'
  <2>1. OffersFitRequest /\ \A u : ConfigSeen(u)' = ConfigSeen(u)
    BY <1>1 DEF IInv, ConfigSeen
  <2>. QED
    BY <1>1, <1>8, <2>1 DEF OffersFitRequest
<1>11. PublishedLast' /\ NilOnlyIfAgreed'
  BY <1>1 DEF IInv, PublishedLast, NilOnlyIfAgreed, ConfigSeen, WillShow, About
<1>. QED
  BY <1>3, <1>5, <1>6, <1>7, <1>9, <1>10, <1>11, SendKeepsTexts DEF IInv

\* The pipe to the editor without its first message.
LEMMA ShowOne ==
    ASSUME IInv, s2c # <<>>, s2c' = Tail(s2c)
    PROVE  /\ s2c' \in Seq(ServerMessages) /\ Head(s2c) = s2c[1] /\ s2c[1] \in ServerMessages
           /\ 1 \in DOMAIN s2c
           /\ \A k \in DOMAIN s2c' : k \in Nat \ {0} /\ k + 1 \in DOMAIN s2c /\ s2c'[k] = s2c[k + 1]
           /\ \A k \in DOMAIN s2c : k \in Nat \ {0}
           /\ \A k \in DOMAIN s2c : k # 1 => k - 1 \in DOMAIN s2c' /\ s2c'[k - 1] = s2c[k]
           /\ \A k \in Answers' : k \in Nat \ {0} /\ k + 1 \in Answers /\ s2c'[k] = s2c[k + 1]
           /\ \A k \in Answers : k # 1 => k - 1 \in Answers' /\ s2c'[k - 1] = s2c[k]
<1>1. s2c \in Seq(ServerMessages)
  BY DEF IInv, PipesOK
<1>2. /\ s2c' \in Seq(ServerMessages) /\ Head(s2c) = s2c[1] /\ s2c[1] \in ServerMessages
      /\ 1 \in DOMAIN s2c
      /\ \A k \in DOMAIN s2c' : k \in Nat \ {0} /\ k + 1 \in DOMAIN s2c /\ s2c'[k] = s2c[k + 1]
      /\ \A k \in DOMAIN s2c : k \in Nat \ {0}
      /\ \A k \in DOMAIN s2c : k # 1 => k - 1 \in DOMAIN s2c' /\ s2c'[k - 1] = s2c[k]
  BY <1>1, TailFacts
<1>. QED
  BY <1>2 DEF Answers

\* Reading a message does not change what the editor will show in the end.
LEMMA WillStillShow ==
    ASSUME IInv, ReadMessage, NEW u \in Uris, NEW d, WillShow(u, d)
    PROVE  WillShow(u, d)'
<1>1. s2c # <<>> /\ s2c' = Tail(s2c) /\ Head(s2c) = s2c[1] /\ s2c[1] \in ServerMessages
  BY ShowOne DEF ReadMessage
<1>2. /\ \A k \in About(u)' : k \in Nat \ {0} /\ k + 1 \in About(u) /\ s2c'[k] = s2c[k + 1]
      /\ \A k \in About(u) : k \in Nat \ {0}
      /\ \A k \in About(u) : k # 1 => k - 1 \in About(u)' /\ s2c'[k - 1] = s2c[k]
      /\ 1 \in About(u) <=> s2c[1].kind = "diagnostics" /\ s2c[1].uri = u
  BY <1>1, ShowOne DEF About
<1>3. shown'[u] = IF 1 \in About(u) THEN s2c[1].diags ELSE shown[u]
  BY <1>1, <1>2 DEF ReadMessage, IInv, TypeOK
<1>4. CASE About(u) = {} /\ shown[u] = d
  BY <1>2, <1>3, <1>4 DEF WillShow
<1>5. ASSUME NEW k \in About(u), s2c[k].diags = d, \A j \in About(u) : j <= k
      PROVE  WillShow(u, d)'
  <2>1. CASE k = 1
    <3>1. About(u)' = {}
      BY <1>2, <1>5, <2>1
    <3>. QED
      BY <1>3, <1>5, <2>1, <3>1 DEF WillShow
  <2>2. CASE k # 1
    <3>1. k - 1 \in About(u)' /\ s2c'[k - 1].diags = d
      BY <1>2, <1>5, <2>2
    <3>2. \A j \in About(u)' : j <= k - 1
      <4> SUFFICES ASSUME NEW j \in About(u)' PROVE j <= k - 1
        OBVIOUS
      <4>1. j \in Nat /\ k \in Nat /\ j + 1 <= k
        BY <1>2, <1>5
      <4>. QED
        BY <4>1
    <3>. QED
      BY <3>1, <3>2 DEF WillShow
  <2>. QED
    BY <2>1, <2>2
<1>. QED
  BY <1>4, <1>5 DEF WillShow

\* The editor takes the first message: the answer to its oldest request, or diagnostics.
LEMMA ReadKeepsIInv ==
    ASSUME IInv, ReadMessage PROVE IInv'
<1>1. /\ UNCHANGED <<buffer, sent, hangUp, c2s, srv, docs, cfgCache, shuttingDown, project>>
      /\ s2c # <<>> /\ s2c' = Tail(s2c) /\ Head(s2c) = s2c[1] /\ s2c[1] \in ServerMessages
      /\ pending' \subseteq pending
  BY ShowOne DEF ReadMessage, serverVars
<1>2. PipesOK'
  BY <1>1, ShowOne DEF IInv, PipesOK
<1>3. shown' \in [Uris -> Shown]
  BY <1>1 DEF ReadMessage, IInv, TypeOK, ServerMessages
<1>4. TypeOK'
  <2>1. \A x \in ToSet(s2c') : x.kind \in {"diagnostics", "response"}
    <3>1. \A x \in ToSet(s2c') : x \in ServerMessages
      BY <1>2 DEF PipesOK, ToSet
    <3>. QED
      BY <3>1 DEF ServerMessages
  <2>. QED
    BY <1>1, <1>3, <2>1 DEF IInv, TypeOK
<1>5. IdsOK'
  <2>1. \A k \in Answers' : s2c'[k].id <= sent
    BY <1>1, ShowOne DEF IInv, IdsOK
  <2>. QED
    BY <1>1, <2>1 DEF IInv, IdsOK, Unread
<1>6. TextsFollow'
  BY <1>1 DEF IInv, TextsFollow, Unread, WillBe, Edits
<1>7. ConfigsKnown' /\ OffersFitRequest'
  <2>1. ASSUME NEW k \in Answers', NEW r \in pending'
        PROVE  k + 1 \in Answers /\ s2c'[k] = s2c[k + 1] /\ r \in pending
    BY <1>1, <2>1, ShowOne
  <2>2. \A u : ConfigSeen(u)' = ConfigSeen(u) /\ Known(u)' = Known(u)
    BY <1>1 DEF ConfigSeen, Known
  <2>3. ConfigsKnown'
    BY <1>1, <2>1, <2>2 DEF IInv, ConfigsKnown
  <2>4. OffersFitRequest'
    BY <1>1, <2>1, <2>2 DEF IInv, OffersFitRequest
  <2>. QED
    BY <2>3, <2>4
<1>8. PublishedLast' /\ NilOnlyIfAgreed'
  BY <1>1, WillStillShow DEF IInv, PublishedLast, NilOnlyIfAgreed, ConfigSeen
<1>9. AnsweredInOrder'
  <2> SUFFICES ASSUME srv = "running", hangUp = "no" PROVE AnsweredInOrder'
    BY <1>1 DEF AnsweredInOrder
  <2>1. /\ {r.id : r \in pending} = {s2c[k].id : k \in Answers} \cup {c2s[k].id : k \in Unread}
        /\ \A j, k \in Answers : j < k => s2c[j].id < s2c[k].id
        /\ \A j, k \in Unread : j < k => c2s[j].id < c2s[k].id
        /\ \A j \in Answers, k \in Unread : s2c[j].id < c2s[k].id
    BY DEF IInv, AnsweredInOrder
  <2>2. c2s' = c2s /\ Unread' = Unread
    BY <1>1 DEF Unread
  <2>3. \A k \in Answers' : k \in Nat \ {0} /\ k + 1 \in Answers /\ s2c'[k] = s2c[k + 1]
    BY <1>1, ShowOne
  <2>4. \A j, k \in Answers' : j < k => s2c'[j].id < s2c'[k].id
    <3> SUFFICES ASSUME NEW j \in Answers', NEW k \in Answers', j < k
                 PROVE  s2c'[j].id < s2c'[k].id
      OBVIOUS
    <3>1. j + 1 < k + 1
      BY <2>3
    <3>. QED
      BY <2>1, <2>3, <3>1
  <2>5. \A j \in Answers', k \in Unread' : s2c'[j].id < c2s'[k].id
    BY <2>1, <2>2, <2>3
  <2>6. CASE s2c[1].kind = "diagnostics"
    <3>1. 1 \notin Answers /\ pending' = pending
      BY <1>1, <2>6 DEF Answers, ReadMessage
    <3>2. \A k \in Answers : k - 1 \in Answers' /\ s2c'[k - 1] = s2c[k]
      BY <1>1, <3>1, ShowOne
    <3>3. {s2c'[k].id : k \in Answers'} = {s2c[k].id : k \in Answers}
      BY <2>3, <3>2
    <3>. QED
      BY <2>1, <2>2, <2>4, <2>5, <3>1, <3>3 DEF AnsweredInOrder
  <2>7. CASE s2c[1].kind # "diagnostics"
    <3> DEFINE i == s2c[1].id
    <3>1. 1 \in Answers
      BY <1>1, <2>7, ShowOne DEF Answers, ServerMessages
    <3>2. pending' = {r \in pending : r.id # i}
      BY <1>1, <2>7 DEF ReadMessage
    <3>3. \A k \in Answers : k # 1 => k - 1 \in Answers' /\ s2c'[k - 1] = s2c[k]
      BY <1>1, ShowOne
    <3>4. \A k \in Answers : k \in Nat \ {0}
      BY <1>1, ShowOne DEF Answers
    <3>5. \A k \in Answers : s2c[k].id \in Nat
      BY IdsAreNumbers DEF IInv
    <3>6. \A k \in Answers : k # 1 => s2c[k].id # i
      BY <2>1, <3>1, <3>4, <3>5
    <3>7. \A k \in Unread : c2s[k].id # i
      BY <2>1, <3>1, <3>5
    <3>8. {s2c'[k].id : k \in Answers'} = {s2c[k].id : k \in Answers} \ {i}
      <4>1. ASSUME NEW k \in Answers' PROVE \E j \in Answers : s2c'[k].id = s2c[j].id /\ s2c[j].id # i
        <5>1. k + 1 # 1
          BY <2>3
        <5>. QED
          BY <2>3, <3>6, <5>1
      <4>2. ASSUME NEW k \in Answers, s2c[k].id # i PROVE \E j \in Answers' : s2c'[j].id = s2c[k].id
        <5>1. k # 1
          BY <4>2
        <5>. QED
          BY <3>3, <5>1
      <4>. QED
        BY <4>1, <4>2
    <3>9. {r.id : r \in pending'} = {r.id : r \in pending} \ {i}
      BY <3>2
    <3>10. {c2s[k].id : k \in Unread} = {c2s[k].id : k \in Unread} \ {i}
      BY <3>7
    <3>11. {r.id : r \in pending'} = {s2c'[k].id : k \in Answers'} \cup {c2s[k].id : k \in Unread}
      BY <2>1, <3>8, <3>9, <3>10
    <3>12. {r.id : r \in pending'} = {s2c'[k].id : k \in Answers'} \cup {c2s'[k].id : k \in Unread'}
      BY <2>2, <3>11
    <3>13. \A j, k \in Unread' : j < k => c2s'[j].id < c2s'[k].id
      BY <2>1, <2>2
    <3>. QED
      BY <2>4, <2>5, <3>12, <3>13 DEF AnsweredInOrder
  <2>. QED
    BY <2>6, <2>7
<1>. QED
  BY <1>2, <1>4, <1>5, <1>6, <1>7, <1>8, <1>9 DEF IInv

\* Once the editor is gone nothing is promised but how Serve ends.
LEMMA HangUpKeepsIInv ==
    ASSUME IInv, NEW how \in {"clean", "inHeader", "inBody"}, HangUp(how) PROVE IInv'
<1>1. /\ UNCHANGED <<buffer, shown, pending, sent, c2s, srv, docs, cfgCache, shuttingDown, project>>
      /\ hangUp = "no" /\ hangUp' = how /\ s2c' = <<>> /\ Answers' = {}
  BY DEF HangUp, serverVars, Answers
<1>2. TypeOK' /\ PipesOK' /\ IdsOK'
  <2>1. ToSet(s2c') = {} /\ s2c' \in Seq(ServerMessages)
    BY <1>1 DEF ToSet
  <2>2. TypeOK'
    BY <1>1, <2>1 DEF IInv, TypeOK
  <2>. QED
    BY <1>1, <2>1, <2>2 DEF IInv, PipesOK, IdsOK, Unread
<1>3. TextsFollow'
  BY <1>1 DEF IInv, TextsFollow, Unread, WillBe, Edits
<1>4. ConfigsKnown' /\ PublishedLast' /\ AnsweredInOrder' /\ OffersFitRequest' /\ NilOnlyIfAgreed'
  BY <1>1 DEF IInv, ConfigsKnown, Known, PublishedLast, AnsweredInOrder, OffersFitRequest,
              NilOnlyIfAgreed
<1>. QED
  BY <1>2, <1>3, <1>4 DEF IInv

\* The server never looks at pyproject.toml again, and the invariant does not either.
LEMMA ProjectKeepsIInv ==
    ASSUME IInv, project' \in [Dirs -> Configs],
           UNCHANGED <<buffer, shown, pending, sent, hangUp, c2s, s2c, srv, docs, cfgCache,
                       shuttingDown>>
    PROVE  IInv'
<1>1. TypeOK'
  BY DEF IInv, TypeOK
<1>2. TextsFollow'
  BY DEF IInv, TextsFollow, Unread, WillBe, Edits
<1>3. PipesOK' /\ IdsOK'
  BY DEF IInv, PipesOK, IdsOK, Unread, Answers
<1>4. /\ Answers' = Answers /\ Unread' = Unread
      /\ \A u : Known(u)' = Known(u) /\ ConfigSeen(u)' = ConfigSeen(u) /\ About(u)' = About(u)
  BY DEF Answers, Unread, Known, ConfigSeen, About
<1>5. ConfigsKnown' /\ OffersFitRequest'
  BY <1>4 DEF IInv, ConfigsKnown, OffersFitRequest
<1>6. PublishedLast'
  BY <1>4 DEF IInv, PublishedLast, WillShow
<1>7. AnsweredInOrder' /\ NilOnlyIfAgreed'
  BY <1>4 DEF IInv, AnsweredInOrder, NilOnlyIfAgreed
<1>. QED
  BY <1>1, <1>2, <1>3, <1>5, <1>6, <1>7 DEF IInv

-----------------------------------------------------------------------------
(* The theorems.                                                           *)

\* Nothing is on the way at the start, and all documents are closed.
LEMMA InitIInv ==
    ASSUME Init PROVE IInv
<1>1. /\ buffer = [u \in Uris |-> Closed] /\ shown = [u \in Uris |-> <<>>] /\ pending = {}
      /\ sent = 0 /\ hangUp = "no" /\ c2s = <<>> /\ s2c = <<>> /\ srv = "running"
      /\ docs = [u \in Uris |-> Closed] /\ cfgCache = [d \in Dirs |-> Nothing]
      /\ shuttingDown = FALSE /\ project \in [Dirs -> Configs]
  BY DEF Init
<1>2. /\ Answers = {} /\ Unread = {} /\ \A u : About(u) = {} /\ Edits(u) = {}
      /\ DOMAIN c2s = {} /\ ToSet(c2s) = {} /\ ToSet(s2c) = {} /\ Len(c2s) = 0
  BY <1>1 DEF Answers, Unread, About, Edits, ToSet
<1>3. TypeOK
  <2>1. 0 \in 0 .. MaxSent /\ <<>> \in Shown
    BY LspAssumption DEF Shown
  <2>. QED
    BY <1>1, <1>2, <2>1 DEF TypeOK
<1>4. PipesOK /\ IdsOK
  BY <1>1, <1>2 DEF PipesOK, IdsOK
<1>5. TextsFollow
  BY <1>1, <1>2 DEF TextsFollow, WillBe
<1>6. ConfigsKnown /\ PublishedLast
  BY <1>1, <1>2 DEF ConfigsKnown, PublishedLast, WillShow
<1>7. AnsweredInOrder /\ OffersFitRequest /\ NilOnlyIfAgreed
  BY <1>1, <1>2 DEF AnsweredInOrder, OffersFitRequest, NilOnlyIfAgreed
<1>. QED
  BY <1>3, <1>4, <1>5, <1>6, <1>7 DEF IInv

\* Every step of the server, of the editor and of a project file keeps the invariant.
LEMMA NextIInv ==
    ASSUME IInv, [Next]_vars PROVE IInv'
<1>1. CASE Server
  BY <1>1, ServerNextIInv
<1>2. CASE Editor
  BY <1>2, EditorSteps, SendKeepsIInv, ReadKeepsIInv, HangUpKeepsIInv
<1>3. CASE \E d \in Dirs, c \in Configs : EditProject(d, c)
  BY <1>3, ProjectKeepsIInv DEF IInv, TypeOK, EditProject, editorVars, serverVars
<1>4. CASE UNCHANGED vars
  BY <1>4, ProjectKeepsIInv DEF IInv, TypeOK, vars, editorVars, serverVars
<1>. QED
  BY <1>1, <1>2, <1>3, <1>4 DEF Next

\* When nothing about u is on the way, what the server has of u is the buffer, and what
\* it published of u last is the lint of that.
LEMMA IInvFollows ==
    ASSUME IInv PROVE DiagnosticsFollowBuffer
<1> SUFFICES ASSUME srv = "running", hangUp = "no", ~shuttingDown, NEW u \in Uris,
                    \A m \in ToSet(c2s) : m.uri # u
             PROVE  Published(u) = Expected(u)
  BY DEF DiagnosticsFollowBuffer
<1>1. Edits(u) = {}
  BY DEF Edits, IsEdit, ToSet
<1>2. docs[u] = buffer[u]
  BY <1>1 DEF IInv, TextsFollow, WillBe
<1>3. WillShow(u, Expected(u))
  BY <1>2 DEF IInv, PublishedLast, Expected
<1>4. CASE About(u) = {}
  BY <1>3, <1>4 DEF WillShow, Published
<1>5. ASSUME NEW k \in About(u), s2c[k].diags = Expected(u), \A j \in About(u) : j <= k
      PROVE  Published(u) = Expected(u)
  <2>1. About(u) \in SUBSET Nat
    BY DEF About, IInv, PipesOK
  <2>2. Max(About(u)) = k
    BY <1>5, <2>1, MaxIs
  <2>. QED
    BY <1>5, <2>2 DEF Published
<1>. QED
  BY <1>3, <1>4, <1>5 DEF WillShow

\* The invariant holds in every state of every behaviour.
LEMMA AlwaysIInv == Spec => []IInv
  BY InitIInv, NextIInv, PTL DEF Spec

(***************************************************************************)
(* Every variable of the server and the editor stays in its type, and      *)
(* every message in the pipes is one the other side knows.                 *)
(***************************************************************************)
THEOREM TypeCorrect == Spec => []TypeOK
<1>1. IInv => TypeOK
  BY DEF IInv
<1>. QED
  BY <1>1, AlwaysIInv, PTL

(***************************************************************************)
(* No stale squiggles: when the server has read all about a document, what *)
(* it published last are the diagnostics of the buffer, for any number of  *)
(* documents, messages on the way and edits of pyproject.toml.             *)
(***************************************************************************)
THEOREM DiagnosticsAlwaysFollow == Spec => []DiagnosticsFollowBuffer
  BY IInvFollows, AlwaysIInv, PTL

(***************************************************************************)
(* Every request is answered once and in the order sent, also after        *)
(* shutdown.                                                               *)
(***************************************************************************)
THEOREM RequestsAreAnsweredInOrder == Spec => []AnsweredInOrder
<1>1. IInv => AnsweredInOrder
  BY DEF IInv
<1>. QED
  BY <1>1, AlwaysIInv, PTL

(***************************************************************************)
(* An offered fix was computed from the buffer the editor asked about,     *)
(* however many messages have overtaken it, and a fix is withheld only     *)
(* when there is none.                                                     *)
(***************************************************************************)
THEOREM OffersAlwaysFit == Spec => []OffersFitRequest
<1>1. IInv => OffersFitRequest
  BY DEF IInv
<1>. QED
  BY <1>1, AlwaysIInv, PTL

(***************************************************************************)
(* Serve returns nil only after a shutdown or when the editor hung up      *)
(* between two frames or in a header.                                      *)
(***************************************************************************)
THEOREM NilIsAgreed == Spec => []NilOnlyIfAgreed
<1>1. IInv => NilOnlyIfAgreed
  BY DEF IInv
<1>. QED
  BY <1>1, AlwaysIInv, PTL
=============================================================================
