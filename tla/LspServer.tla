------------------------------ MODULE LspServer ------------------------------
(***************************************************************************)
(* `gopapy lsp`: the language server of lsp/server.go and the editor it    *)
(* talks to, over the two pipes between them.                              *)
(*                                                                         *)
(* The server is one loop that reads a frame, runs its handler to the end  *)
(* and writes what the handler answers or publishes, so a handler is one   *)
(* action.  The editor sends what it likes at any time and reads what it   *)
(* is sent later; in between, both pipes hold messages about buffers that  *)
(* have changed since.  pyproject.toml may be edited meanwhile, and the    *)
(* editor may hang up, also in the middle of a frame.                      *)
(*                                                                         *)
(* The lint of a text is the text paired with the configuration, or Error  *)
(* when it does not parse.                                                 *)
(***************************************************************************)
EXTENDS Naturals, Sequences, SequencesExt

CONSTANTS
    Uris,        \* documents
    Dirs,        \* directories
    DirOf,       \* DirOf[u]: directory of u, or Nothing if u is no file URI
    Texts,       \* what a buffer may contain
    Unparsable,  \* the texts that do not parse
    Configs,     \* lint configurations
    ZeroConfig,  \* that of a directory without a usable pyproject.toml
    Fixable,     \* the <<text, config>> in which the fixer changes something
    MaxSent,     \* bound: messages the editor sends
    Closed,      \* no buffer, no document
    Error,       \* the diagnostic of a text that does not parse
    Nothing      \* no directory, no configuration yet

ASSUME LspAssumption ==
    /\ DirOf \in [Uris -> Dirs \cup {Nothing}]
    /\ Unparsable \subseteq Texts
    /\ ZeroConfig \in Configs
    /\ Fixable \subseteq (Texts \ Unparsable) \X Configs
    /\ MaxSent \in Nat
    /\ Closed \notin Texts /\ Nothing \notin Uris \cup Configs

VARIABLES
    \* the editor
    buffer,     \* buffer[u]: what the user sees, or Closed
    shown,      \* shown[u]: the diagnostics it shows for u, <<>> if none
    pending,    \* the requests it has no answer to
    sent,       \* how many messages it has sent
    hangUp,     \* "no", or how it hung up: "clean", "inHeader", "inBody"
    \* the pipes
    c2s, s2c,
    \* the server
    srv,        \* "running", or how Serve returned: "nil", "error"
    docs,       \* docs[u]: content of the document store
    cfgCache,   \* cfgCache[d]: configuration known for d, or Nothing
    shuttingDown,
    \* the file system
    project     \* project[d]: what DiscoverConfig finds for d

editorVars == <<buffer, shown, pending, sent, hangUp>>
serverVars == <<srv, docs, cfgCache, shuttingDown>>
vars == <<editorVars, c2s, s2c, serverVars, project>>

Requests == {"initialize", "shutdown", "codeAction", "unknown"}
Notifications == {"didOpen", "didChange", "didClose", "exit", "ignored", "malformed"}

\* Messages of the editor; id 0 is that of a notification.
Message(method, id, u, texts, quickFix) ==
    [method |-> method, id |-> id, uri |-> u, texts |-> texts, quickFix |-> quickFix]

\* What linter.LintFileWithConfig makes of a text, as it is published.
Lint(text, c) == IF text \in Unparsable THEN <<Error>> ELSE <<text, c>>
Shown == {<<>>, <<Error>>} \cup (Texts \X Configs)

\* Messages of the server.
Publish(u, diags) == [kind |-> "diagnostics", uri |-> u, diags |-> diags]
Answer(id, result) == [kind |-> "response", id |-> id, result |-> result]

TypeOK ==
    /\ buffer \in [Uris -> Texts \cup {Closed}]
    /\ shown \in [Uris -> Shown]
    /\ pending \subseteq [id : 1 .. MaxSent, method : Requests, uri : Uris \cup {Nothing},
                          text : Texts \cup {Closed}, quickFix : BOOLEAN]
    /\ sent \in 0 .. MaxSent
    /\ hangUp \in {"no", "clean", "inHeader", "inBody"}
    /\ \A m \in ToSet(c2s) : m.method \in Requests \cup Notifications
    /\ \A m \in ToSet(s2c) : m.kind \in {"diagnostics", "response"}
    /\ srv \in {"running", "nil", "error"}
    /\ docs \in [Uris -> Texts \cup {Closed}]
    /\ cfgCache \in [Dirs -> Configs \cup {Nothing}]
    /\ shuttingDown \in BOOLEAN
    /\ project \in [Dirs -> Configs]

Init ==
    /\ buffer = [u \in Uris |-> Closed]
    /\ shown = [u \in Uris |-> <<>>]
    /\ pending = {}
    /\ sent = 0
    /\ hangUp = "no"
    /\ c2s = <<>> /\ s2c = <<>>
    /\ srv = "running"
    /\ docs = [u \in Uris |-> Closed]
    /\ cfgCache = [d \in Dirs |-> Nothing]
    /\ shuttingDown = FALSE
    /\ project \in [Dirs -> Configs]

-----------------------------------------------------------------------------
(* The editor, and whoever edits pyproject.toml.                           *)

Send(m) ==
    /\ sent < MaxSent /\ hangUp = "no"
    /\ c2s' = Append(c2s, m)
    /\ sent' = sent + 1
    /\ UNCHANGED <<shown, hangUp, s2c, serverVars, project>>

Notify(method, u, texts) == Send(Message(method, 0, u, texts, FALSE))

Open(u, text) ==
    /\ buffer[u] = Closed
    /\ buffer' = [buffer EXCEPT ![u] = text]
    /\ Notify("didOpen", u, <<text>>)
    /\ UNCHANGED pending

\* One didChange may carry several versions of the buffer, or none at all.
Change(u, texts) ==
    /\ buffer[u] # Closed
    /\ buffer' = IF texts = <<>> THEN buffer
                                 ELSE [buffer EXCEPT ![u] = Last(texts)]
    /\ Notify("didChange", u, texts)
    /\ UNCHANGED pending

Close(u) ==
    /\ buffer[u] # Closed
    /\ buffer' = [buffer EXCEPT ![u] = Closed]
    /\ Notify("didClose", u, <<>>)
    /\ UNCHANGED pending

\* "exit", a notification the server ignores, or a frame that is no JSON.
Say(method) ==
    /\ method \in {"exit", "ignored", "malformed"}
    /\ Notify(method, Nothing, <<>>)
    /\ UNCHANGED <<buffer, pending>>

\* With a request the editor remembers the buffer it was asked about.
Request(method, u, quickFix) ==
    /\ Send(Message(method, sent + 1, u, <<>>, quickFix))
    /\ pending' = pending \cup {[id |-> sent + 1, method |-> method, uri |-> u,
                                text |-> IF u \in Uris THEN buffer[u] ELSE Closed,
                                quickFix |-> quickFix]}
    /\ UNCHANGED buffer

ReadMessage ==
    /\ s2c # <<>>
    /\ s2c' = Tail(s2c)
    /\ IF Head(s2c).kind = "diagnostics"
       THEN /\ shown' = [shown EXCEPT ![Head(s2c).uri] = Head(s2c).diags]
            /\ UNCHANGED pending
       ELSE /\ pending' = {r \in pending : r.id # Head(s2c).id}
            /\ UNCHANGED shown
    /\ UNCHANGED <<buffer, sent, hangUp, c2s, serverVars, project>>

\* The editor dies: nothing it is sent is read any more.
HangUp(how) ==
    /\ hangUp = "no"
    /\ hangUp' = how
    /\ s2c' = <<>>
    /\ UNCHANGED <<buffer, shown, pending, sent, c2s, serverVars, project>>

EditProject(d, c) ==
    /\ project' = [project EXCEPT ![d] = c]
    /\ UNCHANGED <<editorVars, c2s, s2c, serverVars>>

-----------------------------------------------------------------------------
(* The server.                                                             *)

\* readFrame and dispatch: the next message, and its handler.
Reads(methods) ==
    /\ srv = "running"
    /\ c2s # <<>>
    /\ Head(c2s).method \in methods
    /\ c2s' = Tail(c2s)

Handles(methods) == Reads(methods) /\ ~shuttingDown

\* writeFrame: once the editor is gone a write is lost, or fails and ends Serve.
Write(m) ==
    IF hangUp = "no"
    THEN s2c' = Append(s2c, m) /\ UNCHANGED srv
    ELSE srv' \in {"running", "error"} /\ UNCHANGED s2c

\* respondError does not look at the error of writeFrame.
RespondError(m) ==
    /\ s2c' = IF hangUp = "no" THEN Append(s2c, m) ELSE s2c
    /\ UNCHANGED srv

LookUpAgain(u) == \* mutant: cfgKnown is never set
    IF DirOf[u] = Nothing THEN ZeroConfig ELSE project[DirOf[u]]
ConfigFor(u) ==
    IF DirOf[u] = Nothing THEN ZeroConfig
    ELSE IF cfgCache[DirOf[u]] # Nothing THEN cfgCache[DirOf[u]]
    ELSE project[DirOf[u]]

RememberConfig(u) ==
    cfgCache' = IF DirOf[u] = Nothing THEN cfgCache
                ELSE [cfgCache EXCEPT ![DirOf[u]] = ConfigFor(u)]

StoreAndLint(u, text) ==
    /\ docs' = [docs EXCEPT ![u] = text]
    /\ RememberConfig(u)
    /\ Write(Publish(u, Lint(text, ConfigFor(u))))

HandleDidOpen ==
    /\ Handles({"didOpen"})
    /\ StoreAndLint(Head(c2s).uri, Head(c2s).texts[1])
    /\ UNCHANGED <<shuttingDown, editorVars, project>>

FirstChange(texts) == Head(texts) \* mutant: contentChanges[0]
NewText(texts) == Last(texts)

HandleDidChange ==
    /\ Handles({"didChange"})
    /\ IF Head(c2s).texts = <<>>
       THEN UNCHANGED <<srv, docs, cfgCache, s2c>>
       ELSE StoreAndLint(Head(c2s).uri, NewText(Head(c2s).texts))
    /\ UNCHANGED <<shuttingDown, editorVars, project>>

Emptied == Nothing \* mutant: the entry is set to nil and not deleted
Dropped == Closed

HandleDidClose ==
    /\ Handles({"didClose"})
    /\ docs' = [docs EXCEPT ![Head(c2s).uri] = Dropped]
    /\ Write(Publish(Head(c2s).uri, <<>>))
    /\ UNCHANGED <<cfgCache, shuttingDown, editorVars, project>>

\* The edit that puts the fixed text in place of the whole buffer, or nothing.
Offer(text, c) ==
    IF <<text, c>> \in Fixable THEN <<"fix all", text, c>> ELSE <<>>

HandleCodeAction ==
    /\ Handles({"codeAction"})
    /\ LET m == Head(c2s)
           serves == m.quickFix /\ docs[m.uri] # Closed
       IN  /\ IF serves THEN RememberConfig(m.uri) ELSE UNCHANGED cfgCache
           /\ Write(Answer(m.id, IF serves THEN Offer(docs[m.uri], ConfigFor(m.uri))
                                           ELSE <<>>))
    /\ UNCHANGED <<docs, shuttingDown, editorVars, project>>

HandleInitialize ==
    /\ Handles({"initialize"})
    /\ Write(Answer(Head(c2s).id, "capabilities"))
    /\ UNCHANGED <<docs, cfgCache, shuttingDown, editorVars, project>>

HandleShutdown ==
    /\ Handles({"shutdown"})
    /\ shuttingDown' = TRUE
    /\ Write(Answer(Head(c2s).id, "null"))
    /\ UNCHANGED <<docs, cfgCache, editorVars, project>>

HandleUnknown ==
    /\ Handles({"unknown"})
    /\ RespondError(Answer(Head(c2s).id, "method not found"))
    /\ UNCHANGED <<docs, cfgCache, shuttingDown, editorVars, project>>

IgnoreNotification ==
    /\ Handles({"ignored"})
    /\ UNCHANGED <<s2c, serverVars, editorVars, project>>

\* After shutdown requests are refused and notifications other than exit ignored.
IgnoreLate(m) == UNCHANGED <<s2c, srv>> \* mutant: requests are ignored as well
Refuse(m) ==
    IF m.id # 0 THEN RespondError(Answer(m.id, "invalid request"))
                ELSE UNCHANGED <<s2c, srv>>

RefuseLate ==
    /\ Reads((Requests \cup Notifications) \ {"exit", "malformed"})
    /\ shuttingDown
    /\ Refuse(Head(c2s))
    /\ UNCHANGED <<docs, cfgCache, shuttingDown, editorVars, project>>

ExitCodeZero == "nil" \* mutant: exit is a clean end in any case
ExitOutcome == IF shuttingDown THEN "nil" ELSE "error"

Exit ==
    /\ Reads({"exit"})
    /\ srv' = ExitOutcome
    /\ UNCHANGED <<s2c, docs, cfgCache, shuttingDown, editorVars, project>>

\* A frame that cannot be decoded is fatal.
FailMalformed ==
    /\ Reads({"malformed"})
    /\ srv' = "error"
    /\ UNCHANGED <<s2c, docs, cfgCache, shuttingDown, editorVars, project>>

\* io.EOF ends Serve without an error; a body cut short is io.ErrUnexpectedEOF.
RetryEOF == "running" \* mutant: the loop goes on after EOF
EOFOutcome == IF hangUp = "inBody" THEN "error" ELSE "nil"

ReadEOF ==
    /\ srv = "running"
    /\ c2s = <<>> /\ hangUp # "no"
    /\ srv' = EOFOutcome
    /\ UNCHANGED <<c2s, s2c, docs, cfgCache, shuttingDown, editorVars, project>>

Server ==
    \/ HandleDidOpen \/ HandleDidChange \/ HandleDidClose \/ HandleCodeAction
    \/ HandleInitialize \/ HandleShutdown \/ HandleUnknown \/ IgnoreNotification
    \/ RefuseLate \/ Exit \/ FailMalformed \/ ReadEOF

Editor ==
    \/ \E u \in Uris :
        \/ \E text \in Texts : Open(u, text) \/ Change(u, <<text>>)
        \/ \E text, text2 \in Texts : Change(u, <<text, text2>>)
        \/ Change(u, <<>>)
        \/ Close(u)
        \/ \E quickFix \in BOOLEAN : Request("codeAction", u, quickFix)
    \/ \E method \in {"exit", "ignored", "malformed"} : Say(method)
    \/ \E method \in Requests \ {"codeAction"} : Request(method, Nothing, FALSE)
    \/ ReadMessage
    \/ \E how \in {"clean", "inHeader", "inBody"} : HangUp(how)

Next ==
    \/ Server
    \/ Editor
    \/ \E d \in Dirs, c \in Configs : EditProject(d, c)

\* The loop of Serve does not stop by itself; the editor may do nothing.
Spec == Init /\ [][Next]_vars /\ WF_vars(Server)

-----------------------------------------------------------------------------

\* The diagnostics of u that the server has published last.
About(u) == {k \in DOMAIN s2c : s2c[k].kind = "diagnostics" /\ s2c[k].uri = u}
Published(u) == IF About(u) = {} THEN shown[u] ELSE s2c[Max(About(u))].diags

(***************************************************************************)
(* No stale squiggles: when the server has read all the editor sent about  *)
(* a document, the diagnostics it published last are those of the buffer   *)
(* as the user sees it, and none for a closed document; and all documents  *)
(* of a directory are judged by one configuration, whatever happens to     *)
(* pyproject.toml in between.                                              *)
(***************************************************************************)
ConfigSeen(u) == IF DirOf[u] = Nothing THEN ZeroConfig ELSE cfgCache[DirOf[u]]
Expected(u) == IF buffer[u] = Closed THEN <<>> ELSE Lint(buffer[u], ConfigSeen(u))

DiagnosticsFollowBuffer ==
    srv = "running" /\ hangUp = "no" /\ ~shuttingDown =>
        \A u \in Uris :
            (\A m \in ToSet(c2s) : m.uri # u) => Published(u) = Expected(u)

(***************************************************************************)
(* Every request is answered, once and in the order sent, also those that  *)
(* come after shutdown: the requests an editor waits for are those whose   *)
(* answers are on the way and those the server has not read.               *)
(***************************************************************************)
Answers == {k \in DOMAIN s2c : s2c[k].kind = "response"}
Unread == {k \in DOMAIN c2s : c2s[k].id # 0}

AnsweredInOrder ==
    srv = "running" /\ hangUp = "no" =>
        /\ {r.id : r \in pending} = {s2c[k].id : k \in Answers} \cup {c2s[k].id : k \in Unread}
        /\ \A j, k \in Answers : j < k => s2c[j].id < s2c[k].id
        /\ \A j, k \in Unread : j < k => c2s[j].id < c2s[k].id
        /\ \A j \in Answers, k \in Unread : s2c[j].id < c2s[k].id

(***************************************************************************)
(* A fix that is offered was computed from the buffer as it was when the   *)
(* editor asked, under the configuration of the document's directory; it   *)
(* is offered only when it changes something ("never offer an action that  *)
(* wouldn't actually do something") and never withheld otherwise.          *)
(***************************************************************************)
OffersFitRequest ==
    hangUp = "no" =>
        \A k \in Answers, r \in pending :
            /\ r.id = s2c[k].id
            /\ r.method = "codeAction" /\ s2c[k].result # "invalid request"
            => s2c[k].result = IF r.quickFix /\ r.text # Closed
                               THEN Offer(r.text, ConfigSeen(r.uri)) ELSE <<>>

(***************************************************************************)
(* Serve "returns nil on a clean shutdown (shutdown + exit, in order)" and *)
(* when the editor hung up, and a non-nil error on an exit without it.     *)
(***************************************************************************)
NilOnlyIfAgreed == srv = "nil" => shuttingDown \/ hangUp \in {"clean", "inHeader"}

\* An editor that says exit, or hangs up, is rid of the server: Serve returns.
ServerStops ==
    (hangUp # "no" \/ \E m \in ToSet(c2s) : m.method = "exit") ~> srv # "running"
=============================================================================
