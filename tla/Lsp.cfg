\* Two documents of one directory and an untitled one; an editor that runs ahead of the
\* server, edits pyproject.toml meanwhile, and shuts down, exits or hangs up at any time.
SPECIFICATION Spec
CONSTANTS
    u1 = u1
    u2 = u2
    u3 = u3
    d1 = d1
    good = good
    bad = bad
    zero = zero
    strict = strict
    Uris = {u1, u2, u3}
    Dirs = {d1}
    DirOf <- MCDirOf
    Texts = {good, bad}
    Unparsable = {bad}
    Configs = {zero, strict}
    ZeroConfig = zero
    Fixable <- MCFixable
    MaxSent = 3
    Closed = Closed
    Error = Error
    Nothing = Nothing
INVARIANTS TypeOK DiagnosticsFollowBuffer AnsweredInOrder OffersFitRequest NilOnlyIfAgreed
PROPERTY ServerStops
