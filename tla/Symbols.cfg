\* Every program of up to four scopes with up to three occurrences of the name.
SPECIFICATION Spec
CONSTANTS
    MaxScopes = 4
    MaxEvents = 3
INVARIANTS TypeOK MirrorsButRelays UndefinedIsUnbound UnreadImportIsReported
CHECK_DEADLOCK FALSE
