\* Programs of up to three scopes with up to two occurrences of an imported name.
SPECIFICATION Spec
CONSTANTS
    MaxScopes = 3
    MaxEvents = 2
INVARIANT ReportedImportIsUnread
CHECK_DEADLOCK FALSE
