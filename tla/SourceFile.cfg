\* Files of up to four lines for the scanners; every statement, expression and pattern with
\* every other one inside it for the parsers; small files with something to fix.
SPECIFICATION SpecFile
CONSTANTS
    Sources <- MCSources
    Files <- MCFiles
    Inputs <- MCInputs
INVARIANTS TypeOKFile LayersAgree BlocksWellFormed NoTokenLost
    RoundTripsButLost FrontEndsAgree WrittenIsShared
    FixKeepsMeaning FixedFileStands FixAddsNothing ReportedLocalIsUnread
