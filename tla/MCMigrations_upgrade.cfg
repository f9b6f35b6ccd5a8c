\* Two overlapping commands and a server, three migrations.
CONSTANTS
    r1 = r1
    r2 = r2
    s1 = s1
    NoRunner = NoRunner
    Runners = {r1, r2}
    Servers = {s1}
    Latest = 3
    Built <- SameBinary
SPECIFICATION FairSpec
INVARIANTS TypeOK HistoryIntact ScriptFitsSchema
PROPERTIES ServedSchemaComplete HighestRolledBack Ends
