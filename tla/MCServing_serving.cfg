SPECIFICATION FairSpec
CONSTANTS
  Conns = {a, b}
  Sites <- MixedSites
  MaxStatements = 2
INVARIANTS TypeOK ResourcesReturned ProbesTruthful
PROPERTIES RefinesGraceful DrainEnds
