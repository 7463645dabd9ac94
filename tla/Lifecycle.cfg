\* One build, the one after it, and two goroutines of the relay.
CONSTANTS
  Workers = {w1, w2}
  Cleaner = w1
  Builds = {1, 2}
  SchemaStatements = 3
SPECIFICATION FairSpec
INVARIANTS
  TypeOK
  ServesKnownSchema
  ServedFileLasts
PROPERTIES
  PanicsOnlyInShutdown
  SignalEndsIt
