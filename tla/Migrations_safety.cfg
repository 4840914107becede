SPECIFICATION Spec
CONSTANTS
  Runners = {a, b, c}
  OldRunners = {c}
  OldVersion = 2
  NumFiles = 3
  Version <- MCVersion
  Rerunnable = {2}
  MaxFaults = 2
INVARIANTS IndInv ExactlyOnce InOrder ServesMigrated
PROPERTIES SchemaCompleted ImplementsHistory
