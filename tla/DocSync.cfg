SPECIFICATION Spec
CONSTANTS
  Docs = {"file"}
  Kinds = {"None", "Full", "Incremental"}
  Letters = {"x"}
  MaxText = 2
  MaxVersion = 2
  MaxWire = 3
INVARIANTS TypeOK InStep OpenedOnce
PROPERTY VersionsRise
