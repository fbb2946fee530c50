\* Changes are added at three revisions while they are taken up to a bound.
SPECIFICATION Spec
CONSTANTS
  Rels = {r1, r2}
  Namespaces = {n1}
  Caveats = {c1}
  Metadatas = {m1}
  Size <- Sizes
  MaxByteSize = 8
  Contents <- SomeContents
  Width = 8
  Offset = 5
  Decimals <- SomeDecimals
  Bounds <- SomeBounds
  MaxAdds = 4
INVARIANTS TypeOK LimitHolds
PROPERTIES TakesAtOnce
CHECK_DEADLOCK FALSE
