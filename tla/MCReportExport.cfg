CONSTANTS
  Exporter = {p1, p2}
  Filename = {f1}
  Bytes = {b1, b2}
  Nothing = Nothing
  MaxRulings = 2
  Mortal = {p2}
SPECIFICATION FairExportSpec
CHECK_DEADLOCK FALSE
INVARIANT ManifestNamesApproval
INVARIANT CompletedHasArtifact
PROPERTY RenderingEnds
