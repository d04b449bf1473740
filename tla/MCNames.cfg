SPECIFICATION Spec
CONSTANTS
  Name = {n1, n2}
  Base = 4
  NumberBytes = 3
  EqualSign = 1
  Letter <- Letters
  Delimiter <- Delimiters
  NewSegment <- Segments
  Suffix <- Strings
  Number <- Numbers
  Text <- Texts
  MaxSegments = 2
  MaxBuffers = 3
  None = None
INVARIANTS OrderCoherent TextRoundTrips CopiesShareNothing
VIEW NamesView
SYMMETRY NameSymmetry
CHECK_DEADLOCK FALSE
