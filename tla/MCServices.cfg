SPECIFICATION Spec
CONSTANTS
  p1 = p1  p2 = p2  k1 = k1  m1 = m1  m2 = m2  n1 = n1  n2 = n2
  f1 = f1  f2 = f2  f3 = f3  r1 = r1  r2 = r2  r3 = r3
  Ids = {p1, p2}
  TypeOf <- MCTypeOf
  Keys = {k1}
  Masters = {m1, m2}
  Names = {n1, n2}
  MaxModels = 3
  MaxEdits = 3
  MaxStarts = 2
  Files = {f1, f2, f3}
  Requests = {r1, r2, r3}
  LimitOf <- MCLimitOf
  Window = 2
  MaxTime = 3
  InFlight = 2
  Letters = {"-", "f", "?", ".", "c3", "b1"}
  Lead = "c3"
  Cont = "b1"
  Marker <- MCMarker
  Indexes = {1, 2}
  MaxText = 4
  MaxLine = 2
  MaxStreams = 2
  MaxPieces = 2
  MaxMoves = 2
  Answers <- MCAnswers
  Repaired <- MCRepaired
  ImportOf <- MCImportOf
SYMMETRY Symmetry
\* The bounds stop each part.
CHECK_DEADLOCK FALSE
INVARIANTS
  SyncMirrorsProvider
  FilesMatchRows
  
  
  
  StoredSiteIsWhole

  
