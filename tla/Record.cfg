\* Files: two that are both results, one of which people change, two contents, and
\* two clients: what one does to the files while the other, the worker or people
\* use them.  Figures: two formats, byte counts of three bits.
CONSTANTS
  c1 = c1
  c2 = c2
  Names = {1, 2}
  Results = {1, 2}
  Clients = {c1, c2}
  MaxWrites = 2
  Meddled = {1}
  f1 = f1
  f2 = f2
  Formats = {f1, f2}
  MaxInt = 3

SPECIFICATION RecordSpec
SYMMETRY Symmetry

INVARIANTS
  LinksAreLive
  SentIsListed
  NoEarlyHundred
  FinishedBytesCounted
  EndedShowsEnd

PROPERTIES
  PreviewedOnly

CHECK_DEADLOCK FALSE
