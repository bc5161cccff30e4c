\* Three answers of an application, the second with "idx" in its payload, the third
\* malformed, and a phone whose replies may come in pieces.
SPECIFICATION Spec
CONSTANTS
  MaxMsg = 3
  Tricky = {2}
  Malformed = {3}
  Client = {c1}
  MaxPieces = 1
INVARIANTS TypeOK EachOnceInOrder LostOnlyIfCut Paced
PROPERTIES Gapless
CHECK_DEADLOCK FALSE
