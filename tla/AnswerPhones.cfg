\* Two answers and two phones, one of which may stop reading or be unregistered.
SPECIFICATION PhonesSpec
CONSTANTS
  MaxMsg = 2
  Tricky = {}
  Malformed = {}
  Client = {c1, c2}
  MaxPieces = 0
  Fickle = {c1}
PROPERTIES AnswersGoThrough OthersServed
