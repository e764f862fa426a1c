SPECIFICATION Spec
CONSTANTS
  SB_SIZE = 3
  Lens = {1, 2, 3}
  StreamLens = {1, 2}
  MaxSample = 5
INVARIANTS WritesBehindTheRest FirstPlaysInOrder
PROPERTY EverySamplePlayed
