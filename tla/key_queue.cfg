SPECIFICATION Spec
CONSTANTS
  KEY_QUEUE_LEN = 3
  KEYDOWN_MASK = 4
  keymap <- MCkeymap
  Scancodes = {0, 4, 261}
  MaxEvents = 4
INVARIANT KeysInOrder
PROPERTIES ImplementsFifo KeysArrive
