\* A screen of four columns and two rows, chunks of three characters.
CONSTANTS
  WIDTH = 4
  HEIGHT = 2
  TAB_WIDTH = 2
  PRINTK_BUFFER_SIZE = 3
  MAX_SINKS = 2
  Messages <- MCMessages
  TickText <- MCTickText
  MaxMessages = 3
  MaxTicks = 1
  MaxChanges = 2
SPECIFICATION Spec
INVARIANTS
  CursorOnScreen
  ScreenIsTail
  SerialComplete
  NoBleeding
