\* One client, a buffer large enough; nothing goes wrong.
SPECIFICATION Spec
CONSTANTS
  Readers = {c1}
  MaxBuffer = 4
  MaxLines = 4
  Faults = {}
CHECK_DEADLOCK FALSE
PROPERTIES
  EndsWhenExhausted
