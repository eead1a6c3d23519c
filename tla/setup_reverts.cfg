SPECIFICATION Spec
CONSTANTS
  MaxEdits = 1
  MaxGets = 2
  Masked = Masked
  None = None
PROPERTIES
  SetupStaysComplete
