SPECIFICATION Spec
CONSTANTS
  MaxEdits = 3
  MaxGets = 2
  Masked = Masked
  None = None
INVARIANTS
  TypeOK
  

  
