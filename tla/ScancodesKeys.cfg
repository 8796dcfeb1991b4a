CONSTANTS
  Noise = {}
SPECIFICATION Spec
INVARIANTS
  CodeTellsKey
