\* Bytes of eight values, every security key.
SPECIFICATION MapSpec
CONSTANTS
  N = 8
INVARIANTS
  Injective
  NoReuse
