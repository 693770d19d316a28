SPECIFICATION Spec
CONSTANTS
  Elements = {a, b}
  Spots = {p1, p2}
  Captures = {c1}
  Requests = {r1}
  Kinds = {"dom", "pointer", "keys", "secure"}
  Vias = {"locator", "node", "point"}
  MaxDocs = 2
  MaxMoves = 1
  MaxRuntimes = 2
  MaxLeases = 2
  None = None
SYMMETRY Symmetry
INVARIANTS
  TypeOK
  LandsOnTarget
  SecretStaysBound
CHECK_DEADLOCK FALSE
