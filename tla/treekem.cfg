CONSTANTS
  Clients = {c1, c2, c3, c4, c5}
  MaxLeaves = 8
SPECIFICATION Spec
SYMMETRY Symmetry
INVARIANTS TypeOK TreeMinimal KeysStayBelow PathReachesEveryone
