SPECIFICATION Spec
CONSTANTS
  Client = {c1, c2}
  c1 = c1
  c2 = c2
  MaxStarts = 3
  Events <- MCEvents
SYMMETRY MCSymmetry
INVARIANTS TypeOK AtMostOnce SpentOnlyOnSuccess BrickedOnlyByCrash TrustIsCurrent
