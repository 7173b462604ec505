SPECIFICATION Spec
CONSTANTS
  Agents = {a1, a2, a3}
  Nonces = {n1, n2}
  Calls = {c1, c2}
  MaxAnswers = 1
  Discovery = TRUE
SYMMETRY Symm
INVARIANTS
  TypeOK
  

  
