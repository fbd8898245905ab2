SPECIFICATION Spec
CONSTANTS
  Random = {r1, r2, r3, r4}
  Message = {m1, m2}
  Zeros = Zeros
  MaxTexts <- FewTexts
  MaxRandom <- Few
SYMMETRY Alike
INVARIANT AccountSignaturesVerify
