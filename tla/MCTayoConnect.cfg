\* Two requests construct their contracts at once.
SPECIFICATION Spec
CONSTANTS
  Threads = {t1, t2}
  None = None
INVARIANTS TypeOK AgreedIsOwn
SYMMETRY ThreadSymmetry
