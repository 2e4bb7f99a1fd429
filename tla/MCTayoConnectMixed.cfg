\* A borrower and a lender construct their contracts at once.
SPECIFICATION Spec
CONSTANTS
  Threads = {t1, t2}
  None = None
INVARIANT AcceptedSignsAsAsked
SYMMETRY ThreadSymmetry
