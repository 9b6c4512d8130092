\* Two closers racing for two rounds; the clock passes both deadlines.
CONSTANTS
  p1 = p1
  p2 = p2
  NoClosure = NoClosure
  Closers = {p1, p2}
  Rounds = {2, 3}
  Period = 3
  MinLead = 2
  Margin = 1
  Pause = 1
  MaxTime = 7
SYMMETRY Symmetry
SPECIFICATION ClosureSpec
INVARIANTS LeadAtCommit
PROPERTIES ImplementsWriteOnce
