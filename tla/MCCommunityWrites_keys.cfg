CONSTANTS
  author = author
  reader = reader
  s1 = s1
  k1 = k1
  k2 = k2
  Actors = {author, reader}
  Signals = {s1}
  Keys = {k1, k2}
  Requests <- MCRequests
  Handlers = {h1, h2}
  MaxExpiries = 1
SYMMETRY HandlerSymmetry
SPECIFICATION Spec
INVARIANTS PolicyHeld OneEffectPerKey
PROPERTIES RepliesTruthful ImplementsAtomicWrites
