SPECIFICATION Spec
CONSTANTS
  root = root
  outer = outer
  inner = inner
  int = int
  text = text
  t1 = t1
  t2 = t2
  None = None
  Threads = {t1, t2}
  Scopes = {root, outer, inner}
  Root = root
  Parent <- MCParent
  Runner <- MCRunner
  Declaring = {root, inner}
  Annotating = {outer}
  Values = {int, text}
  Types <- MCTypes
INVARIANTS
  NoSkip
  ReadBack
