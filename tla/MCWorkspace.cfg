CONSTANTS
  fa = fa
  fb = fb
  fc = fc
  h = h
  q = q
  s1 = s1
  s2 = s2
  p1 = p1
  p2 = p2
  r1 = r1
  r1Edited = r1Edited
  r2 = r2
  None = None
  File = {fa, fb, fc}
  Name = {h, q}
  CallSite = {1, 2}
  Params = {p1, p2}
  Summary = {s1, s2}
  Cpg <- MCCpg
  Hash = {1, 2, 3, 4, 5}
  ContentHash <- MCContentHash
  RuleSet = {r1, r2}
  Sig = {1, 2}
  RuleSig <- MCRuleSig
  Position = {1, 2, 3}
SYMMETRY FileSymmetry
SPECIFICATION Spec
INVARIANTS
  SummariesCurrent
  EdgesCurrent
  QualifiedNameWins
  CleanFilesCached
PROPERTIES
  ImplementsContract
