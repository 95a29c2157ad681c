SPECIFICATION AuthoringSpec
CONSTANTS
  s = s
  o1 = o1
  o2 = o2
  c = c
  p = p
  t1 = t1
  t2 = t2
  t3 = t3
  t4 = t4
  Source = s
  Outputs <- TwoOutputs
  Candidate = c
  Promoted = p
  Threads = {t1, t2, t3, t4}
  Casts <- Ensembles
  Calls <- OnceOrTwice
  MaxTexts = 6
  MaxVersion = 2
  absent = absent
INVARIANT Accounted
INVARIANT TemplatesAreTrue
INVARIANT RefinementIsTrue
CHECK_DEADLOCK FALSE
