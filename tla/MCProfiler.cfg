CONSTANT
  Task = {t1, t2}
SPECIFICATION FairSpec
INVARIANTS
  PeakExactWhenSettled
  QuiescentReportExact
PROPERTIES
  TasksEnd
