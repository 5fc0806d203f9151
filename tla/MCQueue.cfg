CONSTANTS
  Capacity = 5
  Values = {t1, t2, t3}
  NULL = NULL
  Junk = Junk
SPECIFICATION QueueSpec
INVARIANT DropsOnlyWhenFull
