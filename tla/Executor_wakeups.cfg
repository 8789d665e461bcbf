\* One periodic task whose late jobs are dropped, over a catch-up limit of one,
\* with two workers; also the liveness of the thread hand-overs.
CONSTANTS
  e = e
  a = a
  p = p
  Tasks = {p}
  Callers = {c1}
  Scheduler = scheduler
  Workers = {w1,w2}
  Kind <- KindOf
  Priority <- PriorityOf
  Period <- PeriodOf
  Deadline <- DeadlineOf
  DropTasks = {p}
  TaskCapacity = 2
  GroupCapacity = 2
  MaxCatchUp = 1
  MaxJobs = 2
  MaxTime = 3
SPECIFICATION FairSpec
CHECK_DEADLOCK FALSE
PROPERTIES
  PeriodicIsReleased
  JobsAreTaken
  StopReturns
