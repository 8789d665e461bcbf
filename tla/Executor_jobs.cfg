\* Two application threads, two workers, an event and an async task, and a
\* group queue that can be full while the tasks still have room.
CONSTANTS
  e = e
  a = a
  p = p
  Tasks = {e, a}
  Callers = {c1, c2}
  Scheduler = scheduler
  Workers = {w1, w2}
  Kind <- KindOf
  Priority <- PriorityOf
  Period <- PeriodOf
  Deadline <- DeadlineOf
  DropTasks = {}
  TaskCapacity = 1
  GroupCapacity = 1
  MaxCatchUp = 1
  MaxJobs = 2
  MaxTime = 0
SYMMETRY ThreadSymmetry
SPECIFICATION Spec
CHECK_DEADLOCK FALSE
INVARIANTS
  ReleasesAccounted
  StopQuiesces

  
