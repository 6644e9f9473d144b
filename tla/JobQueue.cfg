\* Two callers, up to three tasks on up to five jobs.
SPECIFICATION QueueSpec
CONSTANTS
  Callers = {a, b}
  MaxTasks = 3
  MaxJobs = 5
  Limits = {2, 16}
INVARIANTS JobsOnce JobsApart
