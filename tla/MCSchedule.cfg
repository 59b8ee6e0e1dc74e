SPECIFICATION SchedSpec
CONSTANTS
  Tasks = {t1, t2}
  Web = web
  Standby = standby
  MaxFailures = 2
  Nil = Nil
INVARIANTS SchedTypeOK LoopsFollowTheLock SingleFlight
PROPERTIES ScheduleIsTaken EnabledTasksAreLooped
