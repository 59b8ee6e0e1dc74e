SPECIFICATION Spec
CONSTANTS
  Tasks = {t1, t2, t3}
  Sessions0 = {s1}
  MaxPw = 1
  None = None
INVARIANTS EnrolmentHolds RevokedAreTold
PROPERTIES KeptSocketStays RevokedSocketCloses
CHECK_DEADLOCK FALSE
