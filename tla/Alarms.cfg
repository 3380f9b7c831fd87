SPECIFICATION AlarmsFairSpec
CONSTANTS
  Alarms = {a1}
  Keys = {1, 2, 3}
  Week = 2
  Skipped = {3}
  Ring = 2
  Grace = 1
  Snooze = 1
  MaxSnoozes = 1
  MaxAlarms = 1
  MaxEvents = 1
  MaxReceipts = 3
  MaxTime = 4
  MaxEdits = 2
INVARIANT AlarmsInv
PROPERTIES AlarmsStand NothingStaysDue
