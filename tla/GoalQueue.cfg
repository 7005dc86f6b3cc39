SPECIFICATION FairSpec
CONSTANTS
  Standing = {"on_alert_observation", "on_prev_verify_failure"}
  Alerts = {FALSE, TRUE}
  Priorities = {0, 2}
  MaxDiagnoses = 1
  MaxWaiting = 2
  MaxDue = 1
PROPERTIES PendingServed
