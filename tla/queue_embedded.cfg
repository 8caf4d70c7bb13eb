\* SQLite and embedded workers: one thread per service, one graceful redeploy.
SPECIFICATION FairSpec
CONSTANTS
  w1 = w1
  w2 = w2
  w3 = w3
  w4 = w4
  jenkins = jenkins
  webhook = webhook
  trigger = trigger
  upload = upload
  alien = alien
  None = None
  Worker = {w1, w2, w3, w4}
  Service = {jenkins, webhook}
  Task = {trigger, upload, alien}
  Serves <- TwoServices
  ServiceOf <- TasksOfTwo
  Handled = {trigger, upload}
  BestEffort = {upload}
  Backend = "sqlite"
  OneWorkerPerService = TRUE
  MaxJobs = 2
  MaxAttempts = 2
  MaxStops = 1
  MaxKills = 0
  HardCrash = FALSE
  MaxDbErrors = 0
PROPERTY
  JobSettles
CHECK_DEADLOCK FALSE
