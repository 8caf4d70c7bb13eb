\* PostgreSQL, three threads on one service, kills and database errors.
SPECIFICATION Spec
CONSTANTS
  w1 = w1
  w2 = w2
  w3 = w3
  w4 = w4
  jenkins = jenkins
  webhook = webhook
  trigger = trigger
  upload = upload
  alien = alien
  None = None
  Worker = {w1, w2, w3}
  Service = {jenkins}
  Task = {trigger, upload, alien}
  Serves <- OneService
  ServiceOf <- TasksOfOne
  Handled = {trigger, upload}
  BestEffort = {upload}
  Backend = "postgres"
  OneWorkerPerService = FALSE
  MaxJobs = 2
  MaxAttempts = 2
  MaxStops = 1
  MaxKills = 1
  HardCrash = TRUE
  MaxDbErrors = 1
SYMMETRY Symmetry
INVARIANTS
  TypeOK
  ExclusiveExecution
  ClaimIsHeld
  FaultStrandsOne
  EffectsWithinAttempts
  GivenUpWhenExhausted
  DoneMeansDelivered
PROPERTY
  ImplementsLifecycle
\* Threads may all have ended: then nothing is left to do.
CHECK_DEADLOCK FALSE
