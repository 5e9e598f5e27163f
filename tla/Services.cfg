SPECIFICATION MCServicesSpec
CONSTANTS
  Focuses = {"dispatch", "pool", "marks", "variants", "plan", "limiter"}
  lead1 = lead1
  lead2 = lead2
  lead3 = lead3
  ann = ann
  bob = bob
  send1 = send1
  send2 = send2
  job1 = job1
  job2 = job2
  phone1 = phone1
  phone2 = phone2
  SendJobs <- MCSendJobs
  Phones = {phone1, phone2}
  StartRequests = {start1}
  DeviceChoices = {{}, {phone1}, {phone2}}
  PoolSize = 1
  Outcomes = {"ok", "unconfirmed"}
  PoolLeads = {lead1, lead2, lead3}
  Owners = {ann, bob}
  Users = {ann}
  Senders = {send1, send2}
  Nobody = Nobody
  NoLeadHeld = NoLeadHeld
  OwnerOf <- MCOwnerOf
  SourceOf <- MCSourceOf
  SendLimit = 2
  DailyCapacity = 1
  InventoryDays = 2
  ThresholdDays = 1
  ExportLimit = 1
  MarkedLeads = {lead1, lead2}
  Requests = {tab1, tab2}
  NoLead = NoLead
  VariantIds = {var1, var2}
  VariantRequests = {edit1, edit2, edit3}
  SendRuns = {job1}
  Messages = {lead1}
  NoVariant = NoVariant
  PlanSteps = 3
  MaxAttempts = 2
  MaxTotalActions = 4
  Clients = {ann, bob}
  Routes = {"auth", "general"}
  LimitOf <- MCLimitOf
  Window = 2
  CleanupEvery = 3
  MaxBuckets = 1
  MaxSkew = 1
  MaxClock = 5
INVARIANTS ServicesTypeOK JobTellsItsMessages ReleasedMeansNoClaim SessionsAlone ReservedAccountedFor FunnelAddsUp PlanErrsByOthersLeads ExportComplete MarksTellOneStory MessagesInOneRow PlanReportHonest WindowLimits
PROPERTIES CancelledJobEnds
CHECK_DEADLOCK FALSE
