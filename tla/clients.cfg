SPECIFICATION MCSpec
CONSTANTS
  Default = Default
  Work = Work
  Profile = {Default, Work}
  None = None
  Worlds <- MCWorlds
  MaxSteps = 4
  Service = {"emr", "ec2", "sqs", "dynamodb", "iam", "s3"}
  NoValue = NoValue
  Region = {"east", "west", "gov", "cn", "local"}
  Defaults <- MCDefaults
  Own <- MCOwn
  Written <- MCWritten
  Rules <- MCRules
  Paths <- MCPaths
  Wanted = 3
  MaxCreations = 3
CHECK_DEADLOCK FALSE
INVARIANTS KeysOfTheProfile OneLoaderPerClient
PROPERTY LossOutlastsItsCause
INVARIANTS RetriesAreStable RetriesAsWritten SignedWhereItIsServed ServiceIsCompatible
