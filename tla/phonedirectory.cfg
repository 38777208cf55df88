SPECIFICATION Spec
CONSTANTS
  Accounts = {"sip", "ring"}
  Persons = {p}
  None = None
  Users = {"hash", "bob"}
  Names = {"bob"}
  Host <- Hosts
  UriSize <- Sizes
  Ip2ip = {}
  HistoryBackend = FALSE
  Requests <- Asked
  Kinds <- Counted
  MaxNumbers = 3
  MaxFiled = 2
  MaxPopular = 2
  MaxCalls = 3
  Width = 8
CHECK_DEADLOCK FALSE
CONSTRAINT NumbersFirst
INVARIANTS
  TypeOK
  SharingAgrees
  LookupIsStable
  PositionIsRight
PROPERTY AccountLostByMergeOnly
