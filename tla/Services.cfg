SPECIFICATION Spec
CONSTANTS
  Request = {"r1", "r2", "r3"}
  Key = {"k1", "k2"}
  Detail = "detail"
  Nowhere = "nohost"
  Attachment = {"a1", "a2"}
  HostOf <- HostOfAttachment
  LightosCalls = 6
  LightosFaults = 2
  Guest = {"g1", "g2"}
  Host = {"h1", "h2"}
  MaxSize = 3
  Snapshot = {"s1", "s2", "s3"}
  MaxWrites = 3
  SnapshotsFaults = 1
  Name = {"p", "q"}
  Configs <- MemoryConfigs
  Flavors <- MemoryFlavors
  None = "none"
  Project = {"a", "b"}
  Owner = "a"
  Writer = {"w1", "w2"}
  Everyone = "everyone"
  MaxShares = 1
  Candidate = {"h1", "h2", "h3"}
  Hinted = {"g1", "g2"}
  Zone <- ZoneOfHost
  MaxVcpus = 2
  MaxLosses = 3
INVARIANTS
  TypeOK
  ObjectKept AccessMatches VolumesHold MemorySafe AccessKept HostsInOrder
PROPERTY KeptForRevert
CHECK_DEADLOCK FALSE
