CONSTANTS
  Configs <- MCConfigs
  Mappings <- MCMappings
  Versions <- MCVersions
  Archive <- MCArchive
  Daily <- MCDaily
  Outputs = {"out"}
  MaxFaults = 1
SPECIFICATION Spec
INVARIANT InterruptedSyncResumes
CHECK_DEADLOCK FALSE
