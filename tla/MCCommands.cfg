CONSTANTS
  Configs <- MCConfigs
  Mappings <- MCMappings
  Versions <- MCVersions
  Archive <- MCArchive
  Daily <- MCDaily
  Outputs = {"out"}
  MaxFaults = 2
SPECIFICATION Spec
INVARIANTS
  CurrentAlwaysVerifies
  RevisionsAreTheArchive
  CheckpointIsBacked
  RunsMatchTheirLineage
PROPERTIES
  RunsUseTheirOwnMapping
  PublishedIsImmutable
CHECK_DEADLOCK FALSE
