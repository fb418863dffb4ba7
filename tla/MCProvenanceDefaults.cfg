SPECIFICATION Spec
CONSTANTS
  p1 = p1
  p2 = p2
  local = local
  dev = dev
  cloud = cloud
  Unset = Unset
  Procs = {p1}
  Databases = {local, dev, cloud}
  Migrated = {local, dev}
  Paths <- PathNames
  DbOf <- Opens
  MdPaths = {"md:energy_grid"}
  CloudPaths = {"md:energy_grid", "MD:energy_grid"}
  RealPath = "energy_grid.duckdb"
  DevPath = "dev_fixtures.duckdb"
  CommandLines <- Defaults
  DotEnvs <- DotEnvFiles
  Generated = 1
  MaxEra = 2
  AllowLocal = FALSE
INVARIANTS TypeOK NoSyntheticResume CleanChartsAreReal OneGeneration
CHECK_DEADLOCK FALSE
