SPECIFICATION Spec
CONSTANTS
  p1 = p1
  p2 = p2
  local = local
  dev = dev
  cloud = cloud
  Unset = Unset
  Procs = {p1, p2}
  Databases = {local, dev, cloud}
  Migrated = {local, dev, cloud}
  Paths <- PathNames
  DbOf <- Opens
  MdPaths = {"md:energy_grid"}
  CloudPaths = {"md:energy_grid", "MD:energy_grid"}
  RealPath = "energy_grid.duckdb"
  DevPath = "dev_fixtures.duckdb"
  CommandLines <- TogetherByHand
  DotEnvs = {Unset}
  Generated = 1
  MaxEra = 1
  AllowLocal = FALSE
INVARIANTS NeverMixed CloudIsNeverSynthetic PublicTablesAreReal
PROPERTIES UnknownIsLeftAlone
CHECK_DEADLOCK FALSE
