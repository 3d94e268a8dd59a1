SPECIFICATION Spec
CONSTANTS
    m1 = m1
    m2 = m2
    m3 = m3
    x1 = x1
    old = old
    new = new
    branch = branch
    Migrations = {m1, m2, m3, x1}
    When <- InTime
    Foundation = {m1, x1}
    Runners = {old, new, branch}
    Artifact <- Artifacts
    Processes = {old, new}
    Knows <- Builds
    MaxFaults = 2
CHECK_DEADLOCK FALSE
INVARIANT MigrationInv
INVARIANT ReadyIsExact
PROPERTY MigrationsGoThrough
