CONSTANTS
    Apps = {1, 2}
    Svcs = {1, 2}
    Jobs = {1, 2}
    Specs = {"@every 1s"}
    Bad = "bad"
    Policies = {"", "skipIfRunning"}
    None = None
    MaxCrashes = 1
    MaxRuns = 1
SPECIFICATION Spec
INVARIANT RemovedStaysRemoved
