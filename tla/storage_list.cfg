SPECIFICATION Spec
CONSTANTS
    Absent = Absent
    Failed = Failed
    Distributions <- MCDistributions
    Applications <- MCApplications
    Workspaces <- MCWorkspaces
    RoleChoices <- MCRoleChoices
    PluginIds = {"alpha", "beta"}
    TraceSink = "in-memory-trace-sink"
    Names = {"fast", "deep"}
    MaxCode = 3
INVARIANT
    ListShowsBuiltins
CHECK_DEADLOCK FALSE
