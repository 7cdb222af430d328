\* Does a running server follow its configuration file?
SPECIFICATION Spec
INVARIANTS
    RunsAsConfigured
