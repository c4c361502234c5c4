----------------------------- MODULE MCScanJobs -----------------------------
EXTENDS ScanJobs

\* One scan of each kind, and a local one without a device code.
MCScans == {"l", "i", "s", "a"}
MCKind  == [l |-> "local", i |-> "local", s |-> "stream", a |-> "ad"]
MCInteractive == {"i"}

=============================================================================
