----------------------------- MODULE MCDatabase -----------------------------
EXTENDS Database

\* Nothing, or the tables that preceded the first revision with rows that a
\* migration must find an owner for.
MCOrigins ==
  {Empty}
  \cup {Baseline(f, u) : f \in {{}, {"audits", "entreprises"}, {"scans_reseau", "ad_audit_results"}},
                         u \in {"none", "auditor", "admin"}}

=============================================================================
