----------------------------- MODULE MCAuditWork ----------------------------
EXTENDS AuditWork

=============================================================================
