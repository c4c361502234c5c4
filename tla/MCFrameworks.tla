---------------------------- MODULE MCFrameworks ----------------------------
EXTENDS Frameworks

MCOrder == <<"shipped", "v1", "v2">>

=============================================================================
