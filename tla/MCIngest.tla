------------------------------ MODULE MCIngest ------------------------------
EXTENDS Ingest

=============================================================================
