--------------------------- MODULE MCDatabaseSync ---------------------------
EXTENDS DatabaseSync
=============================================================================
