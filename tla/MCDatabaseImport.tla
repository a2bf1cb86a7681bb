--------------------------- MODULE MCDatabaseImport ---------------------------
\* Two uploads pass validation and one does not.
EXTENDS DatabaseImport

CONSTANTS u1, u2, u3
MCUpload == {u1, u2, u3}
MCValid == {u1, u2}
=============================================================================
