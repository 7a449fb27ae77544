------------------------- MODULE MCDocumentUpload -------------------------
EXTENDS DocumentUpload
=============================================================================
