-------------------------- MODULE MCSectionLoader --------------------------
EXTENDS SectionLoader
=============================================================================
