--------------------------- MODULE MCDispatchQueue ---------------------------
EXTENDS DispatchQueue
=============================================================================
