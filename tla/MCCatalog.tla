------------------------------ MODULE MCCatalog ------------------------------
EXTENDS Catalog

CONSTANTS r1, r2, t1
==============================================================================
