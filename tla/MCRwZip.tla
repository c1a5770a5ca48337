---- MODULE MCRwZip ----
EXTENDS RwZip
CONSTANTS f1, f2, f3
====
