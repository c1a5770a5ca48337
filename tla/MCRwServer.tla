---- MODULE MCRwServer ----
EXTENDS RwServer
CONSTANTS t1, t2
====
