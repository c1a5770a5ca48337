---- MODULE MCScanQueue ----
EXTENDS ScanQueue
====
