--------------------------- MODULE MCSupportReports ---------------------------
\* The support service's reports for TLC.
EXTENDS SupportReports

CONSTANTS r1, r2, r3, ana, ben, q1, q2

AllStores == {"postgres", "sqlite", "memory"}
================================================================================
