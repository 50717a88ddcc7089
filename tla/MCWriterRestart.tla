---- MODULE MCWriterRestart ----
\* One supervisor whose member, the assigned writer, leaves and comes back.
EXTENDS WriterAssignment, TLC

CONSTANTS m1, m2, m3, l1

MCLeaseAt == l1 :> m1
MCRank == (m1 :> 0) @@ (m2 :> 1) @@ (m3 :> 2)

====
