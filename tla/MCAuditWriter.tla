-------------------------- MODULE MCAuditWriter --------------------------
(* Small instances of AuditWriter for TLC.                                 *)
EXTENDS AuditWriter

\* A sink that fails now and then while events are dropped, and the blocking
\* configuration with nothing failing.
CleanStops == {[block |-> FALSE, faults |-> {"write"}], [block |-> TRUE, faults |-> {}]}

==========================================================================
