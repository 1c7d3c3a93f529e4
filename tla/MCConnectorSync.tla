-------------------------- MODULE MCConnectorSync --------------------------
(* Small instances of ConnectorSync for TLC.                               *)
EXTENDS ConnectorSyncProps

CONSTANTS d1, d2, d3, s1, s2, c1

=============================================================================
