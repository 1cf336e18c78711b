--------------------------- MODULE MCLocalDriver ---------------------------
EXTENDS LocalDriver

\* Two lists of different kinds, so that a table left by the first is wrong
\* for the second.
MCFiles == {"pulse_swc", "pulse_ota", "Vd"}
MCPulseTable == <<"pulse_swc", "pulse_ota">>
=============================================================================
