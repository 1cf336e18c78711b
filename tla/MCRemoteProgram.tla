-------------------------- MODULE MCRemoteProgram --------------------------
EXTENDS RemoteProgram

\* One gate of every type at every bound of the ranges, and pairs of gates that
\* fill two bins, the same bin twice, or one that is programmed later.
MCTargets == {9, 10, 1000, 1001, 100000, 100020}
MCGates == [type : {0, 1, 2, 3, 4, 5, 6, 12}, target : MCTargets]
MCPairs == [type : {3, 6}, target : {9, 1000, 100020}]
MCDesigns == {<<g>> : g \in MCGates} \cup {<<g, h>> : g, h \in MCPairs}
MCTables == Tables
=============================================================================
