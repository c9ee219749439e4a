--------------------------- MODULE MCPanelBroadcast ---------------------------
(* Instances of PanelBroadcast for TLC.                                         *)
EXTENDS PanelBroadcast

CONSTANTS s1, s2, short1, short2, p1, p2, p3, p4

\* Two sources and the ways a panel can be wired: by short name, by full name
\* with and without an envelope, and to a registered data function.
OwnShortNames == [s \in {s1, s2} |-> IF s = s1 THEN short1 ELSE short2]
FourKeys == [p \in {p1, p2, p3, p4} |-> CASE p = p1 -> short1
                                           [] p = p2 -> s2
                                           [] p = p3 -> s1
                                           [] p = p4 -> p4]

=============================================================================
