----------------------------- MODULE MC_HsrProxy -----------------------------
EXTENDS HsrProxy, TLC

CONSTANTS p1, p2

MCPorts == {p1, p2}
\* One config forwards p1 and has no rule for p2; the other rejects p1 and
\* ignores p2.
MCConfigs == {[p \in MCPorts |-> IF p = p1 THEN "Forward" ELSE "NoRule"],
              [p \in MCPorts |-> IF p = p1 THEN "RejectStream"
                                 ELSE "IgnoreStream"]}
====
