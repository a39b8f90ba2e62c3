--------------------------- MODULE MC_VanguardMgr ---------------------------
EXTENDS VanguardMgr, TLC

MCRelays == {"r1", "r2", "r3"}
\* A consensus lists every relay, or drops r1.
MCListings == {{"r1", "r2", "r3"}, {"r2", "r3"}}
====
