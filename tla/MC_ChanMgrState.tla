--------------------------- MODULE MC_ChanMgrState ---------------------------
EXTENDS ChanMgrState, TLC

\* One relay with an Ed25519 and an RSA identity, one with only Ed25519.
MCRelays == {{"ed1", "rsa1"}, {"ed2"}}

\* A request by one identity, by both, and one mixing two relays.
MCTargets == {{"ed1"}, {"ed1", "rsa1"}, {"ed1", "ed2"}}

\* Consensus padding timeouts (nf_ito_*): the defaults, zeroes (no
\* padding) and an inverted pair; KIST on or off.
MCNetDirs ==
  {[nf_ito_low |-> 1, nf_ito_high |-> 2, nf_ito_low_reduced |-> 0,
    nf_ito_high_reduced |-> 0, kist_enabled |-> 0],
   [nf_ito_low |-> 0, nf_ito_high |-> 0, nf_ito_low_reduced |-> 2,
    nf_ito_high_reduced |-> 1, kist_enabled |-> 1]}

=============================================================================
