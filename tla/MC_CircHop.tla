------------------------------ MODULE MC_CircHop ------------------------------
EXTENDS CircHop

\* One hop with two streams: window-based stream flow control.
MCHops == {0}
MCStreamIds == {1, 2}
MCUsesStreamSendme == [h \in MCHops |-> TRUE]

=============================================================================
