----------------------------- MODULE ConfluxLeg -----------------------------
(***************************************************************************)
(* What one client conflux leg promises, as seen by the tunnel reactor     *)
(* through ConfluxStatus (tor-proto conflux/msghandler): a leg goes        *)
(* Unlinked -> Pending -> Linked, never backwards and never skipping       *)
(* Pending, and a leg that hit an error is torn down and changes no more.  *)
(***************************************************************************)

VARIABLES
  status,   \* "Unlinked", "Pending" or "Linked"
  aborted   \* the reactor tore the leg down after an error

vars == <<status, aborted>>

Statuses == {"Unlinked", "Pending", "Linked"}

Init ==
  /\ status = "Unlinked"
  /\ aborted = FALSE

\* The LINK cell went out.
SendLink ==
  /\ ~aborted
  /\ status = "Unlinked"
  /\ status' = "Pending"
  /\ UNCHANGED aborted

\* The peer proved ownership of the leg; the handshake is complete.
CompleteHandshake ==
  /\ ~aborted
  /\ status = "Pending"
  /\ status' = "Linked"
  /\ UNCHANGED aborted

\* Any error is fatal for the leg.
Abort ==
  /\ ~aborted
  /\ aborted' = TRUE
  /\ UNCHANGED status

Next == SendLink \/ CompleteHandshake \/ Abort

Spec == Init /\ [][Next]_vars

=============================================================================
