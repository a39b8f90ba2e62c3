---------------------------- MODULE ConfluxClient ----------------------------
(***************************************************************************)
(* The client side of one conflux leg: ClientConfluxMsgHandler in          *)
(* tor-proto/src/tunnel/reactor/conflux/msghandler/client.rs.              *)
(*                                                                         *)
(* The peer (or anyone on the path) may send any conflux cell from any hop *)
(* at any time, with any nonce and any SWITCH sequence delta; the          *)
(* wallclock may jump backwards.  Every Err returned by the handler is     *)
(* fatal: the owning reactor tears the leg down (`closed`).                *)
(***************************************************************************)
EXTENDS Naturals

CONSTANTS
  Hops,            \* the hop numbers of the leg's circuit (HopNum)
  JoinPoint,       \* join_point: the only hop allowed to send conflux cells
  OurNonce,        \* nonce: the V1Nonce sent in our LINK cell
  Nonces,          \* nonces a LINKED cell may carry: OurNonce and forgeries
  Times,           \* wallclock readings (SystemTime), a set of naturals
  LinkTimeout,     \* LINK_TIMEOUT (60 seconds)
  MaxSwitchSeqno,  \* largest rel_seqno carried by a SWITCH cell in the model
  MaxSeq,          \* bound on the relative sequence counters
  NoValue,         \* Option::None
  HugeRtt          \* Duration::from_secs(u64::MAX), the RTT fallback

ASSUME /\ JoinPoint \in Hops
       /\ OurNonce \in Nonces
       /\ Times \subseteq Nat
       /\ MaxSwitchSeqno \in Nat \ {0}

VARIABLES
  state,        \* ConfluxState: [tag, nonce]
  linkSent,     \* link_sent: Option<SystemTime>
  initRtt,      \* init_rtt: Option<Duration>
  lastSeqRecv,  \* last_seq_recv
  lastSeqSent,  \* last_seq_sent
  clock,        \* the runtime's wallclock
  closed,       \* the reactor tore the leg down after an Err
  accepted,     \* history: the LINKED cells ([hop, nonce]) the handler accepted
  completions   \* history: ConfluxHandshakeComplete commands returned

vars == <<state, linkSent, initRtt, lastSeqRecv, lastSeqSent, clock, closed,
          accepted, completions>>
handlerVars == <<state, linkSent, initRtt, lastSeqRecv, lastSeqSent>>

\* enum ConfluxState
Unlinked == [tag |-> "Unlinked", nonce |-> NoValue]
AwaitingLink(n) == [tag |-> "AwaitingLink", nonce |-> n]
Linked == [tag |-> "Linked", nonce |-> NoValue]

\* Fault injected for checking: status() reports a pending leg as unlinked.
StatusPendingAsUnlinked ==
  CASE state.tag = "Unlinked" -> "Unlinked"
    [] state.tag = "AwaitingLink" -> "Unlinked"
    [] state.tag = "Linked" -> "Linked"

\* ClientConfluxMsgHandler::status
Status ==
  CASE state.tag = "Unlinked" -> "Unlinked"
    [] state.tag = "AwaitingLink" -> "Pending"
    [] state.tag = "Linked" -> "Linked"

\* ClientConfluxMsgHandler::handshake_timeout
HandshakeTimeout ==
  IF linkSent = NoValue THEN NoValue ELSE linkSent + LinkTimeout

\* Fault injected for checking: the RTT is a plain subtraction.
MeasureRttNoFallback(now, sent) == now - sent

\* The RTT measurement of handle_conflux_linked: now.duration_since(link_sent),
\* falling back to u64::MAX seconds when the wallclock went backwards.
MeasureRtt(now, sent) == IF now >= sent THEN now - sent ELSE HugeRtt

\* ClientConfluxMsgHandler::new
Init ==
  /\ state = Unlinked
  /\ linkSent = NoValue
  /\ initRtt = NoValue
  /\ lastSeqRecv = 0
  /\ lastSeqSent = 0
  /\ clock \in Times
  /\ closed = FALSE
  /\ accepted = {}
  /\ completions = 0

\* An Err from the handler: the handler's fields are left as they were and
\* the reactor closes the leg.
Fail ==
  /\ closed' = TRUE
  /\ UNCHANGED <<handlerVars, clock, accepted, completions>>

\* Fault injected for checking: note_link_sent without its Unlinked guard.
NoteLinkSentUnguarded ==
  /\ ~closed
  /\ state' = AwaitingLink(OurNonce)
  /\ linkSent' = clock
  /\ UNCHANGED <<initRtt, lastSeqRecv, lastSeqSent, clock, closed,
                 accepted, completions>>

\* ClientConfluxMsgHandler::note_link_sent, called when the LINK cell is sent.
NoteLinkSent ==
  /\ ~closed
  /\ \/ /\ state.tag = "Unlinked"
        /\ state' = AwaitingLink(OurNonce)
        /\ linkSent' = clock
        /\ UNCHANGED <<initRtt, lastSeqRecv, lastSeqSent, clock, closed,
                       accepted, completions>>
     \/ /\ state.tag # "Unlinked"   \* "Sent duplicate LINK cell?!"
        /\ Fail

\* AbstractConfluxMsgHandler::validate_source_hop
ValidateSourceHop(hop) == hop = JoinPoint

\* handle_conflux_link and handle_conflux_linked_ack: unsupported on a client.
HandleConfluxLink == Fail
HandleConfluxLinkedAck == Fail

\* Fault injected for checking: the nonce comparison is skipped.
NonceMatchesAny(n) == TRUE

\* `expected_nonce == linked_nonce` in handle_conflux_linked.
NonceMatches(n) == n = state.nonce

\* handle_conflux_linked: a LINKED cell carrying nonce n, from hop.
HandleConfluxLinked(hop, n) ==
  \/ /\ linkSent = NoValue \/ state.tag = "Unlinked"
     /\ Fail
  \/ /\ linkSent # NoValue
     /\ state.tag = "Linked"
     /\ Fail
  \/ /\ linkSent # NoValue
     /\ state.tag = "AwaitingLink"
     /\ ~NonceMatches(n)
     /\ Fail
  \/ /\ linkSent # NoValue
     /\ state.tag = "AwaitingLink"
     /\ NonceMatches(n)
     /\ state' = Linked
     /\ initRtt' = MeasureRtt(clock, linkSent)
     /\ accepted' = accepted \cup {[hop |-> hop, nonce |-> n]}
     /\ completions' = completions + 1
     /\ UNCHANGED <<linkSent, lastSeqRecv, lastSeqSent, clock, closed>>

\* validate_switch_seqno
ValidateSwitchSeqno(relSeqno) == relSeqno # 0

\* handle_conflux_switch: a SWITCH cell with relative delta relSeqno.
HandleConfluxSwitch(relSeqno) ==
  \/ /\ state.tag # "Linked"
     /\ Fail
  \/ /\ state.tag = "Linked"
     /\ ~ValidateSwitchSeqno(relSeqno)
     /\ Fail
  \/ /\ state.tag = "Linked"
     /\ ValidateSwitchSeqno(relSeqno)
     /\ lastSeqRecv + relSeqno <= MaxSeq
     /\ lastSeqRecv' = lastSeqRecv + relSeqno
     /\ UNCHANGED <<state, linkSent, initRtt, lastSeqSent, clock, closed,
                    accepted, completions>>

\* AbstractConfluxMsgHandler::handle_msg, after the caller checked the source
\* hop with validate_source_hop: a conflux cell arrives from hop.
ReceiveConfluxCell(hop) ==
  /\ ~closed
  /\ \/ /\ ~ValidateSourceHop(hop)
        /\ Fail
     \/ /\ ValidateSourceHop(hop)
        /\ \/ HandleConfluxLink
           \/ \E n \in Nonces : HandleConfluxLinked(hop, n)
           \/ HandleConfluxLinkedAck
           \/ \E k \in 0..MaxSwitchSeqno : HandleConfluxSwitch(k)

\* inc_last_seq_recv / inc_last_seq_sent: the caller counts a multiplexed
\* data cell received or sent on a linked leg.
IncLastSeqRecv ==
  /\ ~closed
  /\ state.tag = "Linked"
  /\ lastSeqRecv < MaxSeq
  /\ lastSeqRecv' = lastSeqRecv + 1
  /\ UNCHANGED <<state, linkSent, initRtt, lastSeqSent, clock, closed,
                 accepted, completions>>

IncLastSeqSent ==
  /\ ~closed
  /\ state.tag = "Linked"
  /\ lastSeqSent < MaxSeq
  /\ lastSeqSent' = lastSeqSent + 1
  /\ UNCHANGED <<state, linkSent, initRtt, lastSeqRecv, clock, closed,
                 accepted, completions>>

\* SystemTime is not monotonic: the wallclock may be set to any reading.
ClockJump ==
  /\ ~closed
  /\ \E t \in Times \ {clock} : clock' = t
  /\ UNCHANGED <<handlerVars, closed, accepted, completions>>

Next ==
  \/ NoteLinkSent
  \/ \E hop \in Hops : ReceiveConfluxCell(hop)
  \/ IncLastSeqRecv
  \/ IncLastSeqSent
  \/ ClockJump

Spec == Init /\ [][Next]_vars

-----------------------------------------------------------------------------
(* Properties                                                              *)

\* Every field keeps its type; in particular the initial RTT is a
\* non-negative duration or the u64::MAX fallback even when the wallclock
\* went backwards between LINK and LINKED.
TypeOK ==
  /\ state \in {Unlinked, Linked} \cup {AwaitingLink(n) : n \in Nonces}
  /\ linkSent \in Times \cup {NoValue}
  /\ initRtt \in Nat \cup {NoValue, HugeRtt}
  /\ lastSeqRecv \in 0..MaxSeq
  /\ lastSeqSent \in 0..MaxSeq
  /\ closed \in BOOLEAN
  /\ completions \in Nat

\* Dropmark defence (handle_conflux_linked): a leg is linked only through a
\* LINKED cell from the join point carrying the nonce of our LINK, and no
\* LINKED cell with another nonce or from another hop was ever accepted.
LinkedOnlyByJoinPointWithOurNonce ==
  /\ state.tag = "Linked" => accepted # {}
  /\ \A m \in accepted : m = [hop |-> JoinPoint, nonce |-> OurNonce]

\* A replayed LINKED can never complete the handshake a second time: the
\* reactor is handed at most one ConfluxHandshakeComplete per leg.
HandshakeCompletesOnce == completions <= 1

\* The leg, seen through status(), implements the abstract leg life cycle
\* of ConfluxLeg.
Leg == INSTANCE ConfluxLeg WITH status <- Status, aborted <- closed
ImplementsConfluxLeg == Leg!Spec

=============================================================================
