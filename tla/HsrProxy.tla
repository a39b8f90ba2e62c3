------------------------------ MODULE HsrProxy ------------------------------
(***************************************************************************)
(* The onion-service reverse proxy of tor-hsrproxy (proxy.rs) with the    *)
(* copy tasks of a forwarded connection: the request loop and its request *)
(* tasks (ReverseProxy), and forward_connection, which connects to the     *)
(* local target, accepts the onion-service stream and spawns the two       *)
(* copy_interactive tasks, local-to-service first, then service-to-local.  *)
(*                                                                         *)
(* One forwarded connection is followed: the first whose connect and       *)
(* accept succeed.  Its local-to-service task is a CopyInteractive, in     *)
(* full; its service-to-local task runs the same code on the other,       *)
(* independent halves of the two streams, and only its spawn is recorded.  *)
(* Every later forward ends its request task like any other outcome of     *)
(* forward_connection, without being followed.                             *)
(***************************************************************************)
EXTENDS Naturals

CONSTANTS
    Ports, Configs, Slots,  \* as in ReverseProxy
    MaxChunks,              \* as in CopyInteractive
    CanFail                 \* connects, accepts, spawns, reads and writes
                            \* may fail

VARIABLES
    config, shutdownTx, handler, incoming, streamEnded, tasks,
    produced, ready, fin, pc, consumed, wbuf, delivered, closed, result,
    accepted,   \* the followed connection was accepted (Connected sent)
    spawned     \* its copy tasks runtime.spawn started: "l2s", "s2l"

RP == INSTANCE ReverseProxy
L2S == INSTANCE CopyInteractive

rpVars == <<config, shutdownTx, handler, incoming, streamEnded, tasks>>
copyVars == <<produced, ready, fin, pc, consumed, wbuf, delivered, closed,
              result>>
vars == <<rpVars, copyVars, accepted, spawned>>

Init ==
    /\ RP!Init
    /\ L2S!Init
    /\ accepted = FALSE
    /\ spawned = {}

(* The spawns at the end of forward_connection: each `?` returns on a     *)
(* failed spawn, so the second task is spawned only after the first.      *)
SpawnOutcomes ==
    {{"l2s", "s2l"}} \cup (IF CanFail THEN {{}, {"l2s"}} ELSE {})

(* forward_connection for request task s.  For the followed connection,    *)
(* the connect and the accept succeed and the two tasks are spawned, or a *)
(* spawn fails.  Otherwise the connect fails and the stream is rejected,   *)
(* or the accept fails, or the connection is one that is not followed.     *)
ForwardConnection(s) ==
    /\ RP!ForwardConnection(s)
    /\ \/ /\ ~accepted
          /\ accepted' = TRUE
          /\ spawned' \in SpawnOutcomes
       \/ /\ CanFail \/ accepted
          /\ UNCHANGED <<accepted, spawned>>
    /\ UNCHANGED copyVars

RequestTaskStep(s) ==
    \/ RP!RunAction(s) /\ UNCHANGED <<copyVars, accepted, spawned>>
    \/ ForwardConnection(s)

HandlerSelect ==
    RP!HandlerSelect /\ UNCHANGED <<copyVars, accepted, spawned>>

(* The user's calls and the rendezvous requests.                           *)
Environment ==
    /\ \/ \E c \in Configs : RP!Reconfigure(c)
       \/ RP!Shutdown
       \/ \E r \in RP!Requests : RP!NewRequest(r)
       \/ RP!StreamEnds
    /\ UNCHANGED <<copyVars, accepted, spawned>>

(* One poll of the local-to-service copy task, once spawned.              *)
CopyStep ==
    /\ "l2s" \in spawned
    /\ L2S!CopyStep
    /\ UNCHANGED <<rpVars, accepted, spawned>>

(* The local target writes to its end of the connection, or the onion     *)
(* stream sends buffered data, once the connection is accepted.           *)
StreamsStep ==
    /\ accepted
    /\ \/ L2S!PeerSends
       \/ \E how \in {"eof", "err"} : L2S!PeerEnds(how)
       \/ L2S!WriterSends
    /\ UNCHANGED <<rpVars, accepted, spawned>>

(* handle_requests has returned, the request tasks have finished, and the *)
(* followed copy task has returned or was never spawned.                  *)
Terminated ==
    /\ RP!Terminated
    /\ pc = "done" \/ "l2s" \notin spawned
    /\ UNCHANGED vars

Next ==
    \/ HandlerSelect
    \/ \E s \in Slots : RequestTaskStep(s)
    \/ Environment
    \/ CopyStep
    \/ StreamsStep
    \/ Terminated

(* The handler, every request task and the spawned copy task are polled   *)
(* whenever they can make progress; the clients, the user, the local      *)
(* target and the onion stream get no fairness.                           *)
Spec == Init /\ [][Next]_vars
        /\ WF_vars(HandlerSelect)
        /\ \A s \in Slots : WF_vars(RequestTaskStep(s))
        /\ WF_vars(CopyStep)

-----------------------------------------------------------------------------

TypeOK ==
    /\ RP!TypeOK
    /\ L2S!TypeOK
    /\ accepted \in BOOLEAN
    /\ spawned \in SUBSET {"l2s", "s2l"}

(* shutdown "shuts down all request-handlers": once the sender is dropped, *)
(* handle_requests eventually returns, while clients keep sending         *)
(* requests and forwarded connections keep copying.                       *)
ShutdownStopsHandler == RP!ShutdownStopsHandler

(* copy_interactive flushes before it waits on a stalled reader: while the *)
(* followed task waits, everything it read from the local target has been *)
(* sent on the onion stream.                                              *)
StalledReaderHasNothingBuffered == L2S!StalledReaderHasNothingBuffered

(* When the followed task has closed the onion stream, everything the      *)
(* local target wrote has been sent on it.                                *)
ClosedWriterSentEverything == L2S!ClosedWriterSentEverything

(* Every chunk the followed task reads is eventually sent or the task      *)
(* returns, even when the local target goes silent without closing, and   *)
(* whether or not the proxy was shut down meanwhile.                      *)
ReadChunkEventuallySent == L2S!ReadChunkEventuallySent

(* The onion stream is closed, not just flushed, only after a clean EOF    *)
(* from the local target.                                                 *)
CloseOnlyAfterCleanEof == L2S!CloseOnlyAfterCleanEof
====
