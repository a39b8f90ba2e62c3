------------------------------- MODULE CircHop -------------------------------
(***************************************************************************)
(* The reactor's view of a circuit's hops: CircHopList and CircHop in      *)
(* tor-proto/src/tunnel/reactor/circuit/circhop.rs, with the per-hop       *)
(* StreamMap and CongestionControl they consume (not in src/: modelled     *)
(* from the spec, and marked so in PROJECT.json).                          *)
(*                                                                         *)
(* Each hop owns one stream table; an entry is Open, EndReceived (the      *)
(* peer's END arrived, the local user still holds the stream) or EndSent   *)
(* (we sent END, the peer's END has not arrived: a half-stream).  The      *)
(* local users open streams, queue outbound messages and read their        *)
(* sinks; the peer sends any relay message on any stream id; the reactor   *)
(* takes one ready item per iteration from ready_streams_iterator.  Any    *)
(* Err from handle_msg is circuit-fatal (circErr).                         *)
(***************************************************************************)
EXTENDS Naturals, Sequences, SequencesExt

CONSTANTS
  Hops,              \* HopNum of each hop of the circuit
  StreamIds,         \* the stream ids a hop can allocate
  UsesStreamSendme,  \* [Hops -> BOOLEAN]: ccontrol.uses_stream_sendme()
  CircWindow,        \* cells the congestion window lets be in flight
  StreamWindow,      \* SEND_WINDOW_INIT, the window-based stream send window
  SendmeInc,         \* cells acknowledged by one stream-level SENDME
  SinkCap,           \* capacity of a stream's inbound mpsc sink
  MaxQueued,         \* bound: outbound messages a user may queue at once
  MaxDropped         \* bound: the dropped-cell counter

ASSUME /\ UsesStreamSendme \in [Hops -> BOOLEAN]
       /\ {CircWindow, StreamWindow, SendmeInc, SinkCap, MaxQueued} \subseteq Nat \ {0}
       /\ SendmeInc <= StreamWindow

\* Relay commands a peer can send on a stream.
InKinds == {"DATA", "END", "SENDME", "BEGIN"}

VARIABLES
  streams,   \* streams[h][id]: the stream-map entry and the local user's view
  rr,        \* rr[h]: the StreamMap's round-robin order over StreamIds
  inflight,  \* inflight[h]: cells counted against hop h's congestion window
  circErr    \* a protocol violation tore the circuit down

vars == <<streams, rr, inflight, circErr>>

(* A stream record: kind is the entry ("None" when absent); sink the      *)
(* messages queued for the user's reader; reader whether that reader is   *)
(* alive; dropped the OpenStreamEnt counter; outq the messages the user   *)
(* queued for sending; eof whether the user's sender is gone; swin the    *)
(* window-based send window; served flips each time the scheduler takes  *)
(* an item of this stream; ends the END cells sent on this incarnation;   *)
(* peerEndFirst whether the peer's END arrived while the stream was Open. *)
NoStream ==
  [kind |-> "None", sink |-> <<>>, reader |-> TRUE, dropped |-> 0, outq |-> 0,
   eof |-> FALSE, swin |-> 0, served |-> FALSE, ends |-> 0, peerEndFirst |-> FALSE]

\* CircHop::build_send_flow_ctrl: window-based when the hop's congestion
\* control uses stream-level SENDMEs, XON/XOFF-based otherwise.
BuildSendFlowCtrl(h) == IF UsesStreamSendme[h] THEN StreamWindow ELSE 0

\* StreamMap::add_ent / add_ent_with_id: a fresh Open entry.
NewStream(h) == [NoStream EXCEPT !.kind = "Open", !.swin = BuildSendFlowCtrl(h)]

\* Fault injected for checking: the hop is polled whatever its congestion
\* window says.
CanSendIgnored(h) == TRUE

\* CongestionControl::can_send
CanSend(h) == inflight[h] < CircWindow

\* StreamSendFlowControl: may this stream send one more DATA message?
StreamCanSend(h, s) == ~UsesStreamSendme[h] \/ s.swin > 0

\* The item StreamMap::poll_ready_streams_iter yields for an Open stream:
\* a queued message the flow control lets through, or the end of the user's
\* sender once everything queued has gone.
Ready(h, s) ==
  /\ s.kind = "Open"
  /\ \/ s.outq > 0 /\ StreamCanSend(h, s)
     \/ s.outq = 0 /\ s.eof

\* Fault injected for checking: the first ready stream by lowest id, with
\* no round-robin memory.
FirstReadyFixedOrder(h) ==
  LET ids == {id \in StreamIds : Ready(h, streams[h][id])}
  IN  IF ids = {} THEN {} ELSE {CHOOSE id \in ids : \A o \in ids : id <= o}

\* StreamMap::poll_ready_streams_iter(..).next(): the first ready stream in
\* round-robin order (empty when no stream is ready).
FirstReady(h) ==
  LET ids == {i \in 1..Len(rr[h]) : Ready(h, streams[h][rr[h][i]])}
  IN  IF ids = {} THEN {}
      ELSE {rr[h][CHOOSE i \in ids : \A j \in ids : i <= j]}

\* The round robin moves the stream it served to the back.
Rotate(seq, id) ==
  SelectSeq(seq, LAMBDA x : x # id) \o <<id>>

Init ==
  /\ streams = [h \in Hops |-> [id \in StreamIds |-> NoStream]]
  /\ rr = [h \in Hops |-> SetToSeq(StreamIds)]
  /\ inflight = [h \in Hops |-> 0]
  /\ circErr = FALSE

\* A protocol violation: handle_msg returned Err and the reactor closes the
\* circuit.
CircProtoError ==
  /\ circErr' = TRUE
  /\ UNCHANGED <<streams, rr, inflight>>

Set(h, id, s) == streams' = [streams EXCEPT ![h][id] = s]

\* The stream map forgets an entry; the END history of the incarnation is
\* kept until the id is allocated again.
Removed(s) == [NoStream EXCEPT !.ends = s.ends, !.peerEndFirst = s.peerEndFirst]

\* StreamMap::terminate: an Open entry becomes a half-stream and asks for an
\* END (ShouldSendEnd::Send); an entry whose END was received is removed
\* and asks for none.
ShouldSendEnd(s) == s.kind = "Open"
Terminate(s) == IF s.kind = "Open" THEN [s EXCEPT !.kind = "EndSent"] ELSE Removed(s)

\* Fault injected for checking: the END is sent whatever terminate says.
CloseStreamAlwaysEnd(h, id) ==
  LET s == streams[h][id]
  IN  /\ s.kind \in {"Open", "EndReceived"}
      /\ Set(h, id, [Terminate(s) EXCEPT !.ends = @ + 1])

\* CircHop::close_stream with CloseStreamBehavior::default() (SendEnd): the
\* entry is terminated and an END cell is produced iff terminate says so.
CloseStream(h, id) ==
  LET s == streams[h][id]
  IN  /\ s.kind \in {"Open", "EndReceived"}
      /\ Set(h, id, [Terminate(s) EXCEPT !.ends = @ + (IF ShouldSendEnd(s) THEN 1 ELSE 0)])

\* CircHop::begin_stream: StreamMap::add_ent allocates an id with no entry
\* (a half-stream still waiting for the peer's END keeps its id in use).
BeginStream(h) ==
  /\ ~circErr
  /\ \E id \in StreamIds :
       /\ streams[h][id].kind = "None"
       /\ Set(h, id, NewStream(h))
  /\ UNCHANGED <<rr, inflight, circErr>>

\* The local user queues an outbound message on its stream.
UserWrite(h, id) ==
  /\ ~circErr
  /\ streams[h][id].kind = "Open"
  /\ ~streams[h][id].eof
  /\ streams[h][id].outq < MaxQueued
  /\ Set(h, id, [streams[h][id] EXCEPT !.outq = @ + 1])
  /\ UNCHANGED <<rr, inflight, circErr>>

\* The local user drops its sender: the stream's rx yields None once the
\* queued messages are gone.
UserEof(h, id) ==
  /\ ~circErr
  /\ streams[h][id].kind \in {"Open", "EndReceived"}
  /\ ~streams[h][id].eof
  /\ Set(h, id, [streams[h][id] EXCEPT !.eof = TRUE])
  /\ UNCHANGED <<rr, inflight, circErr>>

\* The local user reads the next inbound message from its sink.
UserRead(h, id) ==
  /\ ~circErr
  /\ streams[h][id].sink # <<>>
  /\ Set(h, id, [streams[h][id] EXCEPT !.sink = Tail(@)])
  /\ UNCHANGED <<rr, inflight, circErr>>

\* The local user drops its reader: the sink is disconnected.
UserDropReader(h, id) ==
  /\ ~circErr
  /\ streams[h][id].kind \in {"Open", "EndReceived"}
  /\ streams[h][id].reader
  /\ Set(h, id, [streams[h][id] EXCEPT !.reader = FALSE, !.sink = <<>>])
  /\ UNCHANGED <<rr, inflight, circErr>>

\* OpenStreamEnt::take_capacity_to_send: a DATA message uses one cell of a
\* window-based stream's send window.
TakeCapacityToSend(h, s) ==
  IF UsesStreamSendme[h] THEN [s EXCEPT !.swin = @ - 1] ELSE s

\* One item of CircHopList::ready_streams_iterator, taken and handled by
\* the reactor: only a hop whose congestion control can_send is polled; its
\* first ready stream in round-robin order yields either a message
\* (CircuitCmd::Send, which takes stream and circuit window) or, once its
\* sender is gone, CircuitCmd::CloseStream, handled by close_stream.
ServeHop(h) ==
  /\ ~circErr
  /\ CanSend(h)
  /\ \E id \in FirstReady(h) :
       LET s == [streams[h][id] EXCEPT !.served = ~@]
       IN  /\ rr' = [rr EXCEPT ![h] = Rotate(@, id)]
           /\ \/ /\ s.outq > 0
                 /\ Set(h, id, TakeCapacityToSend(h, [s EXCEPT !.outq = @ - 1]))
                 /\ inflight' = [inflight EXCEPT ![h] = @ + 1]
              \/ /\ s.outq = 0
                 /\ CloseStream(h, id)
                 /\ UNCHANGED inflight
  /\ UNCHANGED circErr

\* The reactor closes a stream the peer already ended once its user let go
\* of it: the stream's rx yields None, and ready_streams_iterator returns
\* CircuitCmd::CloseStream, handled by close_stream.
CloseEndedStream(h, id) ==
  /\ ~circErr
  /\ streams[h][id].kind = "EndReceived"
  /\ streams[h][id].eof
  /\ CloseStream(h, id)
  /\ UNCHANGED <<rr, inflight, circErr>>

\* StreamSendFlowControl::put_for_incoming_sendme: a stream-level SENDME is
\* a protocol violation under XON/XOFF flow control, and on a window-based
\* stream when it would grow the window past its initial size.
PutForIncomingSendmeOk(h, s) ==
  UsesStreamSendme[h] /\ s.swin + SendmeInc <= StreamWindow

\* The data-stream cmd_checker: DATA keeps the stream open, END closes it,
\* anything else on an open data stream is a protocol violation.
CheckMsg(cmd) == CASE cmd = "DATA" -> "Open"
                   [] cmd = "END"  -> "Closed"
                   [] OTHER        -> "Err"

\* The sink's try_send: a full sink of a live reader is an error; a
\* disconnected sink loses the message, counted in `dropped` when the cell
\* counts toward windows.
TrySend(s, cmd, counts) ==
  IF s.reader THEN [s EXCEPT !.sink = Append(@, cmd)]
  ELSE IF counts THEN [s EXCEPT !.dropped = @ + 1] ELSE s

SinkFull(s) == s.reader /\ Len(s.sink) = SinkCap

\* CircHop::deliver_msg_to_stream on an Open entry, followed by
\* ending_msg_received when the message closes the stream.  A SENDME is
\* consumed here and never reaches the sink.
DeliverMsgToStream(h, id, cmd, counts) ==
  LET s == streams[h][id]
  IN  \/ /\ cmd = "SENDME"
         /\ PutForIncomingSendmeOk(h, s)
         /\ Set(h, id, [s EXCEPT !.swin = @ + SendmeInc])
         /\ UNCHANGED <<rr, inflight, circErr>>
      \/ /\ cmd = "SENDME"
         /\ ~PutForIncomingSendmeOk(h, s)
         /\ CircProtoError
      \/ /\ cmd # "SENDME"
         /\ CheckMsg(cmd) = "Err"
         /\ CircProtoError
      \/ /\ CheckMsg(cmd) \in {"Open", "Closed"}
         /\ SinkFull(s)
         /\ CircProtoError
      \/ /\ CheckMsg(cmd) \in {"Open", "Closed"}
         /\ ~SinkFull(s)
         /\ s.reader \/ ~counts \/ s.dropped < MaxDropped
         /\ LET s1 == TrySend(s, cmd, counts)
            IN  Set(h, id, IF CheckMsg(cmd) = "Closed"
                           THEN [s1 EXCEPT !.kind = "EndReceived", !.peerEndFirst = TRUE]
                           ELSE s1)
         /\ UNCHANGED <<rr, inflight, circErr>>

\* The service side takes a handed-back BEGIN as a new incoming stream:
\* add_ent_with_id on the id, which fails if the id is still in use.
AcceptIncoming(h, id) ==
  \/ /\ streams[h][id].kind = "None"
     /\ Set(h, id, NewStream(h))
     /\ UNCHANGED <<rr, inflight, circErr>>
  \/ /\ streams[h][id].kind # "None"
     /\ CircProtoError

\* CircHop::handle_msg (built with hs-service): the peer sends relay command
\* cmd on stream id of hop h.  On a half-stream, BEGIN tears the entry
\* down and is handed back; anything else goes to HalfStream::handle_msg,
\* which accepts DATA and SENDME and is closed by END.  A cell for a stream
\* the map does not hand out is a protocol violation.
HandleMsg(h, id, cmd, counts) ==
  LET s == streams[h][id]
  IN  /\ ~circErr
      /\ \/ /\ s.kind = "Open"
            /\ DeliverMsgToStream(h, id, cmd, counts)
         \/ /\ s.kind = "EndSent"
            /\ cmd = "BEGIN"
            /\ Set(h, id, NewStream(h))
            /\ UNCHANGED <<rr, inflight, circErr>>
         \/ /\ s.kind = "EndSent"
            /\ cmd = "END"
            /\ Set(h, id, Removed(s))
            /\ UNCHANGED <<rr, inflight, circErr>>
         \/ /\ s.kind = "EndSent"
            /\ cmd \in {"DATA", "SENDME"}
            /\ UNCHANGED vars
         \/ /\ s.kind = "None"
            /\ cmd = "BEGIN"
            /\ AcceptIncoming(h, id)
         \/ /\ s.kind \in {"None", "EndReceived"}
            /\ ~(s.kind = "None" /\ cmd = "BEGIN")
            /\ CircProtoError

\* A circuit-level SENDME from hop h acknowledges an in-flight cell and
\* reopens its congestion window (CongestionControl, driven by the reactor).
CircuitSendme(h) ==
  /\ ~circErr
  /\ inflight[h] > 0
  /\ inflight' = [inflight EXCEPT ![h] = @ - 1]
  /\ UNCHANGED <<streams, rr, circErr>>

\* A well-behaved peer's stream-level SENDME.
GoodStreamSendme(h, id) ==
  /\ streams[h][id].kind = "Open"
  /\ PutForIncomingSendmeOk(h, streams[h][id])
  /\ HandleMsg(h, id, "SENDME", TRUE)

Next ==
  \/ \E h \in Hops : BeginStream(h) \/ ServeHop(h) \/ CircuitSendme(h)
  \/ \E h \in Hops, id \in StreamIds :
       \/ UserWrite(h, id) \/ UserEof(h, id) \/ UserRead(h, id)
       \/ UserDropReader(h, id) \/ CloseEndedStream(h, id)
       \/ \E cmd \in InKinds, counts \in BOOLEAN : HandleMsg(h, id, cmd, counts)

\* The reactor keeps taking items from ready_streams_iterator while one is
\* ready, and a live peer acknowledges the cells it receives.
Fairness ==
  /\ \A h \in Hops : WF_vars(ServeHop(h)) /\ WF_vars(CircuitSendme(h))
  /\ \A h \in Hops, id \in StreamIds : WF_vars(GoodStreamSendme(h, id))

Spec == Init /\ [][Next]_vars /\ Fairness

-----------------------------------------------------------------------------
(* Properties                                                              *)

StreamRecords ==
  [kind : {"None", "Open", "EndReceived", "EndSent"},
   sink : Seq({"DATA", "END"}), reader : BOOLEAN, dropped : 0..MaxDropped,
   outq : 0..MaxQueued, eof : BOOLEAN, swin : 0..StreamWindow,
   served : BOOLEAN, ends : Nat, peerEndFirst : BOOLEAN]

\* Every stream record, counter and round-robin order keeps its type; the
\* send windows never go negative and no sink holds more than its capacity.
TypeOK ==
  /\ streams \in [Hops -> [StreamIds -> StreamRecords]]
  /\ \A h \in Hops, id \in StreamIds : Len(streams[h][id].sink) <= SinkCap
  /\ \A h \in Hops : ToSet(rr[h]) = StreamIds /\ Len(rr[h]) = Cardinality(StreamIds)
  /\ inflight \in [Hops -> 0..CircWindow]
  /\ circErr \in BOOLEAN

\* close_stream sends at most one END per stream incarnation, and none when
\* the peer's END arrived first (the "80% sure" TODO in close_stream).
NoRedundantEnd ==
  \A h \in Hops, id \in StreamIds :
    streams[h][id].ends + (IF streams[h][id].peerEndFirst THEN 1 ELSE 0) <= 1

\* No starvation: an open stream with a queued message is eventually
\* served by the round robin (or stops being open), even while the other
\* streams of its hop are kept busy.
QueuedStreamServed ==
  \A h \in Hops, id \in StreamIds, b \in BOOLEAN :
    (/\ streams[h][id].kind = "Open" /\ streams[h][id].outq > 0
     /\ streams[h][id].served = b)
      ~> (streams[h][id].served # b \/ streams[h][id].kind # "Open" \/ circErr)

=============================================================================
