-------------------------- MODULE CopyInteractive --------------------------
(***************************************************************************)
(* copy_interactive of tor-hsrproxy (proxy.rs): one direction of a        *)
(* forwarded connection, copying from a reader to a writer.  The task     *)
(* polls the read once; data is written at once, and only a pending read  *)
(* makes it flush the writer before it waits.  After the loop, a clean    *)
(* EOF closes the writer and an error only flushes it.                    *)
(*                                                                         *)
(* Data is counted in reads (one read returns one chunk).  The writer     *)
(* buffers what write_all hands it; flush and close send the buffer, and  *)
(* the writer may also send buffered data on its own (a full cell).       *)
(***************************************************************************)
EXTENDS Naturals

CONSTANTS
    MaxChunks,     \* chunks the reader's peer sends at most
    CanFail        \* whether reads, writes, flushes and closes may fail

VARIABLES
    produced,      \* chunks the reader's peer has sent
    ready,         \* chunks the reader can return without waiting
    fin,           \* what the reader returns once drained: "open" (it
                   \* would block), "eof" (Ok(0)) or "err"
    pc,            \* "poll": top of the loop; "await": waiting on
                   \* read_future; "close" / "flush": after the loop;
                   \* "done": returned
    consumed,      \* chunks the task has read
    wbuf,          \* chunks written to the writer but not yet sent
    delivered,     \* chunks the writer has sent
    closed,        \* the writer was closed
    result         \* the returned IoResult: "none", "ok" or "err"

vars == <<produced, ready, fin, pc, consumed, wbuf, delivered, closed,
          result>>

Init ==
    /\ produced = 0 /\ ready = 0 /\ fin = "open"
    /\ pc = "poll" /\ consumed = 0 /\ wbuf = 0 /\ delivered = 0
    /\ closed = FALSE /\ result = "none"

(* A failing `?` returns from copy_interactive at once, skipping the      *)
(* flush or close after the loop.                                         *)
ReturnErr ==
    /\ pc' = "done" /\ result' = "err"

WriteAllNoConsume(cont) ==
    /\ consumed' = consumed + 1
    /\ ready' = ready
    /\ \/ wbuf' = wbuf + 1 /\ pc' = cont /\ UNCHANGED result
       \/ CanFail /\ ReturnErr /\ UNCHANGED wbuf
    /\ UNCHANGED <<delivered, closed>>

(* writer.write_all(&buf[..n]).await? for one chunk just read, then `cont`. *)
WriteAll(cont) ==
    /\ consumed' = consumed + 1
    /\ ready' = ready - 1
    /\ \/ wbuf' = wbuf + 1 /\ pc' = cont /\ UNCHANGED result
       \/ CanFail /\ ReturnErr /\ UNCHANGED wbuf
    /\ UNCHANGED <<delivered, closed>>

(* writer.flush().await? on a pending read, then wait on the read.        *)
FlushThenAwait ==
    /\ \/ delivered' = delivered + wbuf /\ wbuf' = 0 /\ pc' = "await"
          /\ UNCHANGED result
       \/ CanFail /\ ReturnErr /\ UNCHANGED <<delivered, wbuf>>
    /\ UNCHANGED <<consumed, ready, closed>>

(* The read has completed: data, Ok(0) (break Ok) or Err (break Err).     *)
ReadCompleted(cont) ==
    \/ ready > 0 /\ WriteAll(cont)
    \/ ready = 0 /\ fin = "eof" /\ pc' = "close"
       /\ UNCHANGED <<consumed, ready, wbuf, delivered, closed, result>>
    \/ ready = 0 /\ fin = "err" /\ pc' = "flush"
       /\ UNCHANGED <<consumed, ready, wbuf, delivered, closed, result>>

PollReadNoFlush ==
    /\ pc = "poll"
    /\ IF ready = 0 /\ fin = "open" THEN pc' = "await"
          /\ UNCHANGED <<consumed, ready, wbuf, delivered, closed, result>>
       ELSE ReadCompleted("poll")
    /\ UNCHANGED <<produced, fin>>

(* `poll!(&mut read_future)`: a ready read is handled and the loop goes   *)
(* on; a pending one makes the task flush the writer.                     *)
PollRead ==
    /\ pc = "poll"
    /\ IF ready = 0 /\ fin = "open" THEN FlushThenAwait
       ELSE ReadCompleted("poll")
    /\ UNCHANGED <<produced, fin>>

(* `read_future.await` once the reader has something to return.          *)
AwaitRead ==
    /\ pc = "await"
    /\ ready > 0 \/ fin # "open"
    /\ ReadCompleted("poll")
    /\ UNCHANGED <<produced, fin>>

FinishLoopDropBuffer ==
    /\ pc \in {"close", "flush"}
    /\ \/ /\ UNCHANGED <<delivered, wbuf>>
          /\ closed' = (pc = "close")
          /\ result' = "ok"
       \/ /\ CanFail /\ UNCHANGED <<delivered, wbuf, closed>>
          /\ result' = IF pc = "close" THEN "ok" ELSE "err"
    /\ pc' = "done"
    /\ UNCHANGED <<produced, ready, fin, consumed>>

FinishLoopAlwaysClose ==
    /\ pc \in {"close", "flush"}
    /\ \/ /\ delivered' = delivered + wbuf /\ wbuf' = 0
          /\ closed' = TRUE
          /\ result' = "ok"
       \/ /\ CanFail /\ UNCHANGED <<delivered, wbuf, closed>>
          /\ result' = IF pc = "close" THEN "ok" ELSE "err"
    /\ pc' = "done"
    /\ UNCHANGED <<produced, ready, fin, consumed>>

(* After the loop: close after a clean EOF, flush after an error, and     *)
(* return loop_result.or(flush_result).                                   *)
FinishLoop ==
    /\ pc \in {"close", "flush"}
    /\ \/ /\ delivered' = delivered + wbuf /\ wbuf' = 0
          /\ closed' = (pc = "close")
          /\ result' = "ok"
       \/ /\ CanFail /\ UNCHANGED <<delivered, wbuf, closed>>
          /\ result' = IF pc = "close" THEN "ok" ELSE "err"
    /\ pc' = "done"
    /\ UNCHANGED <<produced, ready, fin, consumed>>

(* The peer behind the reader: it sends a chunk, ends cleanly, or the     *)
(* read fails.  It may also stay silent for ever.                         *)
PeerSends ==
    /\ fin = "open"
    /\ produced < MaxChunks
    /\ produced' = produced + 1
    /\ ready' = ready + 1
    /\ UNCHANGED <<fin, pc, consumed, wbuf, delivered, closed, result>>

PeerEnds(how) ==
    /\ fin = "open"
    /\ how = "eof" \/ CanFail
    /\ fin' = how
    /\ UNCHANGED <<produced, ready, pc, consumed, wbuf, delivered, closed,
                   result>>

(* The writer sends a full cell's worth of buffered data on its own.      *)
WriterSends ==
    /\ wbuf > 0
    /\ ~closed
    /\ wbuf' = wbuf - 1
    /\ delivered' = delivered + 1
    /\ UNCHANGED <<produced, ready, fin, pc, consumed, closed, result>>

(* copy_interactive has returned; its future is dropped.                 *)
Terminated ==
    /\ pc = "done"
    /\ UNCHANGED vars

CopyStep == PollRead \/ AwaitRead \/ FinishLoop

Next ==
    \/ CopyStep
    \/ PeerSends
    \/ \E how \in {"eof", "err"} : PeerEnds(how)
    \/ WriterSends
    \/ Terminated

(* The spawned task is polled whenever it can make progress; the peer and *)
(* the writer's own sending get no fairness.                              *)
Spec == Init /\ [][Next]_vars /\ WF_vars(CopyStep)

-----------------------------------------------------------------------------

TypeOK ==
    /\ produced \in 0..MaxChunks /\ ready \in 0..MaxChunks
    /\ fin \in {"open", "eof", "err"}
    /\ pc \in {"poll", "await", "close", "flush", "done"}
    /\ consumed \in 0..MaxChunks /\ wbuf \in 0..MaxChunks
    /\ delivered \in 0..MaxChunks
    /\ closed \in BOOLEAN /\ result \in {"none", "ok", "err"}
    /\ consumed + ready = produced

(* "flush it immediately whenever there's no more data coming": while the *)
(* task waits on a stalled reader, everything it has read has been sent.  *)
StalledReaderHasNothingBuffered ==
    pc = "await" => delivered = consumed

(* Every chunk the task reads is eventually sent by the writer or the    *)
(* task returns; this holds even when the reader's peer goes silent       *)
(* without closing, which is what flushing on a pending read is for.      *)
ReadChunkEventuallySent ==
    \A k \in 1..MaxChunks :
        consumed >= k ~> (delivered >= k \/ pc = "done")

(* When the task has closed the writer, everything the reader's peer    *)
(* sent has been sent on: nothing is left in the reader or in the         *)
(* writer's buffer.                                                       *)
ClosedWriterSentEverything ==
    closed => delivered = produced

(* The writer is closed, not just flushed, only when the reader reported *)
(* a clean EOF ("we only want to do a proper close if the reader closed   *)
(* cleanly").                                                             *)
CloseOnlyAfterCleanEof ==
    [][~closed /\ closed' => fin = "eof" /\ ready = 0]_vars
====
