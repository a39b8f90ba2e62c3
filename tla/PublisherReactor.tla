--------------------------- MODULE PublisherReactor ---------------------------
(***************************************************************************)
(* The onion-service descriptor publisher: Reactor in                      *)
(* tor-hsservice/src/publish/reactor.rs, its upload tasks                  *)
(* (upload_for_time_period) and, as environment, the IPT manager, the      *)
(* directory provider, the configuration and the HsDirs that store the     *)
(* descriptors.                                                            *)
(*                                                                         *)
(* A descriptor is abstracted to what distinguishes versions of it: the    *)
(* IPT set it was built from (iptVer, read when the task builds it), the   *)
(* config and authorized clients (cfgVer, captured when the task is       *)
(* spawned), and its revision counter (the wallclock second of the build,  *)
(* `now`).  An HsDir keeps a descriptor only if its revision counter is    *)
(* higher than the one it holds.                                           *)
(*                                                                         *)
(* The State the reactor reports on status_tx (svcState) and the upload    *)
(* results it is derived from (uploadRes) are written, never read, by the  *)
(* rest of the reactor.                                                    *)
(***************************************************************************)
EXTENDS Naturals, Sequences, SequencesExt

CONSTANTS
  TPs,             \* time periods, as naturals
  HsDirsOf,        \* [TPs -> SUBSET HsDirs]: the HsDir ring of each period
  RelevantChoices, \* the orderings of time periods a consensus may make relevant
  MaxNow,          \* bound: wallclock seconds, hence revision counters
  MaxIptVer,       \* bound: IPT set changes
  MaxCfgVer,       \* bound: config and authorized-client changes
  MaxTasks,        \* bound: upload tasks in flight at once
  MaxPowUpdates,   \* bound: seed updates the PoW manager sends (0: no PoW)
  MaxDirtyEvents,  \* bound: config, key-dir and PoW events together
  ClockCanJumpBack, \* the wallclock may be set backwards
  NoRev            \* Option::None for a revision counter

ASSUME /\ RelevantChoices # {}
       /\ \A s \in RelevantChoices : \A i \in DOMAIN s : s[i] \in TPs

Statuses == {"UploadScheduled", "RateLimited", "Idle", "AwaitingIpts"}

\* The onion-service State values the publisher sends on status_tx, and
\* Broken for send_broken.
SvcStates == {"Bootstrapping", "Running", "DegradedReachable",
              "DegradedUnreachable", "Broken"}

VARIABLES
  status,     \* PublishStatus held by the publish_status watch
  notified,   \* the watch holds a value publish_status_rx.next() has not yielded
  recent,     \* last_uploaded is less than UPLOAD_RATE_LIM_THRESHOLD ago
  rlDue,      \* the `until` of RateLimited(until) has passed
  relevant,   \* inner.time_periods, in the order of hs_all_time_periods
  hsStatus,   \* hsStatus[tp][d]: the DescriptorStatus of HsDir d in period tp
  lastSucc,   \* lastSucc[tp]: last_successful of period tp
  reupload,   \* the periods with a ReuploadTimer in reupload_timers
  notedIpt,   \* the IPT version the reactor last handled a change for
  cfgVer,     \* version of inner.config and inner.authorized_clients
  authOk,     \* authorized_clients() is Ok (not restricted mode with no clients)
  now,        \* the wallclock second
  iptVer,     \* version of the IPT manager's IPT set
  ipts,       \* the IPT manager has IPTs (ipts.ipts is Some)
  iptNotify,  \* ipt_watcher.await_update() is ready
  powSent,    \* seed updates the PoW manager has sent so far
  tasks,      \* upload tasks in flight (sequence of task records)
  resultsQ,   \* upload_task_complete channel: TimePeriodUploadResults
  uploadRes,  \* uploadRes[tp]: the is_ok() of each HsDirUploadStatus in the
              \* upload_results of period tp's TimePeriodContext
  svcState,   \* the State last sent on status_tx
  stored,     \* stored[tp][d]: the descriptor HsDir d holds for period tp
  revClash    \* history: an HsDir was sent a different descriptor with the
              \* revision counter of the one it holds

reactorVars == <<status, notified, recent, rlDue, relevant, hsStatus, lastSucc,
                 reupload, notedIpt, cfgVer, authOk, uploadRes, svcState>>
envVars == <<now, iptVer, ipts, iptNotify, powSent>>
vars == <<reactorVars, envVars, tasks, resultsQ, stored, revClash>>

Rel == {relevant[i] : i \in DOMAIN relevant}

\* Bound on the external events that re-dirty the descriptor (config and
\* key-dir changes, PoW seed updates), taken together.
DirtyEventLeft == cfgVer + powSent < MaxDirtyEvents

\* The descriptor an HsDir holds before any upload.
NoDesc == [rev |-> NoRev, ipt |-> 0, cfg |-> 0]

\* Every HsDir of a period that is not (or no longer) relevant is Dirty: a
\* TimePeriodContext created for it starts with every HsDir Dirty.
AllDirty == [tp \in TPs |-> [d \in HsDirsOf[tp] |-> "Dirty"]]

\* TimePeriodContext::mark_all_dirty for every relevant period
\* (Reactor::mark_all_dirty).
MarkAllDirty(hs) == [tp \in TPs |-> IF tp \in Rel THEN AllDirty[tp] ELSE hs[tp]]

\* Reactor::mark_dirty: TRUE iff tp is still relevant.
MarkDirty(hs, tp) == IF tp \in Rel THEN [hs EXCEPT ![tp] = AllDirty[tp]] ELSE hs

DirtyDirs(hs, tp) == {d \in HsDirsOf[tp] : hs[tp][d] = "Dirty"}

\* The State update_publish_status sends on status_tx for a new status:
\* Bootstrapping for every status but Idle, which sends nothing.
OnionStatusOf(st) == IF st = "Idle" THEN svcState ELSE "Bootstrapping"

\* Fault injected for checking: the status changes without waking the
\* watch's receiver.
PublishSilently(st) == status' = st /\ UNCHANGED notified /\ svcState' = OnionStatusOf(st)

\* Reactor::update_publish_status: the onion-service status is reported and
\* the watch is sent the new status.
Publish(st) == status' = st /\ notified' = TRUE /\ svcState' = OnionStatusOf(st)

\* update_publish_status_unless_waiting
PublishUnlessWaiting(new) ==
  IF status = "AwaitingIpts" THEN UNCHANGED <<status, notified, svcState>>
  ELSE Publish(new)

\* update_publish_status_unless_rate_lim
PublishUnlessRateLim(new) ==
  IF status = "RateLimited" THEN UNCHANGED <<status, notified, svcState>>
  ELSE Publish(new)

(***************************************************************************)
(* Upload tasks                                                            *)
(***************************************************************************)

\* The task spawned for one period: the Dirty HsDirs it uploads to and the
\* config and clients captured from inner.
NewTask(hs, tp) ==
  [tp |-> tp, cfg |-> cfgVer, todo |-> DirtyDirs(hs, tp), built |-> {}, res |-> <<>>]

\* The loop of upload_all over inner.time_periods: a task per period, but
\* the loop returns at the first period with no Dirty HsDir.
RECURSIVE SpawnTasks(_, _)
SpawnTasks(hs, seq) ==
  IF seq = <<>> \/ DirtyDirs(hs, Head(seq)) = {} THEN <<>>
  ELSE <<NewTask(hs, Head(seq))>> \o SpawnTasks(hs, Tail(seq))

\* Fault injected for checking: upload_all without its rate limit.
UploadAllNoRateLimit(st, nt, hs) ==
  \/ /\ ~authOk
     /\ status' = st /\ notified' = nt /\ svcState' = "Broken"
     /\ UNCHANGED <<recent, rlDue, tasks>>
  \/ /\ authOk
     /\ Len(tasks) + Len(SpawnTasks(hs, relevant)) <= MaxTasks
     /\ recent' = TRUE
     /\ tasks' = tasks \o SpawnTasks(hs, relevant)
     /\ status' = st /\ notified' = nt
     /\ UNCHANGED <<rlDue, svcState>>

\* Reactor::upload_all, entered with status st and watch flag nt and the
\* HsDir statuses hs: abort, reporting the service broken, when the
\* authorized clients are unusable; start_rate_limit (update_publish_status
\* to RateLimited) when the last upload is too recent; otherwise stamp
\* last_uploaded and spawn the tasks.
UploadAll(st, nt, hs) ==
  \/ /\ ~authOk
     /\ status' = st /\ notified' = nt /\ svcState' = "Broken"
     /\ UNCHANGED <<recent, rlDue, tasks>>
  \/ /\ authOk
     /\ recent
     /\ IF st # "RateLimited"
        THEN status' = "RateLimited" /\ notified' = TRUE /\ rlDue' = FALSE
             /\ svcState' = "Bootstrapping"
        ELSE status' = st /\ notified' = nt /\ UNCHANGED <<rlDue, svcState>>
     /\ UNCHANGED <<recent, tasks>>
  \/ /\ authOk
     /\ ~recent
     /\ Len(tasks) + Len(SpawnTasks(hs, relevant)) <= MaxTasks
     /\ recent' = TRUE
     /\ tasks' = tasks \o SpawnTasks(hs, relevant)
     /\ status' = st /\ notified' = nt
     /\ UNCHANGED <<rlDue, svcState>>

\* One HsDir upload future of upload_for_time_period starts: it reads the
\* IPT set and builds the descriptor, with a revision counter from the
\* wallclock (generate_revision_counter).  With no IPTs the future fails
\* with NoIpts, try_collect drops the others and no result is ever sent.
BuildDescriptor(i, d) ==
  LET t == tasks[i]
  IN  /\ d \in t.todo
      /\ \/ /\ ipts
            /\ tasks' = [tasks EXCEPT ![i].todo = @ \ {d},
                                     ![i].built = @ \cup {[d |-> d, rev |-> now,
                                                           ipt |-> iptVer, cfg |-> t.cfg]}]
         \/ /\ ~ipts
            /\ tasks' = RemoveAt(tasks, i)
      /\ UNCHANGED <<reactorVars, envVars, resultsQ, stored, revClash>>

\* upload_descriptor_with_retries for one built descriptor.  The HsDir keeps
\* it only when its revision counter is higher than the one it holds; the
\* outcome the task records is Ok or, when every retry failed, Err (an
\* HsDir may have stored a descriptor whose acknowledgement was lost).
UploadDescriptor(i, b) ==
  LET t    == tasks[i]
      held == stored[t.tp][b.d]
      fresh == IF held.rev = NoRev THEN TRUE ELSE held.rev < b.rev
      desc == [rev |-> b.rev, ipt |-> b.ipt, cfg |-> b.cfg]
  IN  /\ b \in t.built
      /\ \E keep \in BOOLEAN, ok \in BOOLEAN :
           /\ keep => fresh
           /\ ok => keep
           /\ stored' = IF keep THEN [stored EXCEPT ![t.tp][b.d] = desc] ELSE stored
           /\ tasks' = [tasks EXCEPT ![i].built = @ \ {b},
                          ![i].res = Append(@, [d |-> b.d, ok |-> ok, rev |-> b.rev])]
      /\ revClash' = (revClash \/ (held.rev = b.rev /\ held # desc))
      /\ UNCHANGED <<reactorVars, envVars, resultsQ>>

\* The end of upload_for_time_period: the outcomes of every HsDir, in
\* completion order, go to the reactor as one TimePeriodUploadResult.
FinishUploadTask(i) ==
  /\ tasks[i].todo = {}
  /\ tasks[i].built = {}
  /\ resultsQ' = Append(resultsQ, [tp |-> tasks[i].tp, res |-> tasks[i].res])
  /\ tasks' = RemoveAt(tasks, i)
  /\ UNCHANGED <<reactorVars, envVars, stored, revClash>>

(***************************************************************************)
(* The reactor loop (Reactor::run_once)                                    *)
(***************************************************************************)

\* The loop of handle_upload_results over one batch: an Ok outcome marks its
\* HsDir Clean when last_successful is None or not above its revision
\* counter, and raises last_successful.
\* Faults injected for checking: the batch loop without the is_ok() test,
\* and recording one past the revision counter.
RECURSIVE ApplyResultsIgnoringOk(_, _)
ApplyResultsIgnoringOk(res, acc) ==
  IF res = <<>> THEN acc
  ELSE LET r == Head(res)
           upd == acc.last = NoRev \/ acc.last <= r.rev
       IN  ApplyResultsIgnoringOk(Tail(res),
                        IF upd THEN [last |-> r.rev, st |-> [acc.st EXCEPT ![r.d] = "Clean"]]
                        ELSE acc)

RECURSIVE ApplyResultsOffByOne(_, _)
ApplyResultsOffByOne(res, acc) ==
  IF res = <<>> THEN acc
  ELSE LET r == Head(res)
           upd == r.ok /\ (acc.last = NoRev \/ acc.last <= r.rev)
       IN  ApplyResultsOffByOne(Tail(res),
                        IF upd THEN [last |-> r.rev + 1, st |-> [acc.st EXCEPT ![r.d] = "Clean"]]
                        ELSE acc)

RECURSIVE ApplyResults(_, _)
ApplyResults(res, acc) ==
  IF res = <<>> THEN acc
  ELSE LET r == Head(res)
           upd == r.ok /\ (acc.last = NoRev \/ acc.last <= r.rev)
       IN  ApplyResults(Tail(res),
                        IF upd THEN [last |-> r.rev, st |-> [acc.st EXCEPT ![r.d] = "Clean"]]
                        ELSE acc)

\* upload_result_state: the State of the service given its time periods
\* (in the order of hs_all_time_periods, the current one first) and their
\* upload results.  Fewer than two periods is DegradedUnreachable; no
\* success on one ring and no failure is Bootstrapping; successes on both
\* rings are Running, or DegradedReachable if some upload failed.
UploadResultState(rel, res) ==
  LET periods   == {rel[i] : i \in DOMAIN rel}
      succCur   == TRUE \in res[rel[1]]
      succSec   == \E tp \in periods \ {rel[1]} : TRUE \in res[tp]
      failed    == \E tp \in periods : FALSE \in res[tp]
  IN  CASE Len(rel) < 2                            -> "DegradedUnreachable"
        [] (~succCur \/ ~succSec) /\ ~failed        -> "Bootstrapping"
        [] succCur /\ succSec /\ ~failed            -> "Running"
        [] succCur /\ succSec                       -> "DegradedReachable"
        [] OTHER                                   -> "DegradedUnreachable"

\* The upload_task_complete_rx branch (first in select_biased!):
\* handle_upload_results ignores a period that is no longer relevant;
\* otherwise it pushes a ReuploadTimer, applies the outcomes and replaces
\* the period's upload_results (set_upload_results).  Then
\* upload_result_to_svc_status reports the State they give.
HandleUploadResults ==
  /\ resultsQ # <<>>
  /\ LET r == Head(resultsQ)
         acc == ApplyResults(r.res, [last |-> lastSucc[r.tp], st |-> hsStatus[r.tp]])
     IN  IF r.tp \in Rel
         THEN /\ reupload' = reupload \cup {r.tp}
              /\ lastSucc' = [lastSucc EXCEPT ![r.tp] = acc.last]
              /\ hsStatus' = [hsStatus EXCEPT ![r.tp] = acc.st]
              /\ uploadRes' = [uploadRes EXCEPT ![r.tp] =
                                 {r.res[j].ok : j \in DOMAIN r.res}]
         ELSE UNCHANGED <<reupload, lastSucc, hsStatus, uploadRes>>
  /\ svcState' = UploadResultState(relevant, uploadRes')
  /\ resultsQ' = Tail(resultsQ)
  /\ UNCHANGED <<status, notified, recent, rlDue, relevant, notedIpt, cfgVer, authOk,
                 envVars, tasks, stored, revClash>>

\* run_once: the RateLimited(until) deadline passed; expire_rate_limit.
ExpireRateLimit ==
  /\ status = "RateLimited"
  /\ rlDue
  /\ Publish("UploadScheduled")
  /\ UNCHANGED <<recent, rlDue, relevant, hsStatus, lastSucc, reupload, notedIpt,
                 cfgVer, authOk, uploadRes, envVars, tasks, resultsQ, stored, revClash>>

\* run_once: an elapsed ReuploadTimer is popped; mark_dirty and, if the
\* period is still relevant, schedule an upload unless rate-limited.
ReuploadTimerElapsed(tp) ==
  /\ tp \in reupload
  /\ reupload' = reupload \ {tp}
  /\ hsStatus' = MarkDirty(hsStatus, tp)
  /\ IF tp \in Rel THEN PublishUnlessRateLim("UploadScheduled")
                    ELSE UNCHANGED <<status, notified, svcState>>
  /\ UNCHANGED <<recent, rlDue, relevant, lastSucc, notedIpt, cfgVer, authOk,
                 uploadRes, envVars, tasks, resultsQ, stored, revClash>>

\* The netdir_events branch on NewConsensus: handle_consensus_change
\* recomputes the time periods (compute_time_periods: a period kept keeps
\* its HsDir statuses, a new one starts all Dirty, and every
\* TimePeriodContext::new starts with last_successful None and keeps the
\* upload results of the HsDirs still in the ring) and schedules an upload
\* unless waiting for IPTs.  The Bootstrapping that
\* update_publish_status reports is then replaced by the State
\* upload_result_to_svc_status computes for the new time periods.
HandleConsensusChange(choice) ==
  LET newRel == {choice[i] : i \in DOMAIN choice}
      newRes == [tp \in TPs |-> IF tp \in Rel \cap newRel THEN uploadRes[tp] ELSE {}]
  IN  /\ relevant' = choice
      /\ hsStatus' = [tp \in TPs |-> IF tp \in Rel \cap newRel THEN hsStatus[tp]
                                                              ELSE AllDirty[tp]]
      /\ lastSucc' = [tp \in TPs |-> NoRev]
      /\ uploadRes' = newRes
      /\ IF status = "AwaitingIpts" THEN UNCHANGED <<status, notified>>
         ELSE status' = "UploadScheduled" /\ notified' = TRUE
      /\ svcState' = UploadResultState(choice, newRes)
      /\ UNCHANGED <<recent, rlDue, reupload, notedIpt, cfgVer, authOk, envVars,
                     tasks, resultsQ, stored, revClash>>

\* The ipt_watcher branch: handle_ipt_change with note_ipt_change.
HandleIptChange ==
  /\ iptNotify
  /\ iptNotify' = FALSE
  /\ notedIpt' = iptVer
  /\ hsStatus' = MarkAllDirty(hsStatus)
  /\ PublishUnlessRateLim(IF ipts THEN "UploadScheduled" ELSE "AwaitingIpts")
  /\ UNCHANGED <<recent, rlDue, relevant, lastSucc, reupload, cfgVer, authOk,
                 uploadRes, now, iptVer, ipts, powSent, tasks, resultsQ, stored, revClash>>

\* The config_rx branch: handle_svc_config_change for a config that changes
\* the descriptor (replace_config_if_changed), which also re-reads the
\* authorized clients.
HandleSvcConfigChange ==
  /\ cfgVer < MaxCfgVer
  /\ DirtyEventLeft
  /\ cfgVer' = cfgVer + 1
  /\ authOk' \in BOOLEAN
  /\ hsStatus' = MarkAllDirty(hsStatus)
  /\ PublishUnlessWaiting("UploadScheduled")
  /\ UNCHANGED <<recent, rlDue, relevant, lastSucc, reupload, notedIpt, uploadRes,
                 envVars, tasks, resultsQ, stored, revClash>>

\* The key_dirs_rx branch: handle_key_dirs_change when
\* update_authorized_clients_if_changed reports a change.
HandleKeyDirsChange ==
  /\ cfgVer < MaxCfgVer
  /\ DirtyEventLeft
  /\ cfgVer' = cfgVer + 1
  /\ authOk' \in BOOLEAN
  /\ hsStatus' = MarkAllDirty(hsStatus)
  /\ PublishUnlessWaiting("UploadScheduled")
  /\ UNCHANGED <<recent, rlDue, relevant, lastSucc, reupload, notedIpt, uploadRes,
                 envVars, tasks, resultsQ, stored, revClash>>

\* select_biased! takes publish_status_rx only when no upload result, due
\* rate limit or IPT notification is ready.
StatusBranchSelectable ==
  /\ notified
  /\ resultsQ = <<>>
  /\ ~iptNotify
  /\ ~(status = "RateLimited" /\ rlDue)

\* The publish_status_rx branch: on UploadScheduled the status goes to Idle
\* (update_publish_status_unless_waiting) and upload_all runs; any other
\* status is only observed.
HandlePublishStatus ==
  /\ StatusBranchSelectable
  /\ \/ /\ status = "UploadScheduled"
        /\ UploadAll("Idle", TRUE, hsStatus)
     \/ /\ status # "UploadScheduled"
        /\ notified' = FALSE
        /\ UNCHANGED <<status, recent, rlDue, tasks, svcState>>
  /\ UNCHANGED <<relevant, hsStatus, lastSucc, reupload, notedIpt, cfgVer, authOk,
                 uploadRes, envVars, resultsQ, stored, revClash>>

\* The update_from_pow_manager_rx branch: mark_dirty(tp) then upload_all,
\* whatever the publish status.  The PoW manager sends one when it rotates
\* the seed of a period.
HandlePowSeedUpdate(tp) ==
  /\ powSent < MaxPowUpdates
  /\ DirtyEventLeft
  /\ powSent' = powSent + 1
  /\ hsStatus' = MarkDirty(hsStatus, tp)
  /\ UploadAll(status, notified, MarkDirty(hsStatus, tp))
  /\ UNCHANGED <<relevant, lastSucc, reupload, notedIpt, cfgVer, authOk, uploadRes,
                 now, iptVer, ipts, iptNotify, resultsQ, stored, revClash>>

(***************************************************************************)
(* Environment                                                             *)
(***************************************************************************)

\* The IPT manager publishes a new IPT set (possibly none) and notifies.
IptManagerUpdate ==
  /\ iptVer < MaxIptVer
  /\ iptVer' = iptVer + 1
  /\ ipts' \in BOOLEAN
  /\ iptNotify' = TRUE
  /\ UNCHANGED <<reactorVars, now, powSent, tasks, resultsQ, stored, revClash>>

\* The wallclock after at least a second: one second on, or, when the
\* clock can be set, any earlier second.  The rate limit and the
\* RateLimited deadline use the monotonic clock (runtime.now()), which
\* never goes back.
WallclockAfter(t) ==
  {t + 1} \cup (IF ClockCanJumpBack THEN 0..(t - 1) ELSE {})

\* At least a second passes: the wallclock moves, and the rate-limit
\* window of the last upload and the RateLimited deadline (never earlier
\* than the end of that window) may pass.  Upload futures start as soon as
\* their task is spawned, so every spawned descriptor is built first.
TimePasses ==
  /\ now < MaxNow
  /\ \A i \in DOMAIN tasks : tasks[i].todo = {}
  /\ now' \in WallclockAfter(now)
  /\ recent' \in {recent, FALSE}
  /\ rlDue' \in IF status = "RateLimited" THEN {rlDue, TRUE} ELSE {rlDue}
  /\ (rlDue' /\ ~rlDue) => ~recent'
  /\ UNCHANGED <<status, notified, relevant, hsStatus, lastSucc, reupload, notedIpt,
                 cfgVer, authOk, uploadRes, svcState, iptVer, ipts, iptNotify, powSent, tasks,
                 resultsQ, stored, revClash>>

\* Reactor::run: the first netdir gives the time periods, every HsDir Dirty;
\* the status starts as AwaitingIpts and nothing was uploaded yet.  The
\* publisher has sent nothing on status_tx; its State is taken to be
\* Bootstrapping.
Init ==
  /\ status = "AwaitingIpts"
  /\ notified = FALSE
  /\ recent = FALSE
  /\ rlDue = FALSE
  /\ relevant \in RelevantChoices
  /\ hsStatus = AllDirty
  /\ lastSucc = [tp \in TPs |-> NoRev]
  /\ uploadRes = [tp \in TPs |-> {}]
  /\ svcState = "Bootstrapping"
  /\ reupload = {}
  /\ notedIpt = 0
  /\ cfgVer = 0
  /\ authOk \in BOOLEAN
  /\ now = 0
  /\ iptVer = 0
  /\ ipts = FALSE
  /\ iptNotify = FALSE
  /\ powSent = 0
  /\ tasks = <<>>
  /\ resultsQ = <<>>
  /\ stored = [tp \in TPs |-> [d \in HsDirsOf[tp] |-> NoDesc]]
  /\ revClash = FALSE

\* One step of some upload task.
UploadTaskStep ==
  \E i \in DOMAIN tasks :
    \/ \E d \in HsDirsOf[tasks[i].tp] : BuildDescriptor(i, d)
    \/ \E b \in tasks[i].built : UploadDescriptor(i, b)
    \/ FinishUploadTask(i)

Next ==
  \/ HandleUploadResults
  \/ ExpireRateLimit
  \/ \E tp \in TPs : ReuploadTimerElapsed(tp) \/ HandlePowSeedUpdate(tp)
  \/ \E c \in RelevantChoices : HandleConsensusChange(c)
  \/ HandleIptChange
  \/ HandleSvcConfigChange
  \/ HandleKeyDirsChange
  \/ HandlePublishStatus
  \/ UploadTaskStep
  \/ IptManagerUpdate
  \/ TimePasses

\* The reactor task is polled whenever one of its branches is ready, the
\* spawned upload tasks run, and time passes.  Consensus, PoW, config and
\* key-dir events come from outside and get no fairness: they may keep
\* arriving or stop.
Fairness ==
  /\ WF_vars(HandleUploadResults)
  /\ WF_vars(ExpireRateLimit)
  /\ WF_vars(HandleIptChange)
  /\ WF_vars(HandlePublishStatus)
  /\ WF_vars(UploadTaskStep)
  /\ WF_vars(TimePasses)

Spec == Init /\ [][Next]_vars /\ Fairness

-----------------------------------------------------------------------------
(* Properties                                                              *)

Descs == [rev : 0..MaxNow \cup {NoRev}, ipt : 0..MaxIptVer, cfg : 0..MaxCfgVer]

\* Every variable keeps its type.
TypeOK ==
  /\ status \in Statuses
  /\ {notified, recent, rlDue, authOk, ipts, iptNotify, revClash} \subseteq BOOLEAN
  /\ powSent \in 0..MaxPowUpdates
  /\ relevant \in RelevantChoices
  /\ \A tp \in TPs : \A d \in HsDirsOf[tp] :
       /\ hsStatus[tp][d] \in {"Dirty", "Clean"}
       /\ stored[tp][d] \in Descs
  /\ lastSucc \in [TPs -> 0..MaxNow \cup {NoRev}]
  /\ reupload \subseteq TPs
  /\ uploadRes \in [TPs -> SUBSET BOOLEAN]
  /\ svcState \in SvcStates
  /\ notedIpt \in 0..iptVer
  /\ now \in 0..MaxNow
  /\ Len(tasks) <= MaxTasks

\* The rate limit of upload_all (#1142): an HsDir is never sent a
\* descriptor that differs from the one it holds but carries the same
\* revision counter, so no upload fails for having been built in the same
\* second as a different one.
SameRevisionSameDescriptor == ~revClash

\* handle_upload_results marks an HsDir Clean only on a successful upload:
\* a Clean HsDir of a relevant period holds a descriptor of ours.
CleanHsDirHoldsADescriptor ==
  \A tp \in Rel : \A d \in HsDirsOf[tp] :
    hsStatus[tp][d] = "Clean" => stored[tp][d].rev # NoRev

\* upload_all's documentation: each time it starts an upload round it
\* spawns a task for every current time period whose descriptor some HsDir
\* needs.
UploadAllServesEveryDirtyPeriod ==
  [][(~recent /\ recent') =>
       \A tp \in Rel' : DirtyDirs(hsStatus', tp) # {} =>
                         \E i \in DOMAIN tasks' : tasks'[i].tp = tp]_vars

\* The comment in upload_for_time_period: an HsDir is not left with an
\* outdated descriptor, since a change of IPTs (or of config) marks every
\* HsDir Dirty and triggers another upload.  Once no upload for its period
\* is in flight, a Clean HsDir holds a descriptor built from the IPT set
\* and config the reactor last handled.
CleanHsDirIsUpToDate ==
  \A tp \in Rel : \A d \in HsDirsOf[tp] :
    (/\ hsStatus[tp][d] = "Clean"
     /\ \A i \in DOMAIN tasks : tasks[i].tp # tp
     /\ \A i \in DOMAIN resultsQ : resultsQ[i].tp # tp)
      => stored[tp][d].ipt >= notedIpt /\ stored[tp][d].cfg >= cfgVer

\* The publish_status_rx branch of run_once: once the status is
\* UploadScheduled, the reactor eventually takes it and runs upload_all
\* (leaving the status Idle or RateLimited), or a later event replaces
\* it, although select_biased! prefers upload results, the rate-limit
\* deadline and IPT changes, and consensus and PoW events keep arriving.
UploadScheduledIsServed == []<>(status # "UploadScheduled")

\* The State the service reports follows "the results of the last
\* descriptor uploads" (upload_result_to_svc_status): once the reactor is
\* Idle with IPTs and usable clients, and no upload is in flight or
\* unprocessed, the reported State is the one the upload results give.
SettledStatusIsCurrent ==
  (/\ status = "Idle" /\ ipts /\ authOk
   /\ tasks = <<>> /\ resultsQ = <<>>)
    => svcState = UploadResultState(relevant, uploadRes)

=============================================================================
