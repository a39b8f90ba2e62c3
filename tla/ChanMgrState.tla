---------------------------- MODULE ChanMgrState ----------------------------
(***************************************************************************)
(* The channel manager's shared table: MgrState in                         *)
(* tor-chanmgr/src/mgr/state.rs.  Every method takes the one mutex for its *)
(* whole body, so each is one atomic action; the concurrency is between    *)
(* the callers: channel requests, the builder tasks that later upgrade or  *)
(* remove their pending entry, reconfiguration, the expiry task and the    *)
(* channels themselves (closing, becoming idle or busy).                   *)
(*                                                                         *)
(* Entries are keyed by their UniqPendingChanId (an open channel keeps the *)
(* id of the pending entry it replaced): the relay-id index of             *)
(* ListByRelayIds is expressed by the `ids` of each entry.  Durations are  *)
(* in units of 90 seconds.                                                 *)
(***************************************************************************)
EXTENDS Naturals, FiniteSets

CONSTANTS
  Relays,            \* the identity sets of the relays; relays share no id
  Targets,           \* the identity sets a caller may ask a channel for
  NetDirs,           \* consensus NetParameters: the four nf_ito_* values and
                     \* kist_enabled
  MaxUid,            \* bound: UniqPendingChanIds handed out
  MaxUnusedChoices,  \* max_unused_duration: gen_range(180..270) seconds
  ExpireDefault,     \* the 180 seconds expire_channels starts from
  MaxIdle,           \* bound: the unused duration of a channel
  InUse              \* duration_unused() = None: the channel is in use

ASSUME /\ \A r1, r2 \in Relays : r1 # r2 => r1 \cap r2 = {}
       /\ \A t \in Targets : t # {}

Uids == 0..(MaxUid - 1)
Levels == {"Normal", "Reduced", "None"}

VARIABLES
  chans,      \* chans[uid]: the ChannelState stored under that id, or NoEntry
  handles,    \* PendingChannelHandles held by builder tasks
  nextUid,    \* NEXT_ID of UniqPendingChanId::new
  config,     \* inner.config.padding
  dormancy,   \* inner.dormancy
  padding,    \* inner.channels_params.padding: ChannelPaddingInstructions
  kist,       \* inner.channels_params.kist
  lastRet     \* the Duration the last expire_channels returned

vars == <<chans, handles, nextUid, config, dormancy, padding, kist, lastRet>>

NoEntry == [kind |-> "None"]

(***************************************************************************)
(* Channel parameters                                                      *)
(***************************************************************************)

\* Option<PaddingParameters>: None, the builder's defaults, or <<low, high>>.
NoPad == <<>>
DefaultParams == <<"default">>

\* kist_mode_from_net_parameter: the consensus's 0 or 1; any other value
\* is unreachable (no case matches).
KistModeFromNetParameter(val) ==
  CASE val = 0 -> "Disabled"
    [] val = 1 -> "TcpNotSentLowat"

\* NetParamsExtract::from: nf_ito[normal or reduced][low or high] and the
\* KIST mode.
NetParamsExtract(p) ==
  [nf_ito |-> <<<<p.nf_ito_low, p.nf_ito_high>>,
                <<p.nf_ito_low_reduced, p.nf_ito_high_reduced>>>>,
   kist   |-> KistModeFromNetParameter(p.kist_enabled)]

\* pad_get, as pad_low and pad_high: nf_ito[reduced][low_or_high].
PadGet(ex, reduced, lowOrHigh) ==
  ex.nf_ito[IF reduced THEN 2 ELSE 1][lowOrHigh + 1]

\* padding_parameters with padding_parameters_builder, for a netdir's
\* NetParamsExtract ex: no padding for PaddingLevel::None or a consensus
\* giving zeroes; the defaults when the consensus has low > high.
PaddingParameters(level, ex) ==
  IF level = "None" THEN NoPad
  ELSE LET low  == PadGet(ex, level = "Reduced", 0)
           high == PadGet(ex, level = "Reduced", 1)
       IN  IF low > high THEN DefaultParams
           ELSE IF low = 0 /\ high = 0 THEN NoPad
           ELSE <<low, high>>

\* ChannelPaddingInstructions::default(): what a new channel starts with.
DefaultInstructions ==
  [enable |-> FALSE, params |-> DefaultParams,
   negotiate |-> [cmd |-> "StartDefault", p |-> NoPad]]

\* parameterize: the instructions for config, dormancy and netdir, from the
\* current instructions cur (padding_parameters only set when sending).
Parameterize(cur, cfg, dorm, nd) ==
  LET sendCfg == PaddingParameters(cfg, nd)
      dflt    == PaddingParameters("Normal", nd)
      send    == IF dorm = "Dormant" THEN NoPad ELSE sendCfg
      recv    == IF cfg = "Normal" THEN send ELSE NoPad
      neg     == IF recv = dflt THEN [cmd |-> "StartDefault", p |-> NoPad]
                 ELSE IF recv = NoPad THEN [cmd |-> "Stop", p |-> NoPad]
                 ELSE [cmd |-> "Start", p |-> recv]
  IN  [enable |-> send # NoPad,
       params |-> IF send # NoPad THEN send ELSE cur.params,
       negotiate |-> neg]

(***************************************************************************)
(* The table                                                               *)
(***************************************************************************)

\* setup_launch: a Building entry for ids with a fresh unique id.
PendingEntry(ids) == [kind |-> "Building", ids |-> ids]

\* The relay id a PendingChannelHandle keeps: target.identities().next().
AnyRelayId(t) == CHOOSE i \in t : TRUE

\* Fault injected for checking: the removal closure ignores the unique id.
RemovePendingAnyId(ch, h) ==
  [u \in Uids |-> IF /\ ch[u].kind = "Building"
                     /\ h.rid \in ch[u].ids
                  THEN NoEntry ELSE ch[u]]

\* remove_pending: remove_by_id(relay_id) of the Building entry whose
\* unique_id is the handle's.
RemovePending(ch, h) ==
  [u \in Uids |-> IF /\ ch[u].kind = "Building"
                     /\ h.rid \in ch[u].ids
                     /\ u = h.uid
                  THEN NoEntry ELSE ch[u]]

\* Faults injected for checking: zero remaining time is not treated as
\* expired; a failed checked_sub is not treated as expired.
ReadyToExpireNoZeroCheck(e) ==
  /\ e.kind = "Open" /\ e.unused # InUse
  /\ e.unused > e.maxUnused

ReadyToExpireOnlyAtZero(e) ==
  /\ e.kind = "Open" /\ e.unused # InUse
  /\ e.unused = e.maxUnused

\* ChannelState::ready_to_expire: an open, unused channel whose
\* max_unused_duration has no time remaining (checked_sub fails or is zero).
ReadyToExpire(e) ==
  /\ e.kind = "Open" /\ e.unused # InUse
  /\ e.unused >= e.maxUnused

\* Fault injected for checking: the subtraction's operands swapped.
RemainingSwapped(e) ==
  IF e.kind = "Open" /\ e.unused # InUse /\ ~ReadyToExpire(e)
  THEN {e.unused - e.maxUnused} ELSE {}

\* The expire_after each channel that is not expired leaves: its remaining
\* time if it is open and unused.
Remaining(e) ==
  IF e.kind = "Open" /\ e.unused # InUse /\ ~ReadyToExpire(e)
  THEN {e.maxUnused - e.unused} ELSE {}

\* MgrState::new: an empty table, parameters from the initial config.
Init ==
  /\ chans = [u \in Uids |-> NoEntry]
  /\ handles = {}
  /\ nextUid = 0
  /\ config \in Levels
  /\ dormancy \in {"Active", "Dormant"}
  /\ \E nd \in NetDirs :
       /\ padding = Parameterize(DefaultInstructions, config, dormancy,
                                 NetParamsExtract(nd))
       /\ kist = NetParamsExtract(nd).kist
  /\ lastRet = ExpireDefault

(***************************************************************************)
(* Operations of MgrState                                                  *)
(***************************************************************************)

\* Fault injected for checking: pending entries are matched by superset
\* (all_superset) instead of subset.
RequestChannelSuperset(t) ==
  LET openC == {u \in Uids : /\ chans[u].kind = "Open" /\ chans[u].usable
                             /\ t \subseteq chans[u].ids}
      pendC == {u \in Uids : chans[u].kind = "Building" /\ t \subseteq chans[u].ids}
      conflict == \E u \in Uids : /\ chans[u].kind = "Open" /\ chans[u].usable
                                  /\ chans[u].ids \cap t # {}
                                  /\ ~(t \subseteq chans[u].ids)
  IN  /\ openC \cup pendC = {}
      /\ ~conflict
      /\ nextUid < MaxUid
      /\ chans' = [chans EXCEPT ![nextUid] = PendingEntry(t)]
      /\ handles' = handles \cup {[uid |-> nextUid, rid |-> AnyRelayId(t), target |-> t]}
      /\ nextUid' = nextUid + 1
      /\ UNCHANGED <<config, dormancy, padding, kist, lastRet>>

\* request_channel(target, true) when it adds an entry: no usable open
\* channel has every id of t (open_channel_is_allowed), no pending channel
\* has only ids of t (all_subset, pending_channel_maybe_allowed), and no
\* usable open channel shares some but not all of t's ids (IdentityConflict).
\* Its other outcomes (an open or pending channel returned, an error, or
\* None without add_new_entry_if_not_found) leave the table as it was.
RequestChannel(t) ==
  LET openC == {u \in Uids : /\ chans[u].kind = "Open" /\ chans[u].usable
                             /\ t \subseteq chans[u].ids}
      pendC == {u \in Uids : chans[u].kind = "Building" /\ chans[u].ids \subseteq t}
      conflict == \E u \in Uids : /\ chans[u].kind = "Open" /\ chans[u].usable
                                  /\ chans[u].ids \cap t # {}
                                  /\ ~(t \subseteq chans[u].ids)
  IN  /\ openC \cup pendC = {}
      /\ ~conflict
      /\ nextUid < MaxUid
      /\ chans' = [chans EXCEPT ![nextUid] = PendingEntry(t)]
      /\ handles' = handles \cup {[uid |-> nextUid, rid |-> AnyRelayId(t), target |-> t]}
      /\ nextUid' = nextUid + 1
      /\ UNCHANGED <<config, dormancy, padding, kist, lastRet>>

\* remove_pending_channel: the builder task failed and gives its handle back.
RemovePendingChannel(h) ==
  /\ h \in handles
  /\ chans' = RemovePending(chans, h)
  /\ handles' = handles \ {h}
  /\ UNCHANGED <<nextUid, config, dormancy, padding, kist, lastRet>>

\* upgrade_pending_channel_to_open: the builder task built a channel to the
\* relay with identities ids (alive: it has not closed meanwhile).  Under
\* the one lock the pending entry is removed, the channel is reparameterized
\* with initial_update (failing, and the channel is not inserted, when it
\* has closed) and inserted with a random max_unused_duration.
UpgradePendingChannelToOpen(h, ids, alive, maxU) ==
  LET update == padding # DefaultInstructions
  IN  /\ h \in handles
      /\ chans' = IF update /\ ~alive
                  THEN RemovePending(chans, h)
                  ELSE [RemovePending(chans, h) EXCEPT ![h.uid] =
                          [kind |-> "Open", ids |-> ids, pad |-> padding,
                           usable |-> alive, unused |-> InUse, maxUnused |-> maxU]]
      /\ handles' = handles \ {h}
      /\ UNCHANGED <<nextUid, config, dormancy, padding, kist, lastRet>>

\* Fault injected for checking: the early return when either update is None.
ReconfigureGeneralEarlyOr(cfg, dorm, nd) ==
  LET ex == NetParamsExtract(nd)
      new == Parameterize(padding, cfg, dorm, ex)
      update == new # padding
      kistUpdate == ex.kist # kist
  IN  /\ config' = cfg /\ dormancy' = dorm
      /\ padding' = new /\ kist' = ex.kist
      /\ chans' = IF ~update \/ ~kistUpdate THEN chans
                  ELSE [u \in Uids |->
                          IF chans[u].kind = "Open" /\ chans[u].usable
                          THEN [chans[u] EXCEPT !.pad = new] ELSE chans[u]]
      /\ UNCHANGED <<handles, nextUid, lastRet>>

\* reconfigure_general with a new config, dormancy and netdir: parameterize
\* the padding instructions; if they or the KIST parameters changed, every
\* open channel is reparameterized (an error, meaning the channel has
\* closed, is ignored).  Building entries are skipped.
ReconfigureGeneral(cfg, dorm, nd) ==
  LET ex == NetParamsExtract(nd)
      new == Parameterize(padding, cfg, dorm, ex)
      update == new # padding
      kistUpdate == ex.kist # kist
  IN  /\ config' = cfg /\ dormancy' = dorm
      /\ padding' = new /\ kist' = ex.kist
      /\ chans' = IF ~update /\ ~kistUpdate THEN chans
                  ELSE [u \in Uids |->
                          IF chans[u].kind = "Open" /\ chans[u].usable /\ update
                          THEN [chans[u] EXCEPT !.pad = new] ELSE chans[u]]
      /\ UNCHANGED <<handles, nextUid, lastRet>>

\* expire_channels: drop every channel ready to expire and return the
\* least remaining time, at most 180 seconds.
ExpireChannels ==
  LET kept == {u \in Uids : ~ReadyToExpire(chans[u])}
      rems == UNION {Remaining(chans[u]) : u \in kept}
  IN  /\ chans' = [u \in Uids |-> IF u \in kept THEN chans[u] ELSE NoEntry]
      /\ lastRet' = CHOOSE r \in rems \cup {ExpireDefault} :
                      \A o \in rems \cup {ExpireDefault} : r <= o
      /\ UNCHANGED <<handles, nextUid, config, dormancy, padding, kist>>

(***************************************************************************)
(* Environment: the channels themselves and the passing of time            *)
(***************************************************************************)

\* A channel closes or breaks: is_usable() turns false.
ChannelClose(u) ==
  /\ chans[u].kind = "Open" /\ chans[u].usable
  /\ chans' = [chans EXCEPT ![u].usable = FALSE]
  /\ UNCHANGED <<handles, nextUid, config, dormancy, padding, kist, lastRet>>

\* The last circuit on a channel goes away, or a new one starts using it.
ChannelIdle(u) ==
  /\ chans[u].kind = "Open" /\ chans[u].unused = InUse
  /\ chans' = [chans EXCEPT ![u].unused = 0]
  /\ UNCHANGED <<handles, nextUid, config, dormancy, padding, kist, lastRet>>

ChannelUsed(u) ==
  /\ chans[u].kind = "Open" /\ chans[u].unused # InUse /\ chans[u].usable
  /\ chans' = [chans EXCEPT ![u].unused = InUse]
  /\ UNCHANGED <<handles, nextUid, config, dormancy, padding, kist, lastRet>>

\* Time passes: every unused channel has been unused for longer.
Tick ==
  /\ \E u \in Uids : chans[u].kind = "Open" /\ chans[u].unused # InUse
                     /\ chans[u].unused < MaxIdle
  /\ chans' = [u \in Uids |->
                 IF chans[u].kind = "Open" /\ chans[u].unused # InUse
                    /\ chans[u].unused < MaxIdle
                 THEN [chans[u] EXCEPT !.unused = @ + 1] ELSE chans[u]]
  /\ UNCHANGED <<handles, nextUid, config, dormancy, padding, kist, lastRet>>

Next ==
  \/ \E t \in Targets : RequestChannel(t)
  \/ \E h \in handles :
       \/ RemovePendingChannel(h)
       \/ \E r \in Relays, alive \in BOOLEAN, m \in MaxUnusedChoices :
            h.target \subseteq r /\ UpgradePendingChannelToOpen(h, r, alive, m)
  \/ \E cfg \in Levels, dorm \in {"Active", "Dormant"}, nd \in NetDirs :
       ReconfigureGeneral(cfg, dorm, nd)
  \/ ExpireChannels
  \/ \E u \in Uids : ChannelClose(u) \/ ChannelIdle(u) \/ ChannelUsed(u)
  \/ Tick

\* The expiry task (continually_expire_channels) keeps calling
\* expire_channels, and time keeps passing.
Fairness == WF_vars(ExpireChannels) /\ WF_vars(Tick)

Spec == Init /\ [][Next]_vars /\ Fairness

-----------------------------------------------------------------------------
(* Properties                                                              *)

Instructions == {Parameterize(c, cfg, dorm, nd) :
                   c \in {DefaultInstructions}, cfg \in Levels,
                   dorm \in {"Active", "Dormant"}, nd \in NetDirs}
                \cup {DefaultInstructions}

\* Every entry, handle and parameter keeps its type.
TypeOK ==
  /\ \A u \in Uids :
       \/ chans[u] = NoEntry
       \/ chans[u].kind = "Building" /\ chans[u].ids \in Targets
       \/ /\ chans[u].kind = "Open" /\ chans[u].ids \in Relays
          /\ chans[u].usable \in BOOLEAN
          /\ chans[u].unused \in {InUse} \cup 0..MaxIdle
          /\ chans[u].maxUnused \in MaxUnusedChoices
  /\ handles \subseteq [uid : Uids, rid : UNION Targets, target : Targets]
  /\ nextUid \in 0..MaxUid
  /\ lastRet \in 0..ExpireDefault

\* A PendingChannelHandle stands for exactly its own pending entry:
\* remove_pending (from remove_pending_channel or an upgrade) removes the
\* entry of that handle and no other, so every handle a builder task holds
\* still finds its Building entry (the debug_assert of one removal) and no
\* Building entry is left without a task to finish it.
HandlesMatchPendingEntries ==
  /\ \A h \in handles : /\ chans[h.uid].kind = "Building"
                        /\ h.rid \in chans[h.uid].ids
  /\ \A u \in Uids : chans[u].kind = "Building" => \E h \in handles : h.uid = u

\* request_channel never launches a second build that an earlier pending
\* build already serves: no pending entry's identities are included in
\* those of a pending entry requested after it.
NoRedundantPendingBuild ==
  \A u, v \in Uids :
    (/\ u < v
     /\ chans[u].kind = "Building" /\ chans[v].kind = "Building")
      => ~(chans[u].ids \subseteq chans[v].ids)

\* The lock comment on channels_params: every usable open channel runs
\* with the current padding instructions, whether it was upgraded before
\* or after a reconfiguration.
OpenChannelsHaveCurrentPadding ==
  \A u \in Uids : (chans[u].kind = "Open" /\ chans[u].usable) => chans[u].pad = padding

\* expire_channels never asks to be called again after zero time: a zero
\* remaining duration counts as expired, otherwise the expiry task would
\* spin (deadlock under a simulated clock).
NextExpiryPositive == lastRet > 0

\* A channel that stays unused is eventually dropped by the expiry task:
\* no channel stays open and unused for ever ([]<>~P, i.e. P ~> ~P, for
\* each channel).
IdleChannelExpires ==
  \A u \in Uids : []<>(chans[u].kind # "Open" \/ chans[u].unused = InUse)
====
