---------------------------- MODULE VanguardMgr ----------------------------
(***************************************************************************)
(* The vanguard manager of tor-guardmgr (vanguards.rs): the L2/L3 vanguard *)
(* sets kept in Inner, their persisted copy, and the maintenance task      *)
(* maintain_vanguard_sets, whose every iteration is run_once: first        *)
(* rotate_expired, then a select_biased! over the netdir events, the       *)
(* config watch and a sleep until the next vanguard expires.               *)
(*                                                                         *)
(* Every step of the task runs under the write lock of Inner, so each one *)
(* is an atomic action.  reconfigure is the user's call, and Restart is a *)
(* crash of the process followed by VanguardMgr::new and                   *)
(* launch_background_tasks.  An Err out of run_once ends the task for good *)
(* (the `break` after "Vanguard manager crashed"): phase "stopped".        *)
(*                                                                         *)
(* The VanguardSets type lives in set.rs, outside this repository: its     *)
(* remove_expired, remove_unlisted, replenish_vanguards and next_expiry    *)
(* are modelled from their names and the comments of vanguards.rs.         *)
(***************************************************************************)
EXTENDS Integers, FiniteSets

CONSTANTS
    Relays,        \* relays that may be listed in a consensus
    Listings,      \* the sets of listed relays a new consensus may have
    Lifetimes,     \* the lifetimes a new vanguard may be given
    L2Target,      \* target size of the L2 set (VanguardParams)
    L3Target,      \* target size of the L3 set
    MaxNow,        \* bound on the wallclock
    StoreCanFail,  \* whether storage.store may return an error
    DirCanLapse,   \* whether the timely netdir may become unavailable
    DirCanErr      \* whether a missing timely netdir may be an error other
                   \* than NoInfo or NotEnoughInfo (tor-netdir, not in src/)

Modes == {"Disabled", "Lite", "Full"}
Never == -1                  \* next_to_expire = None: future::pending
NoFile == [none |-> TRUE]           \* storage.load() returned None
MaxLifetime == CHOOSE m \in Lifetimes : \A lt \in Lifetimes : lt <= m
Times == 0..(MaxNow + MaxLifetime)
Vanguards == [r : Relays, exp : Times]
VanguardSetsT == [l2 : SUBSET Vanguards, l3 : SUBSET Vanguards]
EmptySets == [l2 |-> {}, l3 |-> {}]      \* VanguardSets::default()

VARIABLES
    sets,          \* Inner.vanguard_sets
    mode,          \* Inner.mode
    disk,          \* the vanguard state file behind `storage`
    phase,         \* the task: "rotate" (top of run_once), "wait" (in
                   \* select_biased!) or "stopped" (run_once returned Err)
    wake,          \* the wallclock time the sleep future fires at
    configPending, \* config_tx.maybe_send not yet seen by config_rx
    now,           \* runtime.wallclock()
    listed,        \* the relays listed in the current netdir
    timely,        \* netdir_provider.netdir(Timely) succeeds
    eventPending   \* a DirEvent::NewConsensus not yet read by the task

vars == <<sets, mode, disk, phase, wake, configPending, now, listed,
          timely, eventPending>>

AllVanguards(s) == s.l2 \cup s.l3

RemoveExpiredStrict(s, t) ==
    [l2 |-> {v \in s.l2 : v.exp >= t}, l3 |-> {v \in s.l3 : v.exp >= t}]

(* VanguardSets::remove_expired: drop every vanguard whose expiry is due. *)
RemoveExpired(s, t) ==
    [l2 |-> {v \in s.l2 : v.exp > t}, l3 |-> {v \in s.l3 : v.exp > t}]

(* VanguardSets::remove_unlisted: drop the vanguards the netdir no longer   *)
(* lists.                                                                  *)
RemoveUnlisted(s, l) ==
    [l2 |-> {v \in s.l2 : v.r \in l}, l3 |-> {v \in s.l3 : v.r \in l}]

(* One set filled up to its target with listed relays not already in it, *)
(* each new vanguard getting a lifetime from Lifetimes: every possible    *)
(* outcome of the random selection.                                       *)
RECURSIVE FillUpTo(_, _, _)
FillUpTo(S, target, avail) ==
    IF Cardinality(S) >= target \/ avail = {} THEN {S}
    ELSE UNION {FillUpTo(S \cup {[r |-> x, exp |-> now + lt]}, target,
                         avail \ {x}) : x \in avail, lt \in Lifetimes}

Fill(S, target) == FillUpTo(S, target, listed \ {v.r : v \in S})

(* VanguardSets::replenish_vanguards(mode): L2 in Lite and Full mode, L3  *)
(* only in Full mode.                                                     *)
Replenish(s, m) ==
    CASE m = "Full" -> {[l2 |-> a, l3 |-> b] : a \in Fill(s.l2, L2Target),
                                               b \in Fill(s.l3, L3Target)}
      [] m = "Lite" -> {[l2 |-> a, l3 |-> s.l3] : a \in Fill(s.l2, L2Target)}
      [] OTHER      -> {s}

(* VanguardSets::next_expiry. *)
NextExpiry(s) ==
    IF AllVanguards(s) = {} THEN Never
    ELSE CHOOSE t \in {v.exp : v \in AllVanguards(s)} :
             \A v \in AllVanguards(s) : t <= v.exp

(* VanguardMgr::timely_netdir: Some(netdir) when a timely netdir exists, *)
(* None for NoInfo and NotEnoughInfo, Err for any other error: the set of *)
(* its possible results.                                                  *)
TimelyNetdir ==
    IF timely THEN {"Some"} ELSE {"None"} \cup (IF DirCanErr THEN {"Err"} ELSE {})

(* Inner::flush_to_storage: store only in "vanguards-full" mode.  A failed *)
(* store is an Err that ends the task; `cont` is where the task goes on.  *)
FlushToStorage(s, cont) ==
    IF mode = "Full"
    THEN \/ disk' = s /\ phase' = cont
         \/ StoreCanFail /\ disk' = disk /\ phase' = "stopped"
    ELSE disk' = disk /\ phase' = cont

UpdateVanguardSetsFlushFirst(s, cont) ==
    \E s2 \in Replenish(RemoveUnlisted(s, listed), mode) :
        /\ sets' = s2
        /\ FlushToStorage(RemoveUnlisted(s, listed), cont)

(* Inner::update_vanguard_sets: update_params (the targets are constants),*)
(* remove_unlisted, replenish_vanguards(mode), flush_to_storage.          *)
UpdateVanguardSets(s, cont) ==
    \E s2 \in Replenish(RemoveUnlisted(s, listed), mode) :
        /\ sets' = s2
        /\ FlushToStorage(s2, cont)

(* VanguardMgr::new with no state file, then launch_background_tasks. *)
Init ==
    /\ sets = EmptySets
    /\ mode \in Modes
    /\ disk = NoFile
    /\ phase = "rotate"
    /\ wake = Never
    /\ configPending = FALSE
    /\ now = 0
    /\ listed = {}
    /\ timely = FALSE
    /\ eventPending = FALSE

(* run_once up to the select: rotate_expired under the write lock, then   *)
(* the sleep duration from the next expiry.  A missing timely netdir      *)
(* (timely_netdir returns None) skips the update; its Err ends the task *)
(* after remove_expired.                                                  *)
RotateExpiredStaleWake ==
    /\ phase = "rotate"
    /\ LET s1 == RemoveExpired(sets, now) IN
       \/ "Some" \in TimelyNetdir /\ UpdateVanguardSets(s1, "wait")
          /\ wake' = NextExpiry(s1)
       \/ "None" \in TimelyNetdir /\ sets' = s1 /\ disk' = disk /\ phase' = "wait"
          /\ wake' = NextExpiry(s1)
       \/ "Err" \in TimelyNetdir /\ sets' = s1 /\ disk' = disk /\ phase' = "stopped"
          /\ UNCHANGED wake
    /\ UNCHANGED <<mode, configPending, now, listed, timely, eventPending>>
RotateExpired ==
    /\ phase = "rotate"
    /\ LET s1 == RemoveExpired(sets, now) IN
       \/ "Some" \in TimelyNetdir /\ UpdateVanguardSets(s1, "wait")
          /\ wake' = NextExpiry(sets')
       \/ "None" \in TimelyNetdir /\ sets' = s1 /\ disk' = disk /\ phase' = "wait"
          /\ wake' = NextExpiry(sets')
       \/ "Err" \in TimelyNetdir /\ sets' = s1 /\ disk' = disk /\ phase' = "stopped"
          /\ UNCHANGED wake
    /\ UNCHANGED <<mode, configPending, now, listed, timely, eventPending>>

(* The first branch of select_biased!: a NewConsensus event.  Here the    *)
(* netdir is fetched with `?`, so a netdir that is not timely is an Err.  *)
NetdirBranch ==
    /\ phase = "wait"
    /\ eventPending
    /\ eventPending' = FALSE
    /\ IF timely THEN UpdateVanguardSets(sets, "rotate")
       ELSE phase' = "stopped" /\ UNCHANGED <<sets, disk>>
    /\ UNCHANGED <<mode, wake, configPending, now, listed, timely>>

(* The second branch: the config watch, with timely_netdir's None and    *)
(* Err cases.                                                             *)
ConfigBranch ==
    /\ phase = "wait"
    /\ ~eventPending
    /\ configPending
    /\ configPending' = FALSE
    /\ \/ "Some" \in TimelyNetdir /\ UpdateVanguardSets(sets, "rotate")
       \/ "None" \in TimelyNetdir /\ phase' = "rotate" /\ UNCHANGED <<sets, disk>>
       \/ "Err" \in TimelyNetdir /\ phase' = "stopped" /\ UNCHANGED <<sets, disk>>
    /\ UNCHANGED <<mode, wake, now, listed, timely, eventPending>>

(* The third branch: the sleep until the next expiry has elapsed.         *)
SleepBranch ==
    /\ phase = "wait"
    /\ ~eventPending
    /\ ~configPending
    /\ wake # Never
    /\ now >= wake
    /\ phase' = "rotate"
    /\ UNCHANGED <<sets, mode, disk, wake, configPending, now, listed,
                   timely, eventPending>>

TaskStep == RotateExpired \/ NetdirBranch \/ ConfigBranch \/ SleepBranch

(* VanguardMgr::reconfigure: a mode change wakes the task.                *)
Reconfigure(m) ==
    /\ m # mode
    /\ mode' = m
    /\ configPending' = TRUE
    /\ UNCHANGED <<sets, disk, phase, wake, now, listed, timely, eventPending>>

RestartNoFile ==
    /\ sets' = IF disk = NoFile THEN disk ELSE RemoveExpired(disk, now)
    /\ mode' \in Modes
    /\ phase' = "rotate"
    /\ wake' = Never
    /\ configPending' = FALSE
    /\ eventPending' = FALSE
    /\ UNCHANGED <<disk, now, listed, timely>>

(* A crash of the process, then VanguardMgr::new (load the state file and *)
(* discard the expired vanguards) and launch_background_tasks.  The mode  *)
(* comes from the configuration of the new process.                       *)
Restart ==
    /\ sets' = IF disk = NoFile THEN EmptySets ELSE RemoveExpired(disk, now)
    /\ mode' \in Modes
    /\ phase' = "rotate"
    /\ wake' = Never
    /\ configPending' = FALSE
    /\ eventPending' = FALSE
    /\ UNCHANGED <<disk, now, listed, timely>>

(* The environment: a new consensus, the netdir ceasing to be timely, and *)
(* the wallclock.                                                         *)
NewConsensus(l) ==
    /\ listed' = l
    /\ timely' = TRUE
    /\ eventPending' = TRUE
    /\ UNCHANGED <<sets, mode, disk, phase, wake, configPending, now>>

DirLapse ==
    /\ DirCanLapse
    /\ timely
    /\ timely' = FALSE
    /\ UNCHANGED <<sets, mode, disk, phase, wake, configPending, now,
                   listed, eventPending>>

Tick ==
    /\ now < MaxNow
    /\ now' = now + 1
    /\ UNCHANGED <<sets, mode, disk, phase, wake, configPending, listed,
                   timely, eventPending>>

Next ==
    \/ TaskStep
    \/ \E m \in Modes : Reconfigure(m)
    \/ Restart
    \/ \E l \in Listings : NewConsensus(l)
    \/ DirLapse
    \/ Tick

(* The runtime keeps polling the spawned task while it can make progress. *)
Fairness == WF_vars(TaskStep)

Spec == Init /\ [][Next]_vars /\ Fairness

-----------------------------------------------------------------------------

TypeOK ==
    /\ sets \in VanguardSetsT
    /\ mode \in Modes
    /\ disk = NoFile \/ disk \in VanguardSetsT
    /\ phase \in {"rotate", "wait", "stopped"}
    /\ wake \in Times \cup {Never}
    /\ configPending \in BOOLEAN
    /\ now \in 0..MaxNow
    /\ listed \subseteq Relays
    /\ timely \in BOOLEAN
    /\ eventPending \in BOOLEAN

(* While the task sleeps in select_biased!, its sleep fires no later than *)
(* the expiry of any vanguard in the sets: rotate_expired computes the    *)
(* duration from the sets as left by the update it has just run, so no    *)
(* vanguard replenished in that same step outlives the task's attention.  *)
SleepCoversEveryVanguard ==
    phase = "wait" =>
        \A v \in AllVanguards(sets) : wake # Never /\ wake <= v.exp

(* In "vanguards-full" mode, once the task has handled every netdir event *)
(* and config change and has a timely netdir, the state file holds the    *)
(* sets in use: a restart at this point (VanguardMgr::new loading the     *)
(* file and discarding expired vanguards) brings back exactly the         *)
(* unexpired vanguards the process was using.  This is what               *)
(* update_vanguard_sets calling flush_to_storage after replenishing       *)
(* guarantees, including after a switch from lite to full mode.           *)
PersistedSetsMatch ==
    (mode = "Full" /\ phase = "wait" /\ timely /\ ~eventPending
        /\ ~configPending)
        => /\ disk # NoFile
           /\ RemoveExpired(disk, now) = RemoveExpired(sets, now)

(* maintain_vanguard_sets "removes vanguards from the L2 and L3 vanguard  *)
(* sets when they expire": whenever the sets hold an expired vanguard, a  *)
(* state eventually follows in which they hold none.                      *)
HoldsExpired == \E v \in AllVanguards(sets) : v.exp <= now

ExpiredVanguardRotated == HoldsExpired ~> ~HoldsExpired
====
