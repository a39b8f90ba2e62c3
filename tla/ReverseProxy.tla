---------------------------- MODULE ReverseProxy ----------------------------
(***************************************************************************)
(* OnionServiceReverseProxy of tor-hsrproxy (proxy.rs): the request loop   *)
(* of handle_requests, which selects (biased) between the shutdown signal  *)
(* and the next stream request and spawns one task per request; the task  *)
(* runs run_action with the action choose_action picked from the config  *)
(* at dispatch, and forward_connection for a Forward action.  The two     *)
(* copy_interactive tasks a forwarded connection spawns are modelled in   *)
(* CopyInteractive; here a forward ends when they are spawned.            *)
(*                                                                         *)
(* A request task occupies one of Slots until run_action returns.         *)
(***************************************************************************)
EXTENDS Naturals, FiniteSets

CONSTANTS
    Ports,         \* ports a BEGIN may ask for
    Configs,       \* proxy configs: functions from Ports to an action or
                   \* NoRule
    Slots,         \* request tasks alive at once
    CanFail        \* whether spawns, connects and client replies may fail

NoRule == "NoRule"
ProxyActions == {"DestroyCircuit", "Forward", "RejectStream", "IgnoreStream"}
Requests == [cmd : {"Begin", "Other"}, port : Ports]
NoReq == [cmd |-> "None"]
NoTask == [stage |-> "None"]

VARIABLES
    config,        \* State.config
    shutdownTx,    \* State.shutdown_tx is Some
    handler,       \* handle_requests: "running", "returned" (Ok) or
                   \* "failed" (HandleRequestsError::Spawn)
    incoming,      \* the next item of stream_requests, or NoReq (pending)
    streamEnded,   \* stream_requests returned None
    tasks          \* Slots -> NoTask or [stage, action]

vars == <<config, shutdownTx, handler, incoming, streamEnded, tasks>>

(* OnionServiceReverseProxy::new, then a call of handle_requests.         *)
Init ==
    /\ config \in Configs
    /\ shutdownTx = TRUE
    /\ handler = "running"
    /\ incoming = NoReq
    /\ streamEnded = FALSE
    /\ tasks = [s \in Slots |-> NoTask]

ChooseActionNoDefault(cfg, req) ==
    IF req.cmd # "Begin" THEN "DestroyCircuit" ELSE cfg[req.port]

(* choose_action: a request other than BEGIN destroys the circuit; a      *)
(* BEGIN gets the configured action for its port, DestroyCircuit if none. *)
ChooseAction(cfg, req) ==
    IF req.cmd # "Begin" \/ cfg[req.port] = NoRule THEN "DestroyCircuit"
    ELSE cfg[req.port]

FreeSlots == {s \in Slots : tasks[s] = NoTask}

(* runtime.spawn of the request's task; a failed spawn returns Err from   *)
(* handle_requests, dropping the request.                                 *)
Dispatch ==
    /\ incoming' = NoReq
    /\ \/ \E s \in FreeSlots :
            /\ tasks' = [tasks EXCEPT ![s] =
                    [stage |-> "run", action |-> ChooseAction(config, incoming)]]
            /\ UNCHANGED handler
       \/ CanFail /\ handler' = "failed" /\ UNCHANGED tasks

HandlerSelectRequestsFirst ==
    /\ handler = "running"
    /\ \/ incoming # NoReq /\ Dispatch
       \/ incoming = NoReq /\ ~shutdownTx /\ handler' = "returned"
          /\ UNCHANGED <<incoming, tasks>>
       \/ incoming = NoReq /\ streamEnded /\ handler' = "returned"
          /\ UNCHANGED <<incoming, tasks>>
    /\ UNCHANGED <<config, shutdownTx, streamEnded>>

(* One iteration of the loop of handle_requests.  select_biased! polls the *)
(* shutdown receiver first: once the sender is dropped, the loop returns  *)
(* even if requests keep arriving.                                        *)
HandlerSelect ==
    /\ handler = "running"
    /\ \/ ~shutdownTx /\ handler' = "returned" /\ UNCHANGED <<incoming, tasks>>
       \/ shutdownTx /\ incoming # NoReq /\ Dispatch
       \/ shutdownTx /\ incoming = NoReq /\ streamEnded
          /\ handler' = "returned" /\ UNCHANGED <<incoming, tasks>>
    /\ UNCHANGED <<config, shutdownTx, streamEnded>>

Finish(s) == tasks' = [tasks EXCEPT ![s] = NoTask]

(* run_action.  DestroyCircuit, RejectStream and IgnoreStream end the task *)
(* whether shutdown_circuit or reject succeed or not (a failure is only   *)
(* logged); Forward goes on to forward_connection.                        *)
RunAction(s) ==
    /\ tasks[s] # NoTask
    /\ tasks[s].stage = "run"
    /\ IF tasks[s].action = "Forward"
       THEN tasks' = [tasks EXCEPT ![s].stage = "connect"]
       ELSE Finish(s)
    /\ UNCHANGED <<config, shutdownTx, handler, incoming, streamEnded>>

(* forward_connection: a failed connect rejects the stream with DONE; a   *)
(* successful one accepts it and spawns the two copy_interactive tasks.   *)
(* Every outcome, failures of reject, accept or spawn included, ends the  *)
(* request task.                                                          *)
ForwardConnection(s) ==
    /\ tasks[s] # NoTask
    /\ tasks[s].stage = "connect"
    /\ Finish(s)
    /\ UNCHANGED <<config, shutdownTx, handler, incoming, streamEnded>>

(* reconfigure: CheckAllOrNothing returns at once; otherwise the config is *)
(* replaced, for requests chosen from now on.                             *)
Reconfigure(c) ==
    /\ config' = c
    /\ UNCHANGED <<shutdownTx, handler, incoming, streamEnded, tasks>>

(* shutdown: drop the sender.                                             *)
Shutdown ==
    /\ shutdownTx
    /\ shutdownTx' = FALSE
    /\ UNCHANGED <<config, handler, incoming, streamEnded, tasks>>

(* The stream of rendezvous requests: a new request, or the end.          *)
NewRequest(r) ==
    /\ incoming = NoReq
    /\ ~streamEnded
    /\ incoming' = r
    /\ UNCHANGED <<config, shutdownTx, handler, streamEnded, tasks>>

StreamEnds ==
    /\ incoming = NoReq
    /\ ~streamEnded
    /\ streamEnded' = TRUE
    /\ UNCHANGED <<config, shutdownTx, handler, incoming, tasks>>

(* handle_requests has returned and every request task has finished.      *)
Terminated ==
    /\ handler # "running"
    /\ \A s \in Slots : tasks[s] = NoTask
    /\ UNCHANGED vars

TaskStep(s) == RunAction(s) \/ ForwardConnection(s)

Next ==
    \/ HandlerSelect
    \/ \E s \in Slots : TaskStep(s)
    \/ \E c \in Configs : Reconfigure(c)
    \/ Shutdown
    \/ \E r \in Requests : NewRequest(r)
    \/ StreamEnds
    \/ Terminated

(* The handler and the request tasks are polled whenever they can make    *)
(* progress.  The requests and the user's calls get no fairness.          *)
Fairness ==
    /\ WF_vars(HandlerSelect)
    /\ \A s \in Slots : WF_vars(TaskStep(s))

Spec == Init /\ [][Next]_vars /\ Fairness

-----------------------------------------------------------------------------

TypeOK ==
    /\ \A c \in Configs : c \in [Ports -> ProxyActions \cup {NoRule}]
    /\ config \in Configs
    /\ shutdownTx \in BOOLEAN
    /\ handler \in {"running", "returned", "failed"}
    /\ incoming = NoReq \/ incoming \in Requests
    /\ streamEnded \in BOOLEAN
    /\ \A s \in Slots :
          \/ tasks[s] = NoTask
          \/ tasks[s] \in [stage : {"run", "connect"}, action : ProxyActions]
    /\ \A s \in Slots : tasks[s] # NoTask /\ tasks[s].stage = "connect"
                            => tasks[s].action = "Forward"

(* shutdown "shuts down all request-handlers": once the sender is dropped, *)
(* handle_requests eventually returns, even while clients keep sending    *)
(* requests without pause.                                                *)
ShutdownStopsHandler == ~shutdownTx ~> handler # "running"
====
