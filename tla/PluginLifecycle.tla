-------------------------- MODULE PluginLifecycle --------------------------
(***************************************************************************)
(* The plugin instance behind the C ABI (cmd/commandcode/abi.go): the host *)
(* registers and reconfigures it, each time with a freshly built instance  *)
(* that owns a model refresh worker (models.go) and an in-flight counter,  *)
(* and each time the managed auth files of the host are brought in line    *)
(* with the keys of the new configuration (cmd/commandcode/managed_auth.go *)
(* and managed_auth.go).                                                   *)
(*                                                                         *)
(* abiState.Lock covers the exchange of the instances only: the calls to   *)
(* the host and the file operations of the synchronisation come after it,  *)
(* one action each.  An instance is named by the call that built it.       *)
(***************************************************************************)
EXTENDS Integers, FiniteSets

CONSTANTS
  Calls,        \* plugin.register and plugin.reconfigure calls; each happens once
  Requests,     \* executor calls
  Keys,         \* names of managed files: a hash of base URL, key and proxy
  Foreign,      \* files with the managed prefix that carry no marker
  Configs,      \* [shared, keys, rank, poll]: shared_scheduling, the keys with
                \* their priority and weight, use_provider_models
  MaxInflight,  \* max_inflight, the same in every configuration
  Hosts         \* what a host does: [overlap, faults, requests, configs], whether it
                \* calls the plugin while a call is in progress, whether its callbacks
                \* and the file operations may fail, the executor calls it makes and
                \* the configurations it hands over

Ranks == {k.rank : k \in Configs}

ASSUME ConstantsAssumption ==
  /\ Configs \subseteq [shared : BOOLEAN, keys : SUBSET Keys, rank : Ranks, poll : BOOLEAN]
  /\ Keys \cap Foreign = {}
  /\ Ranks \cap {"absent", "user"} = {}
  /\ MaxInflight \in Nat \ {0}
  /\ Hosts \subseteq [overlap : BOOLEAN, faults : BOOLEAN, requests : SUBSET Requests,
                   configs : SUBSET Configs]

None == "none"
ASSUME NoneAssumption == None \notin Calls

VARIABLES
  host,       \* the host behind this plugin
  hostUp,     \* abiState.host is set
  plugin,     \* abiState.plugin: the call that built it, or None
  dir,        \* the auth directory: what each file holds
  pc, cfg,    \* each call, and the configuration it was given
  listed,     \* the answer to host.auth.list, empty when that failed
  todo,       \* files the loop at hand has still to visit
  victim,     \* the file whose marker was read and that is removed next
  failed,     \* history: the call left something undone
  worker,     \* the refresh worker of each instance
  stop,       \* its stop channel is closed
  at, using   \* each request, and the instance it picked

syncVars   == << dir, cfg, listed, todo, victim, failed >>
workerVars == << worker, stop >>
reqVars    == << at, using >>
vars == << host, hostUp, plugin, pc, syncVars, workerVars, reqVars >>

-----------------------------------------------------------------------------
Names == Keys \cup Foreign

\* No configuration yet.
NoConfig == [shared |-> FALSE, keys |-> {}, rank |-> "no rank", poll |-> FALSE]

\* Calls the host is waiting for.
Busy == {c \in Calls : pc[c] \notin {"idle", "done"}}

HostMayCall == hostUp /\ (host.overlap \/ Busy = {})

\* ManagedAuthFiles: one file per configured key while scheduling is shared.
ManagedAuthFiles(k) == IF k.shared THEN k.keys ELSE {}

\* A managed file of an earlier process may be there from the start.
Init ==
  /\ host \in Hosts /\ hostUp = TRUE
  /\ plugin = None
  /\ dir \in [Names -> Ranks \cup {"absent", "user"}]
  /\ \A f \in Names : IF f \in Foreign THEN dir[f] = "user" ELSE dir[f] # "user"
  /\ pc = [c \in Calls |-> "idle"]
  /\ cfg = [c \in Calls |-> NoConfig]
  /\ listed = [c \in Calls |-> {}]
  /\ todo = [c \in Calls |-> {}]
  /\ victim = [c \in Calls |-> None]
  /\ failed = [c \in Calls |-> FALSE]
  /\ worker = [c \in Calls |-> "none"]
  /\ stop = [c \in Calls |-> FALSE]
  /\ at = [r \in Requests |-> "idle"]
  /\ using = [r \in Requests |-> None]

-----------------------------------------------------------------------------
\* plug.Build: the new instance starts its refresh worker before it is installed.
Build(c, k) ==
  /\ k \in host.configs /\ pc[c] = "idle" /\ HostMayCall
  /\ pc' = [pc EXCEPT ![c] = "built"]
  /\ cfg' = [cfg EXCEPT ![c] = k]
  /\ worker' = [worker EXCEPT ![c] = IF k.poll THEN "fetching" ELSE "none"]
  /\ UNCHANGED << host, hostUp, plugin, dir, listed, todo, victim, failed, stop, reqVars >>

\* Mutant: an instance that is replaced is not closed.
CloseForgotten(p) == stop

\* CommandCodePlugin.Close closes the stop channel of the instance, once.
Close(p) == [c \in Calls |-> stop[c] \/ c = p]

\* The critical section of handleRegister.
handleRegister(c) ==
  /\ pc[c] = "built"
  /\ stop' = Close(plugin)
  /\ plugin' = c
  /\ pc' = [pc EXCEPT ![c] = "list"]
  /\ UNCHANGED << host, hostUp, syncVars, worker, reqVars >>

\* CommandCodePluginShutdown.
Shutdown ==
  /\ HostMayCall
  /\ stop' = Close(plugin)
  /\ plugin' = None
  /\ hostUp' = FALSE
  /\ UNCHANGED << host, pc, syncVars, worker, reqVars >>

-----------------------------------------------------------------------------
(* syncManagedSchedulingAuths, after the lock.                             *)

CallFails == host.faults \/ ~hostUp

Visited(c, f) == [todo EXCEPT ![c] = @ \ {f}]
Undone(c) == failed' = [failed EXCEPT ![c] = TRUE]

listAuths(c) ==
  /\ pc[c] = "list"
  /\ pc' = [pc EXCEPT ![c] = "save"]
  /\ todo' = [todo EXCEPT ![c] = ManagedAuthFiles(cfg[c])]
  /\ \/ /\ hostUp
        /\ listed' = [listed EXCEPT ![c] = {f \in Names : dir[f] # "absent"}]
        /\ UNCHANGED failed
     \/ /\ CallFails
        /\ Undone(c)
        /\ UNCHANGED listed
  /\ UNCHANGED << host, hostUp, plugin, dir, cfg, victim, workerVars, reqVars >>

saveAuth(c, f) ==
  /\ pc[c] = "save" /\ f \in todo[c]
  /\ todo' = Visited(c, f)
  /\ \/ hostUp /\ dir' = [dir EXCEPT ![f] = cfg[c].rank] /\ UNCHANGED failed
     \/ CallFails /\ Undone(c) /\ UNCHANGED dir
  /\ UNCHANGED << host, hostUp, plugin, pc, cfg, listed, victim, workerVars, reqVars >>

\* Mutant: every listed file is stale, the ones just saved included.
StaleAll(c) == listed[c]

Stale(c) == listed[c] \ ManagedAuthFiles(cfg[c])

saved(c) ==
  /\ pc[c] = "save" /\ todo[c] = {}
  /\ pc' = [pc EXCEPT ![c] = "sweep"]
  /\ todo' = [todo EXCEPT ![c] = Stale(c)]
  /\ UNCHANGED << host, hostUp, plugin, dir, cfg, listed, victim, failed, workerVars, reqVars >>

\* Mutant: the marker is not looked at, the file only has to be there.
ManagedAnyway(f) == dir[f] # "absent"

\* The file is there and carries the marker.
Managed(f) == dir[f] \in Ranks

\* removeManagedAuthFile reads the file, unless the entry has no path.
readStale(c, f) ==
  /\ pc[c] = "sweep" /\ f \in todo[c]
  /\ todo' = Visited(c, f)
  /\ \/ /\ Managed(f)
        /\ pc' = [pc EXCEPT ![c] = "unlink"]
        /\ victim' = [victim EXCEPT ![c] = f]
        /\ UNCHANGED failed
     \/ ~Managed(f) /\ UNCHANGED << pc, victim, failed >>
     \/ host.faults /\ Undone(c) /\ UNCHANGED << pc, victim >>
  /\ UNCHANGED << host, hostUp, plugin, dir, cfg, listed, workerVars, reqVars >>

\* os.Remove; a file that is gone is no error.
removeStale(c) ==
  /\ pc[c] = "unlink"
  /\ pc' = [pc EXCEPT ![c] = "sweep"]
  /\ victim' = [victim EXCEPT ![c] = None]
  /\ \/ dir' = [dir EXCEPT ![victim[c]] = "absent"] /\ UNCHANGED failed
     \/ host.faults /\ Undone(c) /\ UNCHANGED dir
  /\ UNCHANGED << host, hostUp, plugin, cfg, listed, todo, workerVars, reqVars >>

\* The errors are logged and the registration succeeds.
registered(c) ==
  /\ pc[c] = "sweep" /\ todo[c] = {}
  /\ pc' = [pc EXCEPT ![c] = "done"]
  /\ UNCHANGED << host, hostUp, plugin, syncVars, workerVars, reqVars >>

-----------------------------------------------------------------------------
(* The worker of startRefresh.                                             *)

refreshHTTP(c) ==
  /\ worker[c] = "fetching"
  /\ worker' = [worker EXCEPT ![c] = "waiting"]
  /\ UNCHANGED << host, hostUp, plugin, pc, syncVars, stop, reqVars >>

timerFires(c) ==
  /\ worker[c] = "waiting"
  /\ worker' = [worker EXCEPT ![c] = "fetching"]
  /\ UNCHANGED << host, hostUp, plugin, pc, syncVars, stop, reqVars >>

\* Mutant: the stop case leaves the select and not the loop.
StoppedLoops == "fetching"

Stopped == "exited"

stopSeen(c) ==
  /\ worker[c] = "waiting" /\ stop[c]
  /\ worker' = [worker EXCEPT ![c] = Stopped]
  /\ UNCHANGED << host, hostUp, plugin, pc, syncVars, stop, reqVars >>

-----------------------------------------------------------------------------
(* Executor calls keep the instance they picked.                           *)

Running(c) == {r \in Requests : at[r] = "running" /\ using[r] = c}

\* Mutant: no check that a plugin is registered.
Unchecked == TRUE

Registered == plugin # None

currentPlugin(r) ==
  /\ r \in host.requests /\ at[r] = "idle" /\ Registered
  /\ at' = [at EXCEPT ![r] = "picked"]
  /\ using' = [using EXCEPT ![r] = plugin]
  /\ UNCHANGED << host, hostUp, plugin, pc, syncVars, workerVars >>

\* Executor.acquireInflight, in one step, on the counter of that instance.
acquireInflight(r) ==
  /\ at[r] = "picked"
  /\ at' = [at EXCEPT ![r] =
       IF Cardinality(Running(using[r])) < MaxInflight THEN "running" ELSE "done"]
  /\ UNCHANGED << host, hostUp, plugin, pc, syncVars, workerVars, using >>

releaseInflight(r) ==
  /\ at[r] = "running"
  /\ at' = [at EXCEPT ![r] = "done"]
  /\ UNCHANGED << host, hostUp, plugin, pc, syncVars, workerVars, using >>

-----------------------------------------------------------------------------
Sync(c) ==
  \/ listAuths(c) \/ saved(c) \/ removeStale(c) \/ registered(c)
  \/ \E f \in Names : saveAuth(c, f) \/ readStale(c, f)

Worker(c) == refreshHTTP(c) \/ timerFires(c) \/ stopSeen(c)

Serve(r) == currentPlugin(r) \/ acquireInflight(r) \/ releaseInflight(r)

Next ==
  \/ \E c \in Calls : \/ \E k \in Configs : Build(c, k)
                      \/ handleRegister(c) \/ Sync(c) \/ Worker(c)
  \/ Shutdown
  \/ \E r \in Requests : Serve(r)

Spec == Init /\ [][Next]_vars

\* A call that was made runs to its end; a fetch ends, by its 10 second timeout if
\* need be, and the wait for the timer too; when the timer and the stop channel are
\* both ready the select chooses at random, so it does not pass over stop for ever.
FairSpec ==
  /\ Spec
  /\ \A c \in Calls : /\ WF_vars(handleRegister(c)) /\ WF_vars(Sync(c))
                      /\ WF_vars(refreshHTTP(c)) /\ WF_vars(timerFires(c))
                      /\ SF_vars(stopSeen(c))

-----------------------------------------------------------------------------
(* Properties.                                                             *)

\* The last conjunct: a request that has begun has an instance to dereference.
TypeOK ==
  /\ host \in Hosts
  /\ hostUp \in BOOLEAN
  /\ plugin \in Calls \cup {None}
  /\ dir \in [Names -> Ranks \cup {"absent", "user"}]
  /\ pc \in [Calls -> {"idle", "built", "list", "save", "sweep", "unlink", "done"}]
  /\ cfg \in [Calls -> Configs \cup {NoConfig}]
  /\ listed \in [Calls -> SUBSET Names]
  /\ todo \in [Calls -> SUBSET Names]
  /\ victim \in [Calls -> Names \cup {None}]
  /\ failed \in [Calls -> BOOLEAN]
  /\ worker \in [Calls -> {"none", "fetching", "waiting", "exited"}]
  /\ stop \in [Calls -> BOOLEAN]
  /\ at \in [Requests -> {"idle", "picked", "running", "done"}]
  /\ using \in [Requests -> Calls \cup {None}]
  /\ \A r \in Requests : at[r] # "idle" => using[r] \in Calls

\* However registrations, reconfigurations and the shutdown overlap, a refresh worker
\* that nobody has told to stop belongs to the current instance, or to one that is
\* built and about to be installed (handleRegister, CommandCodePluginShutdown).
NoOrphanWorker ==
  \A c \in Calls :
    worker[c] \in {"fetching", "waiting"} /\ ~stop[c] => plugin = c \/ pc[c] = "built"

\* What the directory should hold for configuration k.
InLine(k) ==
  \A f \in Keys : dir[f] = IF f \in ManagedAuthFiles(k) THEN k.rank ELSE "absent"

Settled(c) == pc[c] = "done" /\ plugin = c /\ Busy = {}

\* With a host that waits for one call before it makes the next: when the last
\* registration went through without a failure, the managed files are
\* the ones of its configuration with its priorities, whatever failed in the
\* registrations before it or was left by an earlier process
\* (syncManagedSchedulingAuths saves all and removes the rest).
SyncExact ==
  ~host.overlap => \A c \in Calls : Settled(c) /\ ~failed[c] => InLine(cfg[c])

\* Files that have the managed prefix and not the marker are never touched
\* (removeManagedAuthFile), by any number of synchronisations at once.
ForeignKept == [][\A f \in Foreign : dir'[f] = dir[f]]_vars

\* The worker of an instance that was replaced or shut down ends
\* (Close and the select of startRefresh).
ReplacedWorkerExits ==
  \A c \in Calls :
    pc[c] \notin {"idle", "built"} /\ plugin # c ~> worker[c] \in {"none", "exited"}

\* config.go:459: max_inflight is a "Process-wide concurrent request cap".
ProcessWideCap == Cardinality({r \in Requests : at[r] = "running"}) <= MaxInflight

=============================================================================
