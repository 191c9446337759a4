----------------------- MODULE PluginLifecycleProofs -----------------------
(***************************************************************************)
(* Proofs about PluginLifecycle, for any number of calls, requests, keys   *)
(* and configurations, with and without overlapping calls and failures:    *)
(* no refresh worker is orphaned, no unmarked file is touched, and the     *)
(* files end up as the configuration says when the host waits for each.    *)
(***************************************************************************)
EXTENDS PluginLifecycle, TLAPS

\* A worker exists only once its instance is built, with a configuration.
Begun == \A c \in Calls : IF pc[c] = "idle" THEN worker[c] = "none" ELSE cfg[c] \in Configs

\* What the synchronisation writes and removes are names of managed files.
OwnFiles ==
  /\ \A f \in Foreign : dir[f] = "user"
  /\ \A c \in Calls : /\ pc[c] = "save" => todo[c] \subseteq Keys
                      /\ pc[c] = "unlink" => victim[c] \in Keys

IInv == TypeOK /\ Begun /\ NoOrphanWorker /\ OwnFiles

-----------------------------------------------------------------------------
\* The files of a configuration have managed names.
LEMMA FilesAreKeys ==
  ASSUME NEW k \in Configs \cup {NoConfig}
  PROVE  ManagedAuthFiles(k) \subseteq Keys
  <1>1. CASE k \in Configs
    <2>1. k \in [shared : BOOLEAN, keys : SUBSET Keys, rank : Ranks, poll : BOOLEAN]
      BY <1>1, ConstantsAssumption
    <2>2. k.keys \subseteq Keys
      BY <2>1
    <2> QED BY <2>2 DEF ManagedAuthFiles
  <1>2. CASE k = NoConfig
    BY <1>2 DEF ManagedAuthFiles, NoConfig
  <1> QED BY <1>1, <1>2

\* The rank of a configuration is no mark of another kind of file.
LEMMA RankIsRank ==
  ASSUME NEW k \in Configs
  PROVE  k.rank \in Ranks
  BY DEF Ranks

\* The initial states satisfy the invariant.
LEMMA InitIInv == Init => IInv
  <1> SUFFICES ASSUME Init PROVE IInv
    OBVIOUS
  <1> USE DEF Init
  <1>1. TypeOK
    BY DEF TypeOK
  <1>2. Begun
    BY DEF Begun
  <1>3. NoOrphanWorker
    BY DEF NoOrphanWorker
  <1>4. OwnFiles
    <2>1. \A f \in Foreign : dir[f] = "user"
      BY DEF Names
    <2> QED BY <2>1 DEF OwnFiles
  <1> QED BY <1>1, <1>2, <1>3, <1>4 DEF IInv

-----------------------------------------------------------------------------
\* Every step preserves the types.
LEMMA NextTypes == IInv /\ [Next]_vars => TypeOK'
  <1> SUFFICES ASSUME IInv, [Next]_vars PROVE TypeOK'
    OBVIOUS
  <1> USE NoneAssumption DEF IInv, TypeOK, syncVars, workerVars, reqVars
  <1>1. ASSUME NEW c \in Calls, NEW k \in Configs, Build(c, k) PROVE TypeOK'
    BY <1>1 DEF Build
  <1>2. ASSUME NEW c \in Calls, handleRegister(c) PROVE TypeOK'
    BY <1>2 DEF handleRegister, Close
  <1>3. ASSUME NEW c \in Calls, listAuths(c) PROVE TypeOK'
    <2>1. ManagedAuthFiles(cfg[c]) \subseteq Names
      BY FilesAreKeys DEF Names
    <2>2. {f \in Names : dir[f] # "absent"} \in SUBSET Names
      OBVIOUS
    <2>3. /\ todo' \in [Calls -> SUBSET Names] /\ pc' \in [Calls ->
               {"idle", "built", "list", "save", "sweep", "unlink", "done"}]
          /\ UNCHANGED << host, hostUp, plugin, dir, cfg, victim, worker, stop, at, using >>
      BY <1>3, <2>1 DEF listAuths
    <2>4. listed' \in [Calls -> SUBSET Names]
      <3> DEFINE L == {f \in Names : dir[f] # "absent"}
      <3>1. L \in SUBSET Names
        BY <2>2
      <3>2. listed' = [listed EXCEPT ![c] = L] \/ listed' = listed
        BY <1>3 DEF listAuths
      <3> HIDE DEF L
      <3> QED BY <3>1, <3>2
    <2>5. failed' \in [Calls -> BOOLEAN]
      BY <1>3 DEF listAuths, Undone
    <2> QED BY <2>3, <2>4, <2>5
  <1>4. ASSUME NEW c \in Calls, NEW f \in Names, saveAuth(c, f) PROVE TypeOK'
    <2>1. cfg[c].rank \in Ranks
      BY <1>4, RankIsRank DEF saveAuth, Begun
    <2> QED BY <1>4, <2>1 DEF saveAuth, Visited, Undone
  <1>5. ASSUME NEW c \in Calls, saved(c) PROVE TypeOK'
    BY <1>5 DEF saved, Stale
  <1>6. ASSUME NEW c \in Calls, NEW f \in Names, readStale(c, f) PROVE TypeOK'
    <2>1. todo' \in [Calls -> SUBSET Names]
      BY <1>6 DEF readStale, Visited
    <2>3. victim' \in [Calls -> Names \cup {None}]
      BY <1>6 DEF readStale
    <2>4. failed' \in [Calls -> BOOLEAN]
      BY <1>6 DEF readStale, Undone
    <2>2. /\ pc' \in [Calls -> {"idle", "built", "list", "save", "sweep", "unlink", "done"}]
          /\ UNCHANGED << host, hostUp, plugin, dir, cfg, listed, worker, stop, at, using >>
      BY <1>6 DEF readStale
    <2> QED BY <2>1, <2>2, <2>3, <2>4
  <1>7. ASSUME NEW c \in Calls, removeStale(c) PROVE TypeOK'
    BY <1>7 DEF removeStale, Undone
  <1>8. ASSUME NEW c \in Calls, registered(c) PROVE TypeOK'
    BY <1>8 DEF registered
  <1>9. ASSUME NEW c \in Calls, Worker(c) PROVE TypeOK'
    BY <1>9 DEF Worker, refreshHTTP, timerFires, stopSeen, Stopped
  <1>10. CASE Shutdown
    BY <1>10 DEF Shutdown, Close
  <1>11. ASSUME NEW r \in Requests, Serve(r) PROVE TypeOK'
    BY <1>11 DEF Serve, currentPlugin, Registered, acquireInflight, releaseInflight
  <1>12. CASE UNCHANGED vars
    BY <1>12 DEF vars
  <1> QED BY <1>1, <1>2, <1>3, <1>4, <1>5, <1>6, <1>7, <1>8, <1>9, <1>10, <1>11, <1>12
          DEF Next, Sync

\* Every step preserves what is known of an instance before it is installed.
LEMMA NextBegun == IInv /\ [Next]_vars => Begun'
  <1> SUFFICES ASSUME IInv, [Next]_vars, NEW d \in Calls
               PROVE  (IF pc[d] = "idle" THEN worker[d] = "none" ELSE cfg[d] \in Configs)'
    BY DEF Begun
  <1> USE DEF IInv, TypeOK, Begun, syncVars, workerVars, reqVars
  <1>1. ASSUME NEW c \in Calls, NEW k \in Configs, Build(c, k)
        PROVE  (IF pc[d] = "idle" THEN worker[d] = "none" ELSE cfg[d] \in Configs)'
    BY <1>1 DEF Build
  <1>2. ASSUME NEW c \in Calls, handleRegister(c) \/ Sync(c)
        PROVE  (IF pc[d] = "idle" THEN worker[d] = "none" ELSE cfg[d] \in Configs)'
    <2>1. UNCHANGED << cfg, worker >> /\ (pc'[d] = "idle" => pc[d] = "idle")
      BY <1>2 DEF handleRegister, Sync, listAuths, saveAuth, saved, readStale, removeStale,
                  registered
    <2>2. pc[d] = "idle" => pc'[d] = "idle"
      BY <1>2 DEF handleRegister, Sync, listAuths, saveAuth, saved, readStale, removeStale,
                  registered
    <2> QED BY <2>1, <2>2
  <1>3. ASSUME NEW c \in Calls, Worker(c)
        PROVE  (IF pc[d] = "idle" THEN worker[d] = "none" ELSE cfg[d] \in Configs)'
    BY <1>3 DEF Worker, refreshHTTP, timerFires, stopSeen, Stopped
  <1>4. CASE Shutdown \/ (\E r \in Requests : Serve(r)) \/ UNCHANGED vars
    BY <1>4 DEF Shutdown, Serve, currentPlugin, acquireInflight, releaseInflight, vars
  <1> QED BY <1>1, <1>2, <1>3, <1>4 DEF Next

\* Every step preserves that no worker is orphaned.
LEMMA NextNoOrphan == IInv /\ [Next]_vars => NoOrphanWorker'
  <1> DEFINE Owned(d) == worker[d] \in {"fetching", "waiting"} /\ ~stop[d]
                           => plugin = d \/ pc[d] = "built"
  <1> SUFFICES ASSUME IInv, [Next]_vars, NEW d \in Calls PROVE Owned(d)'
    BY DEF NoOrphanWorker
  <1>0. Owned(d)
    BY DEF IInv, NoOrphanWorker
  <1> USE DEF IInv, TypeOK, syncVars, workerVars, reqVars
  <1>1. ASSUME NEW c \in Calls, NEW k \in Configs, Build(c, k) PROVE Owned(d)'
    BY <1>0, <1>1 DEF Build
  <1>2. ASSUME NEW c \in Calls, handleRegister(c) PROVE Owned(d)'
    BY <1>0, <1>2 DEF handleRegister, Close
  <1>3. ASSUME NEW c \in Calls, Sync(c) PROVE Owned(d)'
    <2>1. UNCHANGED << worker, stop, plugin >> /\ (pc[d] = "built" => pc'[d] = "built")
      BY <1>3 DEF Sync, listAuths, saveAuth, saved, readStale, removeStale, registered
    <2> QED BY <1>0, <2>1
  <1>4. ASSUME NEW c \in Calls, Worker(c) PROVE Owned(d)'
    BY <1>0, <1>4 DEF Worker, refreshHTTP, timerFires, stopSeen, Stopped
  <1>5. CASE Shutdown
    BY <1>0, <1>5 DEF Shutdown, Close
  <1>6. CASE (\E r \in Requests : Serve(r)) \/ UNCHANGED vars
    BY <1>0, <1>6 DEF Serve, currentPlugin, acquireInflight, releaseInflight, vars
  <1> QED BY <1>1, <1>2, <1>3, <1>4, <1>5, <1>6 DEF Next

\* Every step preserves that only managed names are written and removed.
LEMMA NextOwnFiles == IInv /\ [Next]_vars => OwnFiles'
  <1> SUFFICES ASSUME IInv, [Next]_vars PROVE OwnFiles'
    OBVIOUS
  <1> USE ConstantsAssumption DEF IInv, TypeOK, OwnFiles, syncVars, workerVars, reqVars
  <1>1. ASSUME NEW c \in Calls, NEW k \in Configs, Build(c, k) PROVE OwnFiles'
    BY <1>1 DEF Build
  <1>2. ASSUME NEW c \in Calls, handleRegister(c) \/ registered(c) \/ saved(c) PROVE OwnFiles'
    BY <1>2 DEF handleRegister, registered, saved
  <1>3. ASSUME NEW c \in Calls, listAuths(c) PROVE OwnFiles'
    <2>1. ManagedAuthFiles(cfg[c]) \subseteq Keys
      BY FilesAreKeys
    <2> QED BY <1>3, <2>1 DEF listAuths
  <1>4. ASSUME NEW c \in Calls, NEW f \in Names, saveAuth(c, f) PROVE OwnFiles'
    BY <1>4 DEF saveAuth, Visited, Names
  <1>5. ASSUME NEW c \in Calls, NEW f \in Names, readStale(c, f) PROVE OwnFiles'
    <2>1. Managed(f) => f \in Keys
      BY DEF Managed, Names
    <2> QED BY <1>5, <2>1 DEF readStale, Visited
  <1>6. ASSUME NEW c \in Calls, removeStale(c) PROVE OwnFiles'
    BY <1>6 DEF removeStale, Names
  <1>7. CASE (\E c \in Calls : Worker(c)) \/ Shutdown \/ (\E r \in Requests : Serve(r))
             \/ UNCHANGED vars
    BY <1>7 DEF Worker, refreshHTTP, timerFires, stopSeen, Shutdown, Serve, currentPlugin,
                acquireInflight, releaseInflight, vars
  <1> QED BY <1>1, <1>2, <1>3, <1>4, <1>5, <1>6, <1>7 DEF Next, Sync

-----------------------------------------------------------------------------
\* The invariant the theorems rest on holds throughout.
THEOREM LifecycleInvariant == Spec => []IInv
  <1>1. Init => IInv
    BY InitIInv
  <1>2. IInv /\ [Next]_vars => IInv'
    BY NextTypes, NextBegun, NextNoOrphan, NextOwnFiles DEF IInv
  <1> QED BY <1>1, <1>2, PTL DEF Spec

\* A refresh worker that nobody has told to stop belongs to the installed instance or
\* to one about to be installed (handleRegister, CommandCodePluginShutdown).
THEOREM WorkersOwned == Spec => []NoOrphanWorker
  <1>1. IInv => NoOrphanWorker
    BY DEF IInv
  <1> QED BY <1>1, LifecycleInvariant, PTL

\* No synchronisation changes a file without the marker (removeManagedAuthFile).
THEOREM UnmarkedUntouched == Spec => ForeignKept
  <1>1. IInv /\ IInv' /\ [Next]_vars => [\A f \in Foreign : dir'[f] = dir[f]]_vars
    BY DEF IInv, OwnFiles
  <1> QED BY <1>1, LifecycleInvariant, PTL DEF Spec, ForeignKept

-----------------------------------------------------------------------------
(* A host that waits for one call before it makes the next.                *)

\* Two calls are never in progress at once, and one past its critical section is the
\* one whose instance is installed.
Alone == \A c, d \in Calls : c \in Busy /\ d \in Busy => c = d

Installed == \A c \in Calls : pc[c] \in {"list", "save", "sweep", "unlink"} => plugin = c

\* How far the synchronisation of c is with file f, if nothing has failed.
Brought(c, f) ==
  LET wanted == f \in ManagedAuthFiles(cfg[c])
      right  == dir[f] = cfg[c].rank
      gone   == dir[f] = "absent"
  IN /\ pc[c] = "save" /\ wanted => f \in todo[c] \/ right
     /\ pc[c] = "save" /\ ~wanted => f \notin todo[c] /\ (gone \/ f \in listed[c])
     /\ pc[c] = "sweep" /\ wanted => f \notin todo[c] /\ right
     /\ pc[c] = "sweep" /\ ~wanted => gone \/ f \in todo[c]
     /\ pc[c] = "unlink" /\ wanted => f \notin todo[c] /\ f # victim[c] /\ right
     /\ pc[c] = "unlink" /\ ~wanted => gone \/ f \in todo[c] \/ f = victim[c]
     /\ pc[c] = "done" /\ plugin = c /\ wanted => right
     /\ pc[c] = "done" /\ plugin = c /\ ~wanted => gone

\* A managed name is never a user's file.
Marked == \A f \in Keys : dir[f] # "user"

Serial ==
  ~host.overlap => /\ Alone /\ Installed
                   /\ \A c \in Calls, f \in Keys : ~failed[c] => Brought(c, f)

LEMMA InitSerial == Init => Marked /\ Serial
  BY ConstantsAssumption DEF Init, Marked, Serial, Alone, Installed, Busy, Brought, Names

LEMMA NextMarked == IInv /\ Marked /\ [Next]_vars => Marked'
  <1> SUFFICES ASSUME IInv, Marked, [Next]_vars, NEW f \in Keys PROVE dir'[f] # "user"
    BY DEF Marked
  <1> USE DEF Marked
  <1>0. f \in Names /\ dir \in [Names -> Ranks \cup {"absent", "user"}]
    BY DEF Names, IInv, TypeOK
  <1>1. ASSUME NEW c \in Calls, NEW g \in Names, saveAuth(c, g) PROVE dir'[f] # "user"
    <2>1. cfg[c].rank \in Ranks
      BY <1>1, RankIsRank DEF saveAuth, IInv, Begun
    <2> QED BY <1>0, <1>1, <2>1, ConstantsAssumption DEF saveAuth
  <1>2. ASSUME NEW c \in Calls, removeStale(c) PROVE dir'[f] # "user"
    BY <1>0, <1>2 DEF removeStale
  <1>3. ASSUME UNCHANGED dir PROVE dir'[f] # "user"
    BY <1>3
  <1> QED BY <1>1, <1>2, <1>3
          DEF Next, Build, handleRegister, Sync, listAuths, saved, readStale, registered,
              Worker, refreshHTTP, timerFires, stopSeen, Shutdown, Serve, currentPlugin,
              acquireInflight, releaseInflight, vars, syncVars

LEMMA NextAlone ==
  IInv /\ ~host.overlap /\ Alone /\ Installed /\ [Next]_vars => Alone' /\ Installed'
  <1> SUFFICES ASSUME IInv, ~host.overlap, Alone, Installed, [Next]_vars
               PROVE  Alone' /\ Installed'
    OBVIOUS
  <1>0. pc \in [Calls -> {"idle", "built", "list", "save", "sweep", "unlink", "done"}]
    BY DEF IInv, TypeOK
  <1>1. ASSUME NEW c \in Calls, NEW k \in Configs, Build(c, k) PROVE Alone' /\ Installed'
    <2>1. Busy = {}
      BY <1>1 DEF Build, HostMayCall
    <2> QED BY <1>0, <1>1, <2>1 DEF Build, Alone, Installed, Busy
  <1>2. ASSUME NEW c \in Calls, handleRegister(c) PROVE Alone' /\ Installed'
    BY <1>0, <1>2 DEF handleRegister, Alone, Installed, Busy
  <1>3. ASSUME NEW c \in Calls, Sync(c) PROVE Alone' /\ Installed'
    <2>1. /\ pc[c] \in {"list", "save", "sweep", "unlink"} /\ UNCHANGED plugin
          /\ \E p \in {"list", "save", "sweep", "unlink", "done"} : pc' = [pc EXCEPT ![c] = p]
      BY <1>0, <1>3 DEF Sync, listAuths, saveAuth, saved, readStale, removeStale, registered
    <2> QED BY <1>0, <2>1 DEF Alone, Installed, Busy
  <1>4. CASE Shutdown
    <2>1. Busy = {} /\ UNCHANGED pc
      BY <1>4 DEF Shutdown, HostMayCall
    <2> QED BY <1>0, <2>1 DEF Alone, Installed, Busy
  <1>5. ASSUME UNCHANGED << pc, plugin >> PROVE Alone' /\ Installed'
    BY <1>5 DEF Alone, Installed, Busy
  <1> QED BY <1>1, <1>2, <1>3, <1>4, <1>5
          DEF Next, Worker, refreshHTTP, timerFires, stopSeen, Serve, currentPlugin,
              acquireInflight, releaseInflight, vars

\* The synchronisation of one call is not disturbed by a step that leaves the directory
\* and the locals of that call alone, and does not install it.
LEMMA Undisturbed ==
  ASSUME NEW d \in Calls, NEW f \in Keys, Brought(d, f),
         pc'[d] = pc[d], cfg'[d] = cfg[d], todo'[d] = todo[d], listed'[d] = listed[d],
         victim'[d] = victim[d],
         pc[d] \in {"save", "sweep", "unlink"} => dir'[f] = dir[f],
         pc[d] = "done" /\ plugin' = d => plugin = d /\ dir'[f] = dir[f]
  PROVE  Brought(d, f)'
  BY DEF Brought

LEMMA NextBrought ==
  ASSUME IInv, Marked, ~host.overlap, Alone, Installed, [Next]_vars,
         NEW d \in Calls, NEW f \in Keys, ~failed[d] => Brought(d, f), ~failed'[d]
  PROVE  Brought(d, f)'
  <1>0. /\ pc \in [Calls -> {"idle", "built", "list", "save", "sweep", "unlink", "done"}]
        /\ cfg \in [Calls -> Configs \cup {NoConfig}] /\ dir \in [Names -> Ranks \cup {"absent", "user"}]
        /\ listed \in [Calls -> SUBSET Names] /\ todo \in [Calls -> SUBSET Names]
        /\ victim \in [Calls -> Names \cup {None}] /\ failed \in [Calls -> BOOLEAN]
        /\ f \in Names /\ plugin \in Calls \cup {None}
    BY DEF IInv, TypeOK, Names
  <1>1. ASSUME NEW c \in Calls, NEW k \in Configs, Build(c, k) PROVE Brought(d, f)'
    <2>1. CASE d = c
      BY <1>0, <1>1, <2>1 DEF Build, Brought
    <2>2. CASE d # c
      <3>1. /\ pc'[d] = pc[d] /\ cfg'[d] = cfg[d] /\ failed'[d] = failed[d]
            /\ UNCHANGED << todo, listed, victim, dir, plugin >>
        BY <1>0, <1>1, <2>2 DEF Build
      <3> QED BY <3>1, Undisturbed
    <2> QED BY <2>1, <2>2
  <1>2. ASSUME NEW c \in Calls, handleRegister(c) PROVE Brought(d, f)'
    <2>1. CASE d = c
      BY <1>0, <1>2, <2>1 DEF handleRegister, Brought
    <2>2. CASE d # c
      <3>1. /\ pc'[d] = pc[d] /\ UNCHANGED << cfg, failed, todo, listed, victim, dir >>
            /\ plugin' = c
        BY <1>0, <1>2, <2>2 DEF handleRegister, syncVars
      <3> QED BY <2>2, <3>1, Undisturbed
    <2> QED BY <2>1, <2>2
  <1>3. ASSUME NEW c \in Calls, Sync(c), d # c PROVE Brought(d, f)'
    <2> DEFINE Own == /\ pc[c] \in {"list", "save", "sweep", "unlink"}
                      /\ UNCHANGED << plugin, cfg >>
                      /\ pc'[d] = pc[d] /\ todo'[d] = todo[d] /\ listed'[d] = listed[d]
                      /\ victim'[d] = victim[d] /\ failed'[d] = failed[d]
    <2>1. ASSUME NEW g \in Names, saveAuth(c, g) PROVE Own
      BY <1>0, <1>3, <2>1 DEF saveAuth, Visited, Undone
    <2>2. ASSUME NEW g \in Names, readStale(c, g) PROVE Own
      BY <1>0, <1>3, <2>2 DEF readStale, Visited, Undone
    <2>3. ASSUME listAuths(c) PROVE Own
      BY <1>0, <1>3, <2>3 DEF listAuths, Undone
    <2>4. ASSUME removeStale(c) PROVE Own
      BY <1>0, <1>3, <2>4 DEF removeStale, Undone
    <2>5. ASSUME saved(c) \/ registered(c) PROVE Own
      BY <1>0, <1>3, <2>5 DEF saved, registered, syncVars
    <2>6. Own
      BY <1>3, <2>1, <2>2, <2>3, <2>4, <2>5 DEF Sync
    <2>7. plugin = c /\ pc[d] \notin {"save", "sweep", "unlink"}
      BY <1>0, <1>3, <2>6 DEF Alone, Installed, Busy
    <2> QED BY <1>3, <2>6, <2>7, Undisturbed
  <1>4. ASSUME listAuths(d) PROVE Brought(d, f)'
    <2>1. /\ pc'[d] = "save" /\ UNCHANGED << cfg, dir >>
          /\ todo'[d] = ManagedAuthFiles(cfg[d])
      BY <1>0, <1>4 DEF listAuths
    <2>2. f \in listed'[d] \/ dir[f] = "absent"
      BY <1>0, <1>4 DEF listAuths, Undone
    <2> QED BY <2>1, <2>2 DEF Brought
  <1>5. ASSUME NEW g \in Names, saveAuth(d, g) PROVE Brought(d, f)'
    <2>1. /\ pc[d] = "save" /\ pc'[d] = "save" /\ UNCHANGED << cfg, listed >>
          /\ g \in todo[d] /\ todo'[d] = todo[d] \ {g}
          /\ dir' = [dir EXCEPT ![g] = cfg[d].rank]
      BY <1>0, <1>5 DEF saveAuth, Visited, Undone
    <2>2. Brought(d, f)
      BY <1>0, <1>5 DEF saveAuth, Undone
    <2>3. dir'[f] = IF f = g THEN cfg[d].rank ELSE dir[f]
      BY <1>0, <2>1
    <2> QED BY <2>1, <2>2, <2>3 DEF Brought
  <1>6. ASSUME saved(d) PROVE Brought(d, f)'
    <2>1. /\ pc[d] = "save" /\ todo[d] = {} /\ pc'[d] = "sweep"
          /\ UNCHANGED << cfg, listed, dir, failed >>
          /\ todo'[d] = listed[d] \ ManagedAuthFiles(cfg[d])
      BY <1>0, <1>6 DEF saved, Stale
    <2> QED BY <2>1 DEF Brought
  <1>7. ASSUME NEW g \in Names, readStale(d, g) PROVE Brought(d, f)'
    <2>1. /\ pc[d] = "sweep" /\ UNCHANGED << cfg, dir >>
          /\ g \in todo[d] /\ todo'[d] = todo[d] \ {g}
          /\ \/ pc'[d] = "unlink" /\ victim'[d] = g
             \/ ~Managed(g) /\ pc'[d] = "sweep"
      BY <1>0, <1>7 DEF readStale, Visited, Undone
    <2>2. Brought(d, f)
      BY <1>0, <1>7 DEF readStale, Undone
    <2>3. ~Managed(f) => dir[f] = "absent"
      BY <1>0 DEF Managed, Marked
    <2> QED BY <2>1, <2>2, <2>3 DEF Brought
  <1>8. ASSUME removeStale(d) PROVE Brought(d, f)'
    <2>1. /\ pc[d] = "unlink" /\ pc'[d] = "sweep" /\ UNCHANGED << cfg, todo >>
          /\ dir' = [dir EXCEPT ![victim[d]] = "absent"]
      BY <1>0, <1>8 DEF removeStale, Undone
    <2>2. Brought(d, f)
      BY <1>0, <1>8 DEF removeStale, Undone
    <2>3. dir'[f] = IF f = victim[d] THEN "absent" ELSE dir[f]
      BY <1>0, <2>1
    <2> QED BY <2>1, <2>2, <2>3 DEF Brought
  <1>9. ASSUME registered(d) PROVE Brought(d, f)'
    <2>1. /\ pc[d] = "sweep" /\ todo[d] = {} /\ pc'[d] = "done"
          /\ UNCHANGED << cfg, dir, failed >>
      BY <1>0, <1>9 DEF registered, syncVars
    <2> QED BY <2>1 DEF Brought
  <1>10. CASE Shutdown
    <2>1. UNCHANGED << pc, cfg, failed, todo, listed, victim, dir >> /\ plugin' = None
      BY <1>10 DEF Shutdown, syncVars
    <2> QED BY <2>1, NoneAssumption, Undisturbed
  <1>11. ASSUME UNCHANGED << pc, cfg, failed, todo, listed, victim, dir, plugin >>
         PROVE  Brought(d, f)'
    BY <1>11, Undisturbed
  <1>12. ASSUME NEW c \in Calls, Sync(c) PROVE Brought(d, f)'
    BY <1>3, <1>4, <1>5, <1>6, <1>7, <1>8, <1>9, <1>12 DEF Sync
  <1> QED BY <1>1, <1>2, <1>10, <1>11, <1>12
          DEF Next, Worker, refreshHTTP, timerFires, stopSeen, Serve, currentPlugin,
              acquireInflight, releaseInflight, vars, syncVars

LEMMA NextSerial == IInv /\ Marked /\ Serial /\ [Next]_vars => Serial'
  <1> SUFFICES ASSUME IInv, Marked, Serial, [Next]_vars, ~host'.overlap
               PROVE  /\ Alone' /\ Installed'
                      /\ \A c \in Calls, f \in Keys : ~failed'[c] => Brought(c, f)'
    BY DEF Serial
  <1>1. host' = host
    BY DEF Next, Build, handleRegister, Sync, listAuths, saveAuth, saved, readStale, removeStale,
           registered, Worker, refreshHTTP, timerFires, stopSeen, Shutdown, Serve, currentPlugin,
           acquireInflight, releaseInflight, vars
  <1>2. ~host.overlap /\ Alone /\ Installed
    BY <1>1 DEF Serial
  <1>3. ASSUME NEW c \in Calls, NEW f \in Keys, ~failed'[c] PROVE Brought(c, f)'
    <2>1. ~failed[c] => Brought(c, f)
      BY <1>2 DEF Serial
    <2> QED BY <1>2, <1>3, <2>1, NextBrought
  <1> QED BY <1>2, <1>3, NextAlone

\* With a host that makes one call after the other, a registration that went through
\* without a failure leaves exactly the files of its configuration, whatever failed
\* before it, for any number of keys and registrations (syncManagedSchedulingAuths).
THEOREM SyncedExactly == Spec => []SyncExact
  <1>1. Init => IInv /\ Marked /\ Serial
    BY InitIInv, InitSerial
  <1>2. IInv /\ Marked /\ Serial /\ [Next]_vars => (IInv /\ Marked /\ Serial)'
    BY NextTypes, NextBegun, NextNoOrphan, NextOwnFiles, NextMarked, NextSerial DEF IInv
  <1>3. Serial => SyncExact
    BY DEF Serial, Brought, SyncExact, Settled, InLine
  <1> QED BY <1>1, <1>2, <1>3, PTL DEF Spec

\* Every variable has its type, and a request that has begun has an instance to use.
THEOREM TypeCorrect == Spec => []TypeOK
  <1>1. IInv => TypeOK
    BY DEF IInv
  <1> QED BY <1>1, LifecycleInvariant, PTL

=============================================================================
