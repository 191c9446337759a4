---------------------------- MODULE AuthRecords ----------------------------
(***************************************************************************)
(* From an auth file to the key, the proxy and the address a call uses     *)
(* (auth.go, managed_auth.go, config.go, pool.go, executor.go).            *)
(*                                                                         *)
(* The host keeps an auth file: one of an operator, with a pool of keys or *)
(* one key, or one the plugin has written for a key of its configuration.  *)
(* ParseAuth turns it into records.  The host schedules them one by one,   *)
(* refreshes them and may save a record's JSON over the file they come     *)
(* from; the plugin must make of the saved file what it made of the first. *)
(*                                                                         *)
(* Trimmed texts and the spellings of a field are one value each; "" is a  *)
(* field that is not there.  Weights (a permutation in Executor), prefixes *)
(* and labels are passed on like a priority and left out.  The host always *)
(* hands its HTTP client to the plugin.                                    *)
(***************************************************************************)
EXTENDS SequencesExt

CONSTANTS
  Pools,       \* auth files an operator may write
  Configs,     \* configurations of the plugin
  BadProxies   \* proxy URLs that proxyTransport refuses

VARIABLES
  cfg,       \* the configuration of the plugin instance in place
  wrote,     \* the file as the operator, or the plugin, has written it
  file,      \* the file as it is
  records,   \* what the host holds of it: the plugin's answer, by position
  clients,   \* pool.clients: the proxy each cached client goes through
  call       \* the last call that went out

vars == << cfg, wrote, file, records, clients, call >>

-----------------------------------------------------------------------------
\* firstNonEmpty.
First(a, b) == IF a # "" THEN a ELSE b

Cooling == {"", "true", "false"}

\* authKeyEntry, APIKeyEntry.
IsEntry(e) ==
  /\ DOMAIN e = {"key", "priority", "proxy", "base", "disabled", "cooling"}
  /\ e.disabled \in BOOLEAN /\ e.cooling \in Cooling

\* An auth file: its own fields and its pool.
IsFile(f) ==
  /\ DOMAIN f = {"keys", "key", "priority", "proxy", "base", "disabled", "cooling", "managed"}
  /\ f.disabled \in BOOLEAN /\ f.cooling \in Cooling /\ f.managed \in BOOLEAN
  /\ f.keys \in Seq(ToSet(f.keys)) /\ \A e \in ToSet(f.keys) : IsEntry(e)

ASSUME ConstantsAssumption ==
  /\ \A f \in Pools : IsFile(f) /\ ~f.managed
  /\ \A c \in Configs :
       /\ DOMAIN c = {"keys", "key", "proxy", "priority", "base", "cooling", "shared"}
       /\ c.cooling \in Cooling /\ c.shared \in BOOLEAN
       /\ c.keys \in Seq(ToSet(c.keys)) /\ \A e \in ToSet(c.keys) : IsEntry(e)
  /\ "" \notin BadProxies

-----------------------------------------------------------------------------
\* AuthProvider.

\* An entry of a pool without a key is skipped.
Keyed(keys) ==
  FoldLeft(LAMBDA es, e : IF e.key = "" THEN es ELSE Append(es, e), << >>, keys)

\* authKeyEntries: the pool, or else the file's own key; that one has no cooldown
\* policy of its own.
authKeyEntries(raw) ==
  IF Keyed(raw.keys) # << >> THEN Keyed(raw.keys)
  ELSE IF raw.key = "" THEN << >>
  ELSE << [key |-> raw.key, priority |-> raw.priority, proxy |-> raw.proxy,
           base |-> raw.base, disabled |-> raw.disabled, cooling |-> ""] >>

\* Mutant: the record's file holds its own key only.
MetadataAlone(c, raw, e) == [raw EXCEPT !.key = e.key, !.keys = << >>]

\* What ParseAuth makes of the file for one entry.  It is the record's metadata and,
\* encoded, its StorageJSON.
Metadata(c, raw, e) ==
  [raw EXCEPT !.key = e.key,
              !.proxy = First(e.proxy, raw.proxy),
              !.base = First(e.base, raw.base),
              !.disabled = e.disabled \/ raw.disabled,
              !.cooling = First(e.cooling, First(c.cooling, raw.cooling))]

\* Mutant: what the file says wins over the entry.
AttributesOfFile(c, raw, e) ==
  [key |-> e.key, proxy |-> First(raw.proxy, e.proxy), base |-> First(raw.base, e.base),
   priority |-> First(e.priority, First(raw.priority, c.priority))]

Attributes(c, raw, e) ==
  [key |-> e.key, proxy |-> First(e.proxy, raw.proxy), base |-> First(e.base, raw.base),
   priority |-> First(e.priority, First(raw.priority, c.priority))]

\* ParseAuth.  The identifier of a record of a pool is its position.
ParseAuth(c, raw) ==
  LET entries == authKeyEntries(raw)
  IN [i \in DOMAIN entries |->
        [id |-> IF Len(entries) > 1 THEN i ELSE 0,
         metadata |-> Metadata(c, raw, entries[i]),
         attributes |-> Attributes(c, raw, entries[i]),
         proxy |-> First(entries[i].proxy, raw.proxy),
         disabled |-> entries[i].disabled \/ raw.disabled]]

\* Mutant: a refreshed record is an enabled one.
RefreshAuthEnables(r) == [r EXCEPT !.proxy = r.attributes.proxy, !.disabled = FALSE]

\* RefreshAuth; prefix, label and file name, which it leaves out, are the host's to keep.
RefreshAuth(r) ==
  [r EXCEPT !.proxy = r.attributes.proxy, !.disabled = r.metadata.disabled]

-----------------------------------------------------------------------------
\* pluginConfig.

\* The key, the proxy and the rest of a member of the pool of a call.
Member(e) == [key |-> e.key, priority |-> e.priority, proxy |-> e.proxy, cooling |-> e.cooling]
KeyOnly(key, proxy) == [key |-> key, priority |-> "", proxy |-> proxy, cooling |-> ""]

Usable(keys) ==
  FoldLeft(LAMBDA es, e : IF e.key = "" \/ e.disabled THEN es ELSE Append(es, e), << >>, keys)
Members(keys) == [i \in DOMAIN Usable(keys) |-> Member(Usable(keys)[i])]

\* A request carries the attributes and the metadata of the record it was scheduled to,
\* or metadata alone, or neither.
NoAttributes == [key |-> "", proxy |-> "", base |-> "", priority |-> ""]
NoMetadata == [keys |-> << >>, key |-> "", proxy |-> "", base |-> ""]

apiKeyEntriesFromAuth(req) ==
  LET a == req.attributes
      d == req.metadata
  IN IF a.key # "" THEN << KeyOnly(a.key, a.proxy) >>
     ELSE IF d.key # "" THEN << KeyOnly(d.key, d.proxy) >>
     ELSE Members(d.keys)

\* members: what the scheduler chose, or else what is configured.
members(c, req) ==
  LET chosen == apiKeyEntriesFromAuth(req)
      own == Members(c.keys)
      WithDefault(ms) == [i \in DOMAIN ms |-> [ms[i] EXCEPT !.proxy = First(@, c.proxy)]]
  IN IF chosen # << >> THEN WithDefault(chosen)
     ELSE IF own # << >> THEN WithDefault(own)
     ELSE IF c.key # "" THEN << KeyOnly(c.key, c.proxy) >>
     ELSE << >>

disableCoolingFor(c, m) == First(m.cooling, c.cooling)

\* endpointForRequest: base addresses are normalised already.
endpointForRequest(c, req) == First(req.attributes.base, First(req.metadata.base, c.base))

Unscheduled == [attributes |-> NoAttributes, metadata |-> NoMetadata]

\* ManagedAuthFiles: one document per configured key and proxy.
ManagedAuthFiles(c) ==
  IF ~c.shared THEN {}
  ELSE { [keys |-> << >>, key |-> m.key, priority |-> First(m.priority, c.priority),
          proxy |-> m.proxy, base |-> "", disabled |-> FALSE,
          cooling |-> disableCoolingFor(c, m), managed |-> TRUE] :
         m \in { n \in ToSet(members(c, Unscheduled)) : n.key # "" } }

-----------------------------------------------------------------------------
\* The host, and the calls it makes.

NoCall == [from |-> "", entry |-> 0, key |-> "", proxy |-> "", base |-> "", via |-> ""]

Init ==
  /\ cfg \in Configs
  /\ wrote \in Pools \cup ManagedAuthFiles(cfg)
  /\ file = wrote /\ records = ParseAuth(cfg, wrote)
  /\ clients = << >> /\ call = NoCall

\* The host reads the file again.
Load ==
  /\ records' = ParseAuth(cfg, file)
  /\ UNCHANGED << cfg, wrote, file, clients, call >>

Refresh(i) ==
  /\ records' = [records EXCEPT ![i] = RefreshAuth(@)]
  /\ UNCHANGED << cfg, wrote, file, clients, call >>

\* The host saves a record over the file it comes from.
Save(i) ==
  /\ file' = records[i].metadata
  /\ UNCHANGED << cfg, wrote, records, clients, call >>

\* The operator writes another file, and the host, which watches it, reads it at once.
Edit(f) ==
  /\ ~wrote.managed
  /\ wrote' = f /\ file' = f /\ records' = ParseAuth(cfg, f)
  /\ call' = NoCall
  /\ UNCHANGED << cfg, clients >>

\* A new instance of the plugin: a new Executor with a new pool, and new managed files
\* (PluginLifecycle says how they get there).  Other files are not read again for it.
Reconfigure(c) ==
  /\ cfg' = c /\ clients' = << >> /\ call' = NoCall
  /\ IF wrote.managed
     THEN /\ wrote' \in ManagedAuthFiles(c)
          /\ file' = wrote' /\ records' = ParseAuth(c, wrote')
     ELSE UNCHANGED << wrote, file, records >>

\* Mutant: the clients are told apart by the position in the pool alone.
cacheKeyPosition(idx, proxy) == << idx, "" >>

cacheKey(idx, proxy) == << idx, proxy >>

\* clientFor: the host's client for a member without a proxy, or a cached one.  A proxy
\* URL that cannot be used fails the call before anything is kept.
clientFor(idx, m) ==
  /\ m.proxy \notin BadProxies
  /\ clients' = IF m.proxy = "" THEN clients
                ELSE [k \in DOMAIN clients \cup {cacheKey(idx, m.proxy)} |->
                        IF k \in DOMAIN clients THEN clients[k] ELSE m.proxy]

\* The client at work: the proxy it goes through.
Through(idx, m) == IF m.proxy = "" THEN "" ELSE clients'[cacheKey(idx, m.proxy)]

\* One attempt of Execute or ExecuteStream, with the member the pool's order puts there.
Attempt(from, i, req) ==
  \E idx \in DOMAIN members(cfg, req) :
    LET m == members(cfg, req)[idx]
    IN /\ clientFor(idx, m)
       /\ call' = [from |-> from, entry |-> i, key |-> m.key, proxy |-> m.proxy,
                   base |-> endpointForRequest(cfg, req), via |-> Through(idx, m)]
       /\ UNCHANGED << cfg, wrote, file, records >>

\* HttpRequest: the first member's key and client, to an address the host gives, or with
\* an Authorization header of the host's own, without any key.
HttpRequest(from, i, req) ==
  \E header \in {"", "own header"} :
    /\ IF members(cfg, req) # << >>
       THEN LET m == members(cfg, req)[1]
            IN /\ clientFor(1, m)
               /\ call' = [from |-> from, entry |-> i, key |-> First(header, m.key),
                           proxy |-> m.proxy, base |-> "given", via |-> Through(1, m)]
       ELSE /\ header # ""
            /\ UNCHANGED clients
            /\ call' = [NoCall EXCEPT !.from = from, !.entry = i, !.key = header,
                                      !.base = "given"]
    /\ UNCHANGED << cfg, wrote, file, records >>

\* A record that is not disabled is scheduled: with its attributes, or known by its
\* metadata alone.
Scheduled(i) ==
  /\ ~records[i].disabled
  /\ \E a \in {records[i].attributes, NoAttributes} :
       LET req == [attributes |-> a, metadata |-> records[i].metadata]
       IN Attempt("record", i, req) \/ HttpRequest("record", i, req)

\* The host schedules the file itself, which it has not given to ParseAuth.
FileScheduled ==
  /\ ~file.disabled
  /\ LET req == [attributes |-> NoAttributes, metadata |-> file]
     IN authKeyEntries(file) # << >>
        /\ (Attempt("file", 0, req) \/ HttpRequest("file", 0, req))

\* No auth record is involved: the plugin is pinned by the model's name.
NotScheduled == Attempt("config", 0, Unscheduled) \/ HttpRequest("config", 0, Unscheduled)

Next ==
  \/ Load
  \/ \E i \in DOMAIN records : Refresh(i) \/ Save(i) \/ Scheduled(i)
  \/ \E f \in Pools : Edit(f)
  \/ \E c \in Configs : Reconfigure(c)
  \/ FileScheduled
  \/ NotScheduled

Spec == Init /\ [][Next]_vars

-----------------------------------------------------------------------------
\* However often the host saves one record over the file, reads it again and refreshes,
\* in whatever order: the file still has the keys it was written with, and so have its
\* records, each under its own identifier (auth.go:48-50).
PoolSurvives ==
  LET entries == authKeyEntries(wrote)
      now     == authKeyEntries(file)
  IN /\ DOMAIN now = DOMAIN entries /\ DOMAIN records = DOMAIN entries
     /\ \A i \in DOMAIN entries :
          /\ now[i].key = entries[i].key
          /\ records[i].attributes.key = entries[i].key
          /\ records[i].metadata.key = entries[i].key
          /\ records[i].id = (IF Len(entries) > 1 THEN i ELSE 0)

\* What an entry says of itself is what its record has, whatever a save has brought up
\* from another entry to the file: what leaks only fills gaps (auth.go:54-100).
OwnSettings ==
  \A i \in DOMAIN records :
    LET e == authKeyEntries(wrote)[i]
        r == records[i]
    IN /\ e.proxy # "" => r.attributes.proxy = e.proxy /\ r.metadata.proxy = e.proxy
                            /\ r.proxy = e.proxy
       /\ e.base # "" => r.attributes.base = e.base /\ r.metadata.base = e.base
       /\ e.priority # "" => r.attributes.priority = e.priority
       /\ e.cooling # "" => r.metadata.cooling = e.cooling

\* The keys of some entries or members.
KeysOf(s) == {e.key : e \in ToSet(s)}

\* A call on a record's behalf goes out with that record's key, to its address and
\* through a client of its own proxy, although every scheduled record has position one
\* in its pool and so shares the cache; other calls keep to the keys they may use.  Only
\* a file whose whole pool is disabled, scheduled as such, falls back to the configured
\* keys (config.go:306-355, pool.go:181-201).
DialsOwn ==
  /\ call.via = call.proxy
  /\ call.from # "" => call.key # ""
  /\ call.from = "record" =>
       LET e == authKeyEntries(wrote)[call.entry]
       IN /\ call.key \in {e.key, "own header"}
          /\ e.proxy # "" => call.proxy = e.proxy
          /\ e.base # "" => call.base \in {e.base, "given"}
  /\ call.from = "file" =>
       call.key \in KeysOf(authKeyEntries(wrote)) \cup {wrote.key, "own header"} \cup
         IF wrote.key = "" /\ Usable(wrote.keys) = << >>
         THEN KeysOf(members(cfg, Unscheduled)) ELSE {}
  /\ call.from = "config" =>
       call.key \in KeysOf(members(cfg, Unscheduled)) \cup {"own header"}
  /\ call.from = "record" /\ wrote.managed =>
       << call.key, call.proxy >> \in
         { << m.key, m.proxy >> : m \in ToSet(members(cfg, Unscheduled)) } \cup
         { << "own header", m.proxy >> : m \in ToSet(members(cfg, Unscheduled)) }

\* A key that its entry or its file disables is not used, however its record has been
\* refreshed, saved and read again since (auth.go:61-63, 121, 162).
DisabledStays ==
  call.from = "record" /\ call.key # "own header" =>
    ~wrote.disabled /\ ~authKeyEntries(wrote)[call.entry].disabled

\* Violated: managed_auth.go:34-36 says of the managed file that "false forces cooldowns
\* back on even when config.yaml disables them", and config.go:440 that "per-key
\* disable_cooling overrides it"; a file with a single key has no policy of its own in
\* ParseAuth, so the plugin-wide one replaces it.
CoolingOverride ==
  wrote.managed /\ wrote.cooling # "" =>
    \A i \in DOMAIN records : records[i].metadata.cooling = wrote.cooling

=============================================================================
