----------------------------- MODULE KeyProofs ------------------------------
(***************************************************************************)
(* Proofs about what the plugin keeps of a key: its record, its session    *)
(* and the models on offer for it.                                         *)
(*                                                                         *)
(* AuthRecords, for any files, pools and configurations: what an operator  *)
(* has written of a key survives any number of loads, saves of single      *)
(* records over the file of all, refreshes and reconfigurations, in any    *)
(* order; and every call goes out with a key and through a proxy it may    *)
(* use.  The lists of usable entries are left folds (LeftFold).            *)
(*                                                                         *)
(* SessionManager: a key whose state was never evicted during one of its   *)
(* own initialisations reports its own device, whatever the number of keys *)
(* and the interleaving of initialisations and evictions; its session      *)
(* stays until it expires; and its initialisation is fresh.                *)
(*                                                                         *)
(* ModelCatalog, for any configuration and listings: the snapshot is well  *)
(* formed, and an auth record whose own models do not clash with the       *)
(* configured ones is offered every configured model.  The lists are made  *)
(* by loops that skip what they have seen (Distinct), left folds too.      *)
(***************************************************************************)
EXTENDS AuthRecords, SessionManager, ModelCatalog, FiniteSetTheorems, SequenceTheorems, TLAPS

-----------------------------------------------------------------------------
(* Records.                                                                *)

Fields == {"keys", "key", "priority", "proxy", "base", "disabled", "cooling", "managed"}

\* A file without a pool of keys.
Poolless(w) == Keyed(w.keys) = << >>

\* The one entry of such a file.
Own(w) == [key |-> w.key, priority |-> w.priority, proxy |-> w.proxy,
           base |-> w.base, disabled |-> w.disabled, cooling |-> ""]

\* What file f has kept of file w: its pool, or the key it has instead with all that it
\* says of it; and that it is disabled.
Kept(w, f) ==
  /\ DOMAIN f = Fields
  /\ f.keys = w.keys
  /\ Poolless(w) =>
       f.key = w.key /\ f.proxy = w.proxy /\ f.base = w.base /\ f.priority = w.priority
  /\ w.disabled => f.disabled

\* Record r is one for entry i of file w.
OfEntry(w, r, i) ==
  LET e == authKeyEntries(w)[i]
  IN /\ DOMAIN r = {"id", "metadata", "attributes", "proxy", "disabled"}
     /\ r.id = (IF Len(authKeyEntries(w)) > 1 THEN i ELSE 0)
     /\ Kept(w, r.metadata)
     /\ r.metadata.key = e.key /\ r.attributes.key = e.key
     /\ e.proxy # "" => r.attributes.proxy = e.proxy /\ r.metadata.proxy = e.proxy
                         /\ r.proxy = e.proxy
     /\ e.base # "" => r.attributes.base = e.base /\ r.metadata.base = e.base
     /\ e.priority # "" => r.attributes.priority = e.priority
     /\ e.cooling # "" => r.metadata.cooling = e.cooling
     /\ Poolless(w) => r.attributes.proxy = w.proxy
     /\ e.disabled => r.metadata.disabled
     /\ ~r.disabled => ~w.disabled /\ ~e.disabled

AllOfEntries(w, rs) ==
  /\ DOMAIN rs = DOMAIN authKeyEntries(w)
  /\ \A i \in DOMAIN authKeyEntries(w) : OfEntry(w, rs[i], i)

\* A call for a record was made while neither its file nor its entry was disabled.
CallAllowed == call.from = "record" => ~wrote.disabled /\ ~authKeyEntries(wrote)[call.entry].disabled

AInv ==
  /\ Kept(wrote, wrote) /\ Kept(wrote, file)
  /\ AllOfEntries(wrote, records)
  /\ CallAllowed

-----------------------------------------------------------------------------
\* Sequences of no and of one element.
LEMMA ShortSequences ==
  ASSUME NEW x
  PROVE  /\ DOMAIN << >> = {}
         /\ DOMAIN << x >> = {1} /\ << x >>[1] = x /\ Len(<< x >>) = 1
OBVIOUS

\* The entries of a file: its pool, its own key, or none.
LEMMA EntriesAre ==
  ASSUME NEW w
  PROVE  /\ ~Poolless(w) => authKeyEntries(w) = Keyed(w.keys)
         /\ Poolless(w) /\ w.key = "" => authKeyEntries(w) = << >>
         /\ Poolless(w) /\ w.key # "" => authKeyEntries(w) = << Own(w) >>
BY Zenon DEF authKeyEntries, Poolless, Own

\* A file without a pool has one entry, its own.
LEMMA SingleEntry ==
  ASSUME NEW w, Poolless(w), NEW i \in DOMAIN authKeyEntries(w)
  PROVE  i = 1 /\ w.key # "" /\ authKeyEntries(w)[i] = Own(w)
<1>1. CASE w.key = ""
  <2>1. authKeyEntries(w) = << >> BY <1>1, EntriesAre, Zenon
  <2>2. DOMAIN authKeyEntries(w) = {} BY <2>1, ShortSequences, Zenon
  <2> QED BY <2>2
<1>2. CASE w.key # ""
  <2>1. authKeyEntries(w) = << Own(w) >> BY <1>2, EntriesAre, Zenon
  <2>2. DOMAIN authKeyEntries(w) = {1} /\ authKeyEntries(w)[1] = Own(w)
    BY <2>1, ShortSequences, Zenon
  <2> QED BY <1>2, <2>2, Zenon
<1> QED BY <1>1, <1>2

LEMMA OwnFields ==
  ASSUME NEW w
  PROVE  /\ Own(w).key = w.key /\ Own(w).proxy = w.proxy /\ Own(w).base = w.base
         /\ Own(w).priority = w.priority /\ Own(w).cooling = ""
         /\ Own(w).disabled <=> w.disabled
BY DEF Own

\* A file that keeps another has entries at the same positions, with the same keys and
\* settings, and it has disabled no less.
LEMMA SamePositions ==
  ASSUME NEW w, NEW f, Kept(w, f)
  PROVE  /\ DOMAIN authKeyEntries(f) = DOMAIN authKeyEntries(w)
         /\ Len(authKeyEntries(f)) > 1 <=> Len(authKeyEntries(w)) > 1
<1>1. f.keys = w.keys /\ (Poolless(w) => f.key = w.key) BY DEF Kept
<1>2. Poolless(f) <=> Poolless(w) BY <1>1 DEF Poolless
<1>3. CASE ~Poolless(w)
  <2>1. authKeyEntries(f) = authKeyEntries(w) BY <1>1, <1>2, <1>3, EntriesAre, Zenon
  <2> QED BY <2>1
<1>4. CASE Poolless(w) /\ w.key = ""
  <2>1. authKeyEntries(f) = authKeyEntries(w) BY <1>1, <1>2, <1>4, EntriesAre, Zenon
  <2> QED BY <2>1
<1>5. CASE Poolless(w) /\ w.key # ""
  <2>1. authKeyEntries(f) = << Own(f) >> /\ authKeyEntries(w) = << Own(w) >>
    BY <1>1, <1>2, <1>5, EntriesAre, Zenon
  <2>2. /\ DOMAIN authKeyEntries(f) = {1} /\ DOMAIN authKeyEntries(w) = {1}
        /\ Len(authKeyEntries(f)) = 1 /\ Len(authKeyEntries(w)) = 1
    BY <2>1, ShortSequences, Zenon
  <2> QED BY <2>2
<1> QED BY <1>3, <1>4, <1>5

LEMMA EntriesKept ==
  ASSUME NEW w, NEW f, Kept(w, f), NEW i \in DOMAIN authKeyEntries(w),
         NEW e, e = authKeyEntries(w)[i], NEW g, g = authKeyEntries(f)[i]
  PROVE  /\ g.key = e.key /\ g.proxy = e.proxy /\ g.base = e.base
         /\ g.priority = e.priority /\ g.cooling = e.cooling
         /\ e.disabled => g.disabled
<1>1. /\ f.keys = w.keys
      /\ Poolless(w) => f.key = w.key /\ f.proxy = w.proxy /\ f.base = w.base
                          /\ f.priority = w.priority
      /\ w.disabled => f.disabled
  BY DEF Kept
<1>2. Poolless(f) <=> Poolless(w) BY <1>1 DEF Poolless
<1>3. CASE ~Poolless(w)
  <2>1. authKeyEntries(f) = authKeyEntries(w) BY <1>1, <1>2, <1>3, EntriesAre, Zenon
  <2>2. g = e BY <2>1
  <2> QED BY <2>2, Zenon
<1>4. CASE Poolless(w)
  <2>1. e = Own(w) BY <1>4, SingleEntry, Zenon
  <2>2. i \in DOMAIN authKeyEntries(f) BY SamePositions, Zenon
  <2>3. g = Own(f) BY <1>2, <1>4, <2>2, SingleEntry, Zenon
  <2>4. /\ e.key = w.key /\ e.proxy = w.proxy /\ e.base = w.base
        /\ e.priority = w.priority /\ e.cooling = "" /\ (e.disabled <=> w.disabled)
    BY <2>1, OwnFields
  <2>5. /\ g.key = f.key /\ g.proxy = f.proxy /\ g.base = f.base
        /\ g.priority = f.priority /\ g.cooling = "" /\ (g.disabled <=> f.disabled)
    BY <2>3, OwnFields
  <2> QED BY <1>1, <1>4, <2>4, <2>5, Zenon
<1> QED BY <1>3, <1>4

\* The fields of the metadata and the attributes of a record.
FromFile(c, f, g, d) ==
  /\ DOMAIN d = Fields
  /\ d.keys = f.keys /\ d.key = g.key /\ d.priority = f.priority
  /\ d.proxy = First(g.proxy, f.proxy) /\ d.base = First(g.base, f.base)
  /\ (d.disabled <=> g.disabled \/ f.disabled)
  /\ d.cooling = First(g.cooling, First(c.cooling, f.cooling))

LEMMA MetadataFields ==
  ASSUME NEW c, NEW f, DOMAIN f = Fields, NEW g, NEW d, d = Metadata(c, f, g)
  PROVE  FromFile(c, f, g, d)
BY DEF FromFile, Metadata, Fields

LEMMA AttributesFields ==
  ASSUME NEW c, NEW f, NEW g, NEW a, a = Attributes(c, f, g)
  PROVE  /\ a.key = g.key /\ a.proxy = First(g.proxy, f.proxy)
         /\ a.base = First(g.base, f.base)
         /\ a.priority = First(g.priority, First(f.priority, c.priority))
BY DEF Attributes

\* The metadata d of a record keep the file; they and the attributes a say what the entry
\* g says.
SaysOf(w, g, d, a) ==
  /\ Kept(w, d)
  /\ d.key = g.key /\ a.key = g.key
  /\ g.proxy # "" => d.proxy = g.proxy /\ a.proxy = g.proxy
  /\ g.base # "" => d.base = g.base /\ a.base = g.base
  /\ g.priority # "" => a.priority = g.priority
  /\ g.cooling # "" => d.cooling = g.cooling
  /\ Poolless(w) => a.proxy = w.proxy
  /\ g.disabled => d.disabled

LEMMA RecordKept ==
  ASSUME NEW c, NEW w, NEW f, Kept(w, f), NEW g,
         Poolless(w) => g.key = w.key /\ g.proxy = w.proxy /\ g.base = w.base,
         NEW d, d = Metadata(c, f, g), NEW a, a = Attributes(c, f, g)
  PROVE  SaysOf(w, g, d, a)
<1>1. DOMAIN f = Fields /\ f.keys = w.keys BY DEF Kept
<1>0. FromFile(c, f, g, d) BY <1>1, MetadataFields, Zenon
<1>2. /\ DOMAIN d = Fields
      /\ d.keys = f.keys /\ d.key = g.key /\ d.priority = f.priority
      /\ d.proxy = First(g.proxy, f.proxy) /\ d.base = First(g.base, f.base)
      /\ (d.disabled <=> g.disabled \/ f.disabled)
      /\ d.cooling = First(g.cooling, First(c.cooling, f.cooling))
  BY <1>0 DEF FromFile
<1>3. /\ a.key = g.key /\ a.proxy = First(g.proxy, f.proxy) /\ a.base = First(g.base, f.base)
      /\ a.priority = First(g.priority, First(f.priority, c.priority))
  BY AttributesFields
<1>4. Kept(w, d)
  <2>1. ASSUME Poolless(w)
        PROVE  d.key = w.key /\ d.proxy = w.proxy /\ d.base = w.base /\ d.priority = w.priority
    <3>1. f.proxy = w.proxy /\ f.base = w.base /\ f.priority = w.priority BY <2>1 DEF Kept
    <3> QED BY <1>2, <2>1, <3>1 DEF First
  <2>2. w.disabled => d.disabled BY <1>2 DEF Kept
  <2> QED BY <1>1, <1>2, <2>1, <2>2 DEF Kept
<1>5. /\ g.proxy # "" => d.proxy = g.proxy /\ a.proxy = g.proxy
      /\ g.base # "" => d.base = g.base /\ a.base = g.base
      /\ g.priority # "" => a.priority = g.priority
      /\ g.cooling # "" => d.cooling = g.cooling
  BY <1>2, <1>3, Zenon DEF First
<1>6. g.disabled => d.disabled BY <1>2
<1>7. Poolless(w) => a.proxy = w.proxy BY <1>3 DEF Kept, First
<1> QED BY <1>2, <1>3, <1>4, <1>5, <1>6, <1>7 DEF SaysOf

\* Reading a file that keeps another gives the records of that other file.
LEMMA ParseKeeps ==
  ASSUME NEW c, NEW w, NEW f, Kept(w, f)
  PROVE  AllOfEntries(w, ParseAuth(c, f))
<1> DEFINE rs == ParseAuth(c, f)
<1>1. /\ DOMAIN authKeyEntries(f) = DOMAIN authKeyEntries(w)
      /\ Len(authKeyEntries(f)) > 1 <=> Len(authKeyEntries(w)) > 1
  BY SamePositions
<1>2. DOMAIN rs = DOMAIN authKeyEntries(w) BY <1>1 DEF ParseAuth
<1>3. ASSUME NEW i \in DOMAIN authKeyEntries(w)
      PROVE  OfEntry(w, rs[i], i)
  <2> DEFINE e == authKeyEntries(w)[i]
             g == authKeyEntries(f)[i]
             r == rs[i]
  <2>1. /\ g.key = e.key /\ g.proxy = e.proxy /\ g.base = e.base
        /\ g.priority = e.priority /\ g.cooling = e.cooling
        /\ e.disabled => g.disabled
    BY <1>3, EntriesKept
  <2>2. r = [id |-> IF Len(authKeyEntries(f)) > 1 THEN i ELSE 0,
             metadata |-> Metadata(c, f, g),
             attributes |-> Attributes(c, f, g),
             proxy |-> First(g.proxy, f.proxy),
             disabled |-> g.disabled \/ f.disabled]
    BY <1>1, <1>3 DEF ParseAuth
  <2>3. Poolless(w) => g.key = w.key /\ g.proxy = w.proxy /\ g.base = w.base
    <3> SUFFICES ASSUME Poolless(w)
                 PROVE  g.key = w.key /\ g.proxy = w.proxy /\ g.base = w.base
      OBVIOUS
    <3>1. e = Own(w) BY <1>3, SingleEntry, Zenon
    <3> QED BY <2>1, <3>1, OwnFields, Zenon
  <2> HIDE DEF rs, e, g, r
  <2>4. /\ r.metadata = Metadata(c, f, g) /\ r.attributes = Attributes(c, f, g)
        /\ r.proxy = First(g.proxy, f.proxy)
        /\ r.disabled = (g.disabled \/ f.disabled)
        /\ r.id = (IF Len(authKeyEntries(f)) > 1 THEN i ELSE 0)
        /\ DOMAIN r = {"id", "metadata", "attributes", "proxy", "disabled"}
    BY <2>2
  <2>5. SaysOf(w, g, r.metadata, r.attributes) BY <2>3, <2>4, RecordKept, Zenon
  <2>6. g.proxy # "" => r.proxy = g.proxy BY <2>4, Zenon DEF First
  <2>7. r.id = (IF Len(authKeyEntries(w)) > 1 THEN i ELSE 0) BY <1>1, <2>4
  <2>8. ~r.disabled => ~w.disabled /\ ~e.disabled BY <2>1, <2>4 DEF Kept
  <2> QED BY <2>1, <2>4, <2>5, <2>6, <2>7, <2>8 DEF SaysOf, OfEntry, e, r
<1> QED BY <1>2, <1>3 DEF AllOfEntries

\* A refreshed record is still the entry's.
LEMMA RefreshKeeps ==
  ASSUME NEW w, NEW r, NEW i, OfEntry(w, r, i)
  PROVE  OfEntry(w, RefreshAuth(r), i)
<1> DEFINE q == RefreshAuth(r)
<1>1. DOMAIN r = {"id", "metadata", "attributes", "proxy", "disabled"} BY DEF OfEntry
<1>2. /\ DOMAIN q = {"id", "metadata", "attributes", "proxy", "disabled"}
      /\ q.id = r.id /\ q.metadata = r.metadata /\ q.attributes = r.attributes
      /\ q.proxy = r.attributes.proxy /\ q.disabled = r.metadata.disabled
  BY <1>1 DEF RefreshAuth
<1>3. ~q.disabled => ~w.disabled /\ ~authKeyEntries(w)[i].disabled
  BY <1>2 DEF OfEntry, Kept
<1> HIDE DEF q
<1> QED BY <1>2, <1>3 DEF OfEntry, q

\* The files of operators and of the plugin keep themselves.
LEMMA FilesKept ==
  ASSUME NEW c, NEW w \in Pools \cup ManagedAuthFiles(c)
  PROVE  Kept(w, w)
<1>1. CASE w \in Pools
  BY <1>1, ConstantsAssumption DEF IsFile, Kept, Fields
<1>2. CASE w \in ManagedAuthFiles(c)
  <2>1. PICK m : w = [keys |-> << >>, key |-> m.key, priority |-> First(m.priority, c.priority),
                      proxy |-> m.proxy, base |-> "", disabled |-> FALSE,
                      cooling |-> disableCoolingFor(c, m), managed |-> TRUE]
    <3>1. c.shared BY <1>2 DEF ManagedAuthFiles
    <3> QED BY <1>2, <3>1, Zenon DEF ManagedAuthFiles
  <2>2. DOMAIN w = Fields BY <2>1 DEF Fields
  <2> QED BY <2>2 DEF Kept
<1> QED BY <1>1, <1>2

-----------------------------------------------------------------------------
\* The invariant, with the file and the records made new or left alone.
LEMMA NewFile ==
  ASSUME NEW c, NEW w \in Pools \cup ManagedAuthFiles(c)
  PROVE  Kept(w, w) /\ AllOfEntries(w, ParseAuth(c, w))
BY FilesKept, ParseKeeps

LEMMA AInit == Init => AInv
<1> SUFFICES ASSUME Init PROVE AInv OBVIOUS
<1>1. Kept(wrote, wrote) /\ AllOfEntries(wrote, ParseAuth(cfg, wrote))
  BY NewFile DEF Init
<1>2. CallAllowed BY DEF Init, CallAllowed, NoCall
<1> QED BY <1>1, <1>2 DEF Init, AInv

\* A call leaves everything else alone, and says on whose behalf it is.
LEMMA CallStep ==
  ASSUME NEW from, NEW i, NEW req, Attempt(from, i, req) \/ HttpRequest(from, i, req)
  PROVE  /\ UNCHANGED << cfg, wrote, file, records >>
         /\ call'.from = from /\ call'.entry = i
<1>1. CASE Attempt(from, i, req)
  BY <1>1 DEF Attempt
<1>2. CASE HttpRequest(from, i, req)
  <2>1. UNCHANGED << cfg, wrote, file, records >> BY <1>2 DEF HttpRequest
  <2>2. PICK k, proxy, base, via :
          call' = [from |-> from, entry |-> i, key |-> k, proxy |-> proxy,
                   base |-> base, via |-> via]
    BY <1>2, Zenon DEF HttpRequest, NoCall
  <2> QED BY <2>1, <2>2
<1> QED BY <1>1, <1>2

LEMMA AStep == AInv /\ [Next]_vars => AInv'
<1> SUFFICES ASSUME AInv, [Next]_vars PROVE AInv' OBVIOUS
<1>0. /\ Kept(wrote, wrote) /\ Kept(wrote, file)
      /\ AllOfEntries(wrote, records) /\ CallAllowed
  BY DEF AInv
<1>1. CASE Load
  <2>1. AllOfEntries(wrote, ParseAuth(cfg, file)) BY <1>0, ParseKeeps
  <2> QED BY <1>0, <1>1, <2>1 DEF Load, AInv, CallAllowed
<1>2. ASSUME NEW i \in DOMAIN records, Refresh(i) PROVE AInv'
  <2>1. /\ DOMAIN records' = DOMAIN records
        /\ \A j \in DOMAIN records :
             records'[j] = IF j = i THEN RefreshAuth(records[i]) ELSE records[j]
    BY <1>2 DEF Refresh
  <2>2. UNCHANGED << wrote, file, call >> BY <1>2 DEF Refresh
  <2>3. ASSUME NEW j \in DOMAIN authKeyEntries(wrote)
        PROVE  OfEntry(wrote, records'[j], j)
    <3>1. j \in DOMAIN records /\ OfEntry(wrote, records[j], j)
      BY <1>0, <2>3 DEF AllOfEntries
    <3>2. OfEntry(wrote, RefreshAuth(records[j]), j) BY <3>1, RefreshKeeps
    <3>3. records'[j] = RefreshAuth(records[j]) \/ records'[j] = records[j]
      BY <2>1, <3>1
    <3> QED BY <3>1, <3>2, <3>3
  <2>4. AllOfEntries(wrote, records') BY <1>0, <2>1, <2>3 DEF AllOfEntries
  <2> QED BY <1>0, <2>2, <2>4 DEF AInv, CallAllowed
<1>3. ASSUME NEW i \in DOMAIN records, Save(i) PROVE AInv'
  <2>1. Kept(wrote, records[i].metadata) BY <1>0, <1>3 DEF AllOfEntries, OfEntry
  <2> QED BY <1>0, <1>3, <2>1 DEF Save, AInv, CallAllowed
<1>4. ASSUME NEW i \in DOMAIN records, Scheduled(i) PROVE AInv'
  <2>1. ~wrote.disabled /\ ~authKeyEntries(wrote)[i].disabled
    BY <1>0, <1>4 DEF Scheduled, AllOfEntries, OfEntry
  <2>2. PICK req : Attempt("record", i, req) \/ HttpRequest("record", i, req)
    BY <1>4 DEF Scheduled
  <2>3. UNCHANGED << cfg, wrote, file, records >> /\ call'.entry = i
    BY <2>2, CallStep
  <2> QED BY <1>0, <2>1, <2>3 DEF AInv, CallAllowed
<1>5. ASSUME NEW f \in Pools, Edit(f) PROVE AInv'
  <2>1. Kept(f, f) /\ AllOfEntries(f, ParseAuth(cfg, f)) BY NewFile
  <2> QED BY <1>5, <2>1 DEF Edit, AInv, CallAllowed, NoCall
<1>6. ASSUME NEW c \in Configs, Reconfigure(c) PROVE AInv'
  <2>1. CallAllowed' BY <1>6 DEF Reconfigure, CallAllowed, NoCall
  <2>2. CASE wrote.managed
    <3>1. /\ wrote' \in Pools \cup ManagedAuthFiles(c) /\ file' = wrote'
          /\ records' = ParseAuth(c, wrote')
      BY <1>6, <2>2 DEF Reconfigure
    <3>2. Kept(wrote', wrote') /\ AllOfEntries(wrote', ParseAuth(c, wrote'))
      BY <3>1, NewFile
    <3> QED BY <2>1, <3>1, <3>2 DEF AInv
  <2>3. CASE ~wrote.managed
    <3>1. UNCHANGED << wrote, file, records >> BY <1>6, <2>3 DEF Reconfigure
    <3> QED BY <1>0, <2>1, <3>1 DEF AInv
  <2> QED BY <2>2, <2>3
<1>7. ASSUME FileScheduled \/ NotScheduled PROVE AInv'
  <2>1. PICK from, i, req :
          /\ from \in {"file", "config"}
          /\ Attempt(from, i, req) \/ HttpRequest(from, i, req)
    BY <1>7 DEF FileScheduled, NotScheduled
  <2>2. UNCHANGED << cfg, wrote, file, records >> /\ call'.from # "record"
    BY <2>1, CallStep
  <2> QED BY <1>0, <2>2 DEF AInv, CallAllowed
<1>8. CASE UNCHANGED vars
  BY <1>0, <1>8 DEF vars, AInv, CallAllowed
<1> QED BY <1>1, <1>2, <1>3, <1>4, <1>5, <1>6, <1>7, <1>8 DEF Next

LEMMA AAlways == Spec => []AInv
BY AInit, AStep, PTL DEF Spec

-----------------------------------------------------------------------------
\* For any files, pools and configurations: a file keeps the keys it was written with,
\* and its records keep them under their identifiers, through every order of loads,
\* refreshes and saves of single records (auth.go:48-50).
THEOREM PoolSurvivesAlways == Spec => []PoolSurvives
<1>1. AInv => PoolSurvives
  <2> SUFFICES ASSUME AInv PROVE PoolSurvives OBVIOUS
  <2>1. /\ DOMAIN authKeyEntries(file) = DOMAIN authKeyEntries(wrote)
        /\ \A i \in DOMAIN authKeyEntries(wrote) :
             authKeyEntries(file)[i].key = authKeyEntries(wrote)[i].key
    BY SamePositions, EntriesKept DEF AInv
  <2> QED BY <2>1 DEF AInv, AllOfEntries, OfEntry, PoolSurvives
<1> QED BY <1>1, AAlways, PTL

\* What a save brings up from one entry to the file never replaces what another entry
\* says of itself (auth.go:54-100).
THEOREM OwnSettingsAlways == Spec => []OwnSettings
<1>1. AInv => OwnSettings
  BY DEF AInv, AllOfEntries, OfEntry, OwnSettings
<1> QED BY <1>1, AAlways, PTL

\* No sequence of refreshes, saves and loads makes a call with a key that its entry or
\* its file has disabled (auth.go:61-63, 121, 162).
THEOREM DisabledStaysAlways == Spec => []DisabledStays
<1>1. AInv => DisabledStays
  BY DEF AInv, CallAllowed, DisabledStays
<1> QED BY <1>1, AAlways, PTL

-----------------------------------------------------------------------------
\* The loops that gather the entries of a pool, for LeftFold.
KeyedOp(p, es, e) == IF e.key = "" THEN es ELSE Append(es, e)
UsableOp(p, es, e) == IF e.key = "" \/ e.disabled THEN es ELSE Append(es, e)

Gather == INSTANCE LeftFold WITH Op <- KeyedOp
Use    == INSTANCE LeftFold WITH Op <- UsableOp

LEMMA KeyedIsFold == \A keys : Keyed(keys) = Gather!Fold(0, << >>, keys)
BY DEF Keyed, KeyedOp, Gather!Fold, Gather!FoldLeft, FoldLeft, Gather!MapThenFoldSet,
       MapThenFoldSet, Max, Gather!Max

LEMMA UsableIsFold == \A keys : Usable(keys) = Use!Fold(0, << >>, keys)
BY DEF Usable, UsableOp, Use!Fold, Use!FoldLeft, FoldLeft, Use!MapThenFoldSet,
       MapThenFoldSet, Max, Use!Max

\* Something that is a sequence; such a one and its elements.
Sequence(s) == s \in Seq(ToSet(s))

LEMMA Elements ==
  ASSUME NEW s, Sequence(s)
  PROVE  /\ Len(s) \in Nat /\ DOMAIN s = 1..Len(s)
         /\ \A i \in DOMAIN s : s[i] \in ToSet(s)
         /\ \A e \in ToSet(s) : \E i \in DOMAIN s : e = s[i]
<1>1. s \in Seq(ToSet(s)) BY DEF Sequence
<1> QED BY <1>1 DEF ToSet

LEMMA ElementsOf ==
  ASSUME NEW S, NEW s \in Seq(S)
  PROVE  ToSet(s) \subseteq S /\ Sequence(s)
<1>1. Len(s) \in Nat /\ DOMAIN s = 1..Len(s) /\ s = [i \in 1..Len(s) |-> s[i]] OBVIOUS
<1>2. \A i \in 1..Len(s) : s[i] \in ToSet(s) BY <1>1 DEF ToSet
<1>3. s \in Seq(ToSet(s)) BY <1>1, <1>2, IsASeq
<1> QED BY <1>3 DEF ToSet, Sequence

\* One entry more.
LEMMA Gathered ==
  ASSUME NEW S, NEW v \in Seq(S), NEW e \in S
  PROVE  /\ Append(v, e) \in Seq(S)
         /\ ToSet(Append(v, e)) = ToSet(v) \cup {e}
         /\ ToSet(v) \subseteq ToSet(Append(v, e)) /\ e \in ToSet(Append(v, e))
<1>1. Append(v, e) \in Seq(S) /\ Len(Append(v, e)) = Len(v) + 1 OBVIOUS
<1>2. \A i \in 1..Len(v) : i \in 1..(Len(v) + 1) /\ Append(v, e)[i] = v[i] OBVIOUS
<1>3. Len(v) \in Nat /\ DOMAIN v = 1..Len(v) /\ DOMAIN Append(v, e) = 1..(Len(v) + 1) OBVIOUS
<1>4. Len(v) + 1 \in DOMAIN Append(v, e) /\ Append(v, e)[Len(v) + 1] = e BY <1>3
<1>5. \A i \in 1..(Len(v) + 1) : i \in 1..Len(v) \/ i = Len(v) + 1 BY <1>3
<1>6. ToSet(v) \cup {e} \subseteq ToSet(Append(v, e)) BY <1>2, <1>3, <1>4 DEF ToSet
<1>7. ToSet(Append(v, e)) \subseteq ToSet(v) \cup {e}
  BY <1>2, <1>3, <1>4, <1>5 DEF ToSet
<1> HIDE DEF ToSet
<1> QED BY <1>1, <1>6, <1>7

\* The entries of a pool are all of those with a key.
LEMMA KeyedHas ==
  ASSUME NEW keys, Sequence(keys)
  PROVE  /\ Sequence(Keyed(keys))
         /\ \A e \in ToSet(Keyed(keys)) : e \in ToSet(keys) /\ e.key # ""
         /\ \A e \in ToSet(keys) : e.key # "" => e \in ToSet(Keyed(keys))
<1> DEFINE S == {e \in ToSet(keys) : e.key # ""}
           n == Len(keys)
<1>1. n \in Nat /\ DOMAIN keys = 1..n /\ \A i \in 1..n : keys[i] \in ToSet(keys)
  BY Elements
<1> HIDE DEF n
<1>2. << >> \in Seq(S) OBVIOUS
<1>3. ASSUME NEW v \in Seq(S), NEW i \in 1..n
      PROVE  /\ KeyedOp(0, v, keys[i]) \in Seq(S)
             /\ ToSet(v) \subseteq ToSet(KeyedOp(0, v, keys[i]))
             /\ keys[i] \in S => keys[i] \in ToSet(KeyedOp(0, v, keys[i]))
  <2>1. CASE keys[i].key = ""
    <3>1. KeyedOp(0, v, keys[i]) = v BY <2>1 DEF KeyedOp
    <3> QED BY <2>1, <3>1
  <2>2. CASE keys[i].key # ""
    <3>1. keys[i] \in S BY <1>1, <2>2
    <3> HIDE DEF S
    <3>2. KeyedOp(0, v, keys[i]) = Append(v, keys[i]) BY <2>2 DEF KeyedOp
    <3>3. PICK e : e = keys[i] OBVIOUS
    <3>4. /\ Append(v, e) \in Seq(S) /\ ToSet(v) \subseteq ToSet(Append(v, e))
          /\ e \in ToSet(Append(v, e))
      BY <3>1, <3>3, Gathered
    <3> QED BY <3>2, <3>3, <3>4
  <2> QED BY <2>1, <2>2
<1> HIDE DEF S
<1>4. Gather!Fold(0, << >>, keys) \in Seq(S) BY <1>1, <1>2, <1>3, Gather!FoldKeeps
<1>5. ASSUME NEW e \in S PROVE e \in ToSet(Keyed(keys))
  <2> DEFINE G == {v \in Seq(S) : e \in ToSet(v)}
  <2>1. PICK j \in 1..n : e = keys[j] BY <1>1, Elements DEF S
  <2>2. \A v \in G : \A i \in 1..n : KeyedOp(0, v, keys[i]) \in G BY <1>3
  <2>3. \A v \in Seq(S) : KeyedOp(0, v, keys[j]) \in G BY <1>3, <2>1
  <2>4. G \subseteq Seq(S) OBVIOUS
  <2> HIDE DEF G
  <2>5. Gather!Fold(0, << >>, keys) \in G
    BY <1>1, <1>2, <1>3, <2>2, <2>3, <2>4, Gather!FoldReaches
  <2> QED BY <2>5, KeyedIsFold DEF G
<1>6. Sequence(Keyed(keys)) /\ ToSet(Keyed(keys)) \subseteq S
  BY <1>4, KeyedIsFold, ElementsOf
<1> QED BY <1>5, <1>6 DEF S

\* The usable ones have a key and are not disabled.
LEMMA UsableHas ==
  ASSUME NEW keys, Sequence(keys)
  PROVE  /\ Sequence(Usable(keys))
         /\ \A e \in ToSet(Usable(keys)) : e \in ToSet(keys) /\ e.key # "" /\ ~e.disabled
<1> DEFINE S == {e \in ToSet(keys) : e.key # "" /\ ~e.disabled}
           n == Len(keys)
<1>1. n \in Nat /\ DOMAIN keys = 1..n /\ \A i \in 1..n : keys[i] \in ToSet(keys)
  BY Elements
<1> HIDE DEF n
<1>2. << >> \in Seq(S) OBVIOUS
<1>3. ASSUME NEW v \in Seq(S), NEW i \in 1..n PROVE UsableOp(0, v, keys[i]) \in Seq(S)
  <2>1. CASE keys[i].key = "" \/ keys[i].disabled
    <3>1. UsableOp(0, v, keys[i]) = v BY <2>1 DEF UsableOp
    <3> QED BY <3>1
  <2>2. CASE ~(keys[i].key = "" \/ keys[i].disabled)
    <3>1. keys[i] \in S BY <1>1, <2>2
    <3> HIDE DEF S
    <3>2. UsableOp(0, v, keys[i]) = Append(v, keys[i]) BY <2>2 DEF UsableOp
    <3> QED BY <3>1, <3>2, Gathered
  <2> QED BY <2>1, <2>2
<1> HIDE DEF S
<1>4. Use!Fold(0, << >>, keys) \in Seq(S) BY <1>1, <1>2, <1>3, Use!FoldKeeps
<1>5. Sequence(Usable(keys)) /\ ToSet(Usable(keys)) \subseteq S
  BY <1>4, UsableIsFold, ElementsOf
<1> QED BY <1>5 DEF S

-----------------------------------------------------------------------------
\* The members of a pool: every one has its fields, and a key.
MemberFields == {"key", "priority", "proxy", "cooling"}

Pooled(ms) ==
  /\ Sequence(ms)
  /\ \A m \in ToSet(ms) : DOMAIN m = MemberFields /\ m.key # ""

\* The default proxy, given to the members that have none.
Default(ms, p) == [i \in DOMAIN ms |-> [ms[i] EXCEPT !.proxy = First(@, p)]]

LEMMA Empty ==
  ASSUME NEW s, Sequence(s)
  PROVE  s = << >> <=> DOMAIN s = {}
<1>1. s \in Seq(ToSet(s)) /\ DOMAIN s = 1..Len(s) /\ Len(s) \in Nat BY Elements DEF Sequence
<1>2. s = << >> <=> Len(s) = 0 BY <1>1, EmptySeq
<1>0. \A n \in Nat : n = 0 <=> 1..n = {} OBVIOUS
<1>3. Len(s) = 0 <=> DOMAIN s = {} BY <1>0, <1>1
<1> QED BY <1>2, <1>3

LEMMA FirstPosition == \A n \in Nat : \A y \in 1..n : 1 \in 1..n
OBVIOUS

LEMMA FirstElement ==
  ASSUME NEW s, Sequence(s), s # << >>
  PROVE  1 \in DOMAIN s
<1>1. DOMAIN s # {} /\ DOMAIN s = 1..Len(s) /\ Len(s) \in Nat BY Empty, Elements
<1>2. PICK x : x \in 1..Len(s) BY <1>1
<1> QED BY <1>1, <1>2, FirstPosition, Zenon

LEMMA NoneIsSequence == Sequence(<< >>) /\ ToSet(<< >>) = {}
<1>1. << >> \in Seq({}) OBVIOUS
<1>2. ToSet(<< >>) \subseteq {} /\ Sequence(<< >>) BY <1>1, ElementsOf, Zenon
<1> QED BY <1>2

LEMMA OneIsSequence ==
  ASSUME NEW x
  PROVE  Sequence(<< x >>) /\ ToSet(<< x >>) = {x}
<1>1. << x >> \in Seq({x}) OBVIOUS
<1>2. ToSet(<< x >>) \subseteq {x} /\ Sequence(<< x >>) BY <1>1, ElementsOf
<1>3. 1 \in DOMAIN << x >> /\ << x >>[1] = x BY ShortSequences
<1>4. x \in ToSet(<< x >>) BY <1>2, <1>3, Elements
<1> QED BY <1>2, <1>4

LEMMA OneMember ==
  ASSUME NEW k, NEW proxy, k # ""
  PROVE  /\ Pooled(<< KeyOnly(k, proxy) >>)
         /\ DOMAIN << KeyOnly(k, proxy) >> = {1}
<1> DEFINE m == KeyOnly(k, proxy)
           s == << m >>
<1>1. DOMAIN m = MemberFields /\ m.key # "" BY DEF KeyOnly, MemberFields
<1> HIDE DEF m
<1>2. Sequence(s) /\ ToSet(s) = {m} /\ DOMAIN s = {1} BY OneIsSequence, ShortSequences
<1> HIDE DEF s
<1>3. Pooled(s) BY <1>1, <1>2 DEF Pooled
<1> QED BY <1>2, <1>3 DEF s, m

LEMMA MembersHas ==
  ASSUME NEW keys, Sequence(keys)
  PROVE  /\ Pooled(Members(keys))
         /\ \A m \in ToSet(Members(keys)) : \E e \in ToSet(Usable(keys)) : m.key = e.key
         /\ Members(keys) = << >> <=> Usable(keys) = << >>
<1> DEFINE u == Usable(keys)
           ms == Members(keys)
           M == {Member(e) : e \in ToSet(u)}
<1>1. Sequence(u) /\ \A e \in ToSet(u) : e.key # "" BY UsableHas
<1>2. ms = [i \in DOMAIN u |-> Member(u[i])] BY DEF Members
<1> HIDE DEF u, ms
<1>3. Len(u) \in Nat /\ DOMAIN u = 1..Len(u) /\ \A i \in DOMAIN u : u[i] \in ToSet(u)
  BY <1>1, Elements
<1>4. ms \in Seq(M)
  <2> HIDE DEF Member
  <2>1. \A i \in 1..Len(u) : Member(u[i]) \in M BY <1>3
  <2> HIDE DEF M
  <2> QED BY <1>2, <1>3, <2>1, IsASeq
<1>5. Sequence(ms) /\ ToSet(ms) \subseteq M BY <1>4, ElementsOf
<1>6. \A e \in ToSet(u) : DOMAIN Member(e) = MemberFields /\ Member(e).key = e.key
  BY DEF Member, MemberFields
<1>7. \A m \in ToSet(ms) : DOMAIN m = MemberFields /\ \E e \in ToSet(u) : m.key = e.key
  BY <1>5, <1>6
<1>8. DOMAIN ms = DOMAIN u BY <1>2
<1>9. ms = << >> <=> u = << >> BY <1>1, <1>5, <1>8, Empty
<1> QED BY <1>1, <1>5, <1>7, <1>9 DEF Pooled, u, ms

LEMMA DefaultHas ==
  ASSUME NEW ms, Pooled(ms), NEW p
  PROVE  /\ Pooled(Default(ms, p)) /\ DOMAIN Default(ms, p) = DOMAIN ms
         /\ \A i \in DOMAIN ms : /\ Default(ms, p)[i].key = ms[i].key
                                 /\ Default(ms, p)[i].proxy = First(ms[i].proxy, p)
<1> DEFINE d == Default(ms, p)
           X == {d[i] : i \in DOMAIN ms}
<1>1. Len(ms) \in Nat /\ DOMAIN ms = 1..Len(ms) /\ \A i \in DOMAIN ms : ms[i] \in ToSet(ms)
  BY Elements DEF Pooled
<1>2. \A i \in DOMAIN ms : DOMAIN ms[i] = MemberFields /\ ms[i].key # ""
  BY <1>1 DEF Pooled
<1>3. /\ DOMAIN d = DOMAIN ms
      /\ \A i \in DOMAIN ms : d[i] = [ms[i] EXCEPT !.proxy = First(@, p)]
  BY DEF Default
<1>4. ASSUME NEW i \in DOMAIN ms
      PROVE  /\ DOMAIN d[i] = MemberFields /\ d[i].key = ms[i].key
             /\ d[i].proxy = First(ms[i].proxy, p)
  BY <1>2, <1>3, <1>4 DEF MemberFields
<1>5. d = [i \in 1..Len(ms) |-> d[i]] BY <1>1 DEF Default
<1> HIDE DEF d
<1>6. d \in Seq(X)
  <2>1. \A i \in 1..Len(ms) : d[i] \in X BY <1>1
  <2> HIDE DEF X
  <2> QED BY <1>1, <1>5, <2>1, IsASeq
<1>7. Sequence(d) /\ ToSet(d) \subseteq X BY <1>6, ElementsOf
<1>8. \A m \in X : DOMAIN m = MemberFields /\ m.key # "" BY <1>2, <1>4
<1> HIDE DEF X
<1>9. Pooled(d) BY <1>7, <1>8 DEF Pooled
<1> QED BY <1>3, <1>4, <1>9 DEF d

\* A default proxy changes no key.
LEMMA DefaultKeys ==
  ASSUME NEW ms, Pooled(ms), NEW p
  PROVE  /\ KeysOf(Default(ms, p)) \subseteq KeysOf(ms)
         /\ \A k : (\A i \in DOMAIN ms : ms[i].key = k) => KeysOf(Default(ms, p)) \subseteq {k}
<1>1. PICK d : d = Default(ms, p) OBVIOUS
<1>2. Pooled(d) /\ DOMAIN d = DOMAIN ms /\ \A i \in DOMAIN ms : d[i].key = ms[i].key
  BY <1>1, DefaultHas
<1>3. \A m \in ToSet(d) : \E i \in DOMAIN ms : m = d[i] BY <1>2, Elements DEF Pooled
<1>4. \A i \in DOMAIN ms : ms[i] \in ToSet(ms) BY Elements DEF Pooled
<1>5. KeysOf(d) \subseteq KeysOf(ms) BY <1>2, <1>3, <1>4 DEF KeysOf
<1>6. ASSUME NEW k, \A i \in DOMAIN ms : ms[i].key = k PROVE KeysOf(d) \subseteq {k}
  BY <1>2, <1>3, <1>6 DEF KeysOf
<1> QED BY <1>1, <1>5, <1>6

\* The members a request gets: what the scheduler chose, or what is configured.
LEMMA MembersCases ==
  ASSUME NEW c, NEW req
  PROVE  /\ apiKeyEntriesFromAuth(req) # << >> =>
              members(c, req) = Default(apiKeyEntriesFromAuth(req), c.proxy)
         /\ apiKeyEntriesFromAuth(req) = << >> /\ Members(c.keys) # << >> =>
              members(c, req) = Default(Members(c.keys), c.proxy)
         /\ apiKeyEntriesFromAuth(req) = << >> /\ Members(c.keys) = << >> /\ c.key # "" =>
              members(c, req) = << KeyOnly(c.key, c.proxy) >>
         /\ apiKeyEntriesFromAuth(req) = << >> /\ Members(c.keys) = << >> /\ c.key = "" =>
              members(c, req) = << >>
BY Zenon DEF members, Default

LEMMA ChosenCases ==
  ASSUME NEW req, NEW a, a = req.attributes, NEW d, d = req.metadata
  PROVE  /\ a.key # "" => apiKeyEntriesFromAuth(req) = << KeyOnly(a.key, a.proxy) >>
         /\ a.key = "" /\ d.key # "" => apiKeyEntriesFromAuth(req) = << KeyOnly(d.key, d.proxy) >>
         /\ a.key = "" /\ d.key = "" => apiKeyEntriesFromAuth(req) = Members(d.keys)
BY Zenon DEF apiKeyEntriesFromAuth

LEMMA RequestPooled ==
  ASSUME NEW c \in Configs, NEW req, Sequence(req.metadata.keys)
  PROVE  Pooled(members(c, req))
<1>1. Sequence(c.keys) BY ConstantsAssumption DEF Sequence
<1>2. Pooled(apiKeyEntriesFromAuth(req))
  <2>1. PICK a, d : a = req.attributes /\ d = req.metadata OBVIOUS
  <2>2. /\ a.key # "" => apiKeyEntriesFromAuth(req) = << KeyOnly(a.key, a.proxy) >>
        /\ a.key = "" /\ d.key # "" => apiKeyEntriesFromAuth(req) = << KeyOnly(d.key, d.proxy) >>
        /\ a.key = "" /\ d.key = "" => apiKeyEntriesFromAuth(req) = Members(d.keys)
    BY <2>1, ChosenCases
  <2>3. a.key # "" => Pooled(<< KeyOnly(a.key, a.proxy) >>) BY OneMember
  <2>4. d.key # "" => Pooled(<< KeyOnly(d.key, d.proxy) >>) BY OneMember
  <2>5. Pooled(Members(d.keys)) BY <2>1, MembersHas
  <2> QED BY <2>2, <2>3, <2>4, <2>5, Zenon
<1>3. Pooled(Members(c.keys)) BY <1>1, MembersHas, Zenon
<1>4. Pooled(<< >>) BY NoneIsSequence, Zenon DEF Pooled
<1>5. Pooled(Default(apiKeyEntriesFromAuth(req), c.proxy)) BY <1>2, DefaultHas, Zenon
<1>6. Pooled(Default(Members(c.keys), c.proxy)) BY <1>3, DefaultHas, Zenon
<1>7. c.key # "" => Pooled(<< KeyOnly(c.key, c.proxy) >>) BY OneMember, Zenon
<1> QED BY <1>4, <1>5, <1>6, <1>7, MembersCases, Zenon

\* Without a choice of the scheduler the configured keys are used.
LEMMA NothingChosen == apiKeyEntriesFromAuth(Unscheduled) = << >>
<1>1. NoAttributes.key = "" /\ NoMetadata.key = "" /\ NoMetadata.keys = << >>
  BY DEF NoAttributes, NoMetadata
<1>2. apiKeyEntriesFromAuth(Unscheduled) = Members(<< >>)
  <2>1. Unscheduled.attributes = NoAttributes /\ Unscheduled.metadata = NoMetadata
    BY DEF Unscheduled
  <2>2. PICK a, d : a = NoAttributes /\ d = NoMetadata OBVIOUS
  <2>3. a.key = "" /\ d.key = "" => apiKeyEntriesFromAuth(Unscheduled) = Members(d.keys)
    BY <2>1, <2>2, ChosenCases
  <2> QED BY <1>1, <2>2, <2>3
<1>3. Usable(<< >>) = << >>
  <2>1. Sequence(Usable(<< >>)) /\ \A e \in ToSet(Usable(<< >>)) : e \in ToSet(<< >>)
    BY NoneIsSequence, UsableHas
  <2>2. DOMAIN Usable(<< >>) = {} BY <2>1, NoneIsSequence, Elements
  <2> QED BY <2>1, <2>2, Empty
<1>4. Members(<< >>) = << >> BY <1>3, NoneIsSequence, MembersHas
<1> QED BY <1>2, <1>4

LEMMA ConfiguredOnly ==
  ASSUME NEW c, NEW req, apiKeyEntriesFromAuth(req) = << >>
  PROVE  members(c, req) = members(c, Unscheduled)
BY NothingChosen, MembersCases, Zenon

\* A pool without entries has none with a key.
LEMMA NoKeys == Keyed(<< >>) = << >>
<1>1. Sequence(Keyed(<< >>)) /\ \A e \in ToSet(Keyed(<< >>)) : e \in ToSet(<< >>)
  BY NoneIsSequence, KeyedHas
<1>2. DOMAIN Keyed(<< >>) = {} BY <1>1, NoneIsSequence, Elements
<1> QED BY <1>1, <1>2, Empty

-----------------------------------------------------------------------------
\* Every cached client goes through the proxy it is kept under.
Cached(cs) == \A k \in DOMAIN cs : cs[k] = k[2]

LEMMA ClientOfProxy ==
  ASSUME Cached(clients), NEW idx, NEW m, clientFor(idx, m)
  PROVE  Cached(clients') /\ Through(idx, m) = m.proxy
<1> DEFINE k == << idx, m.proxy >>
<1>1. k[2] = m.proxy /\ cacheKey(idx, m.proxy) = k BY DEF cacheKey
<1>2. CASE m.proxy = ""
  <2>1. clients' = clients BY <1>2 DEF clientFor
  <2> QED BY <1>2, <2>1 DEF Through, Cached
<1>3. CASE m.proxy # ""
  <2>1. clients' = [x \in DOMAIN clients \cup {k} |->
                      IF x \in DOMAIN clients THEN clients[x] ELSE m.proxy]
    BY <1>1, <1>3, Zenon DEF clientFor
  <2> HIDE DEF k
  <2>2. Cached(clients') BY <1>1, <2>1 DEF Cached
  <2>3. clients'[k] = m.proxy BY <1>1, <2>1 DEF Cached
  <2>4. Through(idx, m) = m.proxy BY <1>1, <1>3, <2>3 DEF Through
  <2> QED BY <2>2, <2>4
<1> QED BY <1>2, <1>3

\* What call k is made of, with members ms and address base: the key and the proxy of one
\* of the members, or nothing but a header of the host's own.
CallOf(ms, base, k) ==
  /\ k.via = k.proxy
  /\ k.base \in {base, "given"}
  /\ \/ \E i \in DOMAIN ms : k.proxy = ms[i].proxy /\ k.key \in {ms[i].key, "own header"}
     \/ k.key = "own header" /\ ms = << >>

LEMMA AttemptCalls ==
  ASSUME Cached(clients), NEW from, NEW i, NEW req, Attempt(from, i, req)
  PROVE  Cached(clients') /\ CallOf(members(cfg, req), endpointForRequest(cfg, req), call')
<1> DEFINE ms == members(cfg, req)
           b == endpointForRequest(cfg, req)
<1>1. PICK idx \in DOMAIN ms :
        /\ clientFor(idx, ms[idx])
        /\ call' = [from |-> from, entry |-> i, key |-> ms[idx].key, proxy |-> ms[idx].proxy,
                    base |-> b, via |-> Through(idx, ms[idx])]
  BY Zenon DEF Attempt
<1> HIDE DEF ms, b
<1>2. Cached(clients') /\ Through(idx, ms[idx]) = ms[idx].proxy BY <1>1, ClientOfProxy
<1>3. call'.via = ms[idx].proxy /\ call'.proxy = ms[idx].proxy /\ call'.base = b
      /\ call'.key = ms[idx].key
  BY <1>1, <1>2
<1> QED BY <1>1, <1>2, <1>3 DEF CallOf, ms, b

LEMMA HttpRequestCalls ==
  ASSUME Cached(clients), NEW from, NEW i, NEW req, HttpRequest(from, i, req),
         Pooled(members(cfg, req))
  PROVE  Cached(clients') /\ CallOf(members(cfg, req), endpointForRequest(cfg, req), call')
<1> DEFINE ms == members(cfg, req)
           b == endpointForRequest(cfg, req)
<1>1. CASE ms # << >>
  <2>1. PICK header \in {"", "own header"} :
          /\ clientFor(1, ms[1])
          /\ call' = [from |-> from, entry |-> i, key |-> First(header, ms[1].key),
                      proxy |-> ms[1].proxy, base |-> "given", via |-> Through(1, ms[1])]
    BY <1>1, Zenon DEF HttpRequest
  <2> HIDE DEF ms, b
  <2>2. 1 \in DOMAIN ms
    <3>1. Sequence(ms) BY DEF Pooled, ms
    <3> QED BY <1>1, <3>1, FirstElement
  <2>3. Cached(clients') /\ Through(1, ms[1]) = ms[1].proxy BY <2>1, ClientOfProxy
  <2>4. First(header, ms[1].key) \in {ms[1].key, "own header"} BY <2>1 DEF First
  <2>5. call'.via = ms[1].proxy /\ call'.proxy = ms[1].proxy /\ call'.base = "given"
        /\ call'.key \in {ms[1].key, "own header"}
    BY <2>1, <2>3, <2>4
  <2> QED BY <2>2, <2>3, <2>5 DEF CallOf, ms, b
<1>2. CASE ms = << >>
  <2>1. PICK header \in {"", "own header"} :
          /\ header # "" /\ UNCHANGED clients
          /\ call' = [NoCall EXCEPT !.from = from, !.entry = i, !.key = header, !.base = "given"]
    BY <1>2, Zenon DEF HttpRequest
  <2>2. call'.via = "" /\ call'.proxy = "" /\ call'.base = "given" /\ call'.key = "own header"
    BY <2>1 DEF NoCall
  <2>3. clients' = clients BY <2>1
  <2> QED BY <1>2, <2>2, <2>3 DEF CallOf
<1> QED BY <1>1, <1>2

\* The entries of a file have keys, and the ones of its pool are all among them.
LEMMA EntriesHave ==
  ASSUME NEW w, Sequence(w.keys)
  PROVE  /\ \A e \in ToSet(authKeyEntries(w)) : e.key # ""
         /\ \A i \in DOMAIN authKeyEntries(w) : authKeyEntries(w)[i] \in ToSet(authKeyEntries(w))
         /\ \A e \in ToSet(w.keys) : e.key # "" => e \in ToSet(authKeyEntries(w))
<1>1. /\ Sequence(Keyed(w.keys))
      /\ \A e \in ToSet(Keyed(w.keys)) : e.key # ""
      /\ \A e \in ToSet(w.keys) : e.key # "" => e \in ToSet(Keyed(w.keys))
  BY KeyedHas
<1>2. CASE ~Poolless(w)
  <2>1. authKeyEntries(w) = Keyed(w.keys) BY <1>2, EntriesAre, Zenon
  <2> QED BY <1>1, <2>1, Elements
<1>3. CASE Poolless(w)
  <2>1. \A e \in ToSet(w.keys) : e.key = "" BY <1>1, <1>3, NoneIsSequence DEF Poolless
  <2>2. CASE w.key = ""
    <3>1. authKeyEntries(w) = << >> BY <1>3, <2>2, EntriesAre, Zenon
    <3> QED BY <2>1, <3>1, NoneIsSequence, Elements
  <2>3. CASE w.key # ""
    <3>1. authKeyEntries(w) = << Own(w) >> BY <1>3, <2>3, EntriesAre, Zenon
    <3>2. Own(w).key # "" BY <2>3, OwnFields
    <3>3. Sequence(authKeyEntries(w)) /\ ToSet(authKeyEntries(w)) = {Own(w)}
      BY <3>1, OneIsSequence, Zenon
    <3> QED BY <2>1, <3>2, <3>3, Elements
  <2> QED BY <2>2, <2>3
<1> QED BY <1>2, <1>3

\* What a managed file says: a member of the configured pool.
LEMMA ManagedHas ==
  ASSUME NEW c, NEW w \in ManagedAuthFiles(c)
  PROVE  /\ w.keys = << >> /\ w.managed
         /\ \E m \in ToSet(members(c, Unscheduled)) :
              m.key # "" /\ w.key = m.key /\ w.proxy = m.proxy
<1>1. c.shared BY DEF ManagedAuthFiles
<1>2. PICK m \in { n \in ToSet(members(c, Unscheduled)) : n.key # "" } :
             w = [keys |-> << >>, key |-> m.key, priority |-> First(m.priority, c.priority),
                  proxy |-> m.proxy, base |-> "", disabled |-> FALSE,
                  cooling |-> disableCoolingFor(c, m), managed |-> TRUE]
  BY <1>1, Zenon DEF ManagedAuthFiles
<1>3. w.keys = << >> /\ w.managed /\ w.key = m.key /\ w.proxy = m.proxy BY <1>2
<1> QED BY <1>2, <1>3

LEMMA FilePool ==
  ASSUME NEW c, NEW w \in Pools \cup ManagedAuthFiles(c)
  PROVE  Sequence(w.keys)
<1>1. CASE w \in Pools BY <1>1, ConstantsAssumption DEF IsFile, Sequence
<1>2. CASE w \in ManagedAuthFiles(c) BY <1>2, ManagedHas, NoneIsSequence
<1> QED BY <1>1, <1>2

-----------------------------------------------------------------------------
\* The file has its own key or that of an entry; a managed file is one of the
\* configuration in place; and the clients are in order.
Registered ==
  /\ cfg \in Configs
  /\ wrote \in Pools \cup ManagedAuthFiles(cfg)
  /\ file.key \in KeysOf(authKeyEntries(wrote)) \cup {wrote.key}
  /\ Cached(clients)

DInv == AInv /\ Registered /\ DialsOwn

LEMMA KeyOfEntry ==
  ASSUME NEW w, Sequence(w.keys), NEW i \in DOMAIN authKeyEntries(w)
  PROVE  /\ authKeyEntries(w)[i].key # ""
         /\ authKeyEntries(w)[i].key \in KeysOf(authKeyEntries(w))
BY EntriesHave, Zenon DEF KeysOf

\* The request of a record has one member: the entry's key with its proxy.
RecordMember(w, e, ms, p) ==
  /\ Pooled(ms) /\ DOMAIN ms = {1} /\ ms[1].key = e.key
  /\ e.proxy # "" => ms[1].proxy = e.proxy
  /\ Poolless(w) => ms[1].proxy = First(w.proxy, p)

RecordAsks(w, r, i, req) ==
  /\ OfEntry(w, r, i) /\ authKeyEntries(w)[i].key # ""
  /\ req.attributes \in {r.attributes, NoAttributes} /\ req.metadata = r.metadata

Recorded(c, w, i, req) ==
  LET e == authKeyEntries(w)[i]
  IN /\ RecordMember(w, e, members(c, req), c.proxy)
     /\ e.base # "" => endpointForRequest(c, req) = e.base

LEMMA RecordRequest ==
  ASSUME NEW c, NEW w, NEW r, NEW i, NEW req, RecordAsks(w, r, i, req)
  PROVE  Recorded(c, w, i, req)
<1> PICK e : e = authKeyEntries(w)[i] OBVIOUS
<1> PICK a \in {r.attributes, NoAttributes} :
      OfEntry(w, r, i) /\ e.key # "" /\ req.attributes = a /\ req.metadata = r.metadata
  BY DEF RecordAsks
<1> DEFINE d == r.metadata
           q == IF a.key # "" THEN a.proxy ELSE d.proxy
<1>1. NoAttributes.key = "" /\ NoAttributes.base = "" BY DEF NoAttributes
<1>2. /\ d.key = e.key /\ r.attributes.key = e.key
      /\ e.proxy # "" => r.attributes.proxy = e.proxy /\ d.proxy = e.proxy
      /\ e.base # "" => r.attributes.base = e.base /\ d.base = e.base
      /\ Poolless(w) => r.attributes.proxy = w.proxy /\ d.proxy = w.proxy
  BY DEF OfEntry, Kept
<1>3. /\ a.key # "" => a.key = e.key
      /\ e.proxy # "" => q = e.proxy
      /\ Poolless(w) => q = w.proxy
  BY <1>1, <1>2
<1>4. e.base # "" => endpointForRequest(c, req) = e.base
  BY <1>1, <1>2 DEF endpointForRequest, First
<1>0. a = req.attributes /\ d = req.metadata OBVIOUS
<1> HIDE DEF q, d
<1>5. apiKeyEntriesFromAuth(req) = << KeyOnly(e.key, q) >>
  <2>1. a.key # "" => apiKeyEntriesFromAuth(req) = << KeyOnly(a.key, a.proxy) >>
    BY <1>0, ChosenCases
  <2>2. a.key = "" => apiKeyEntriesFromAuth(req) = << KeyOnly(d.key, d.proxy) >>
    <3>1. d.key # "" BY <1>2
    <3>2. a.key = "" /\ d.key # "" => apiKeyEntriesFromAuth(req) = << KeyOnly(d.key, d.proxy) >>
      BY <1>0, ChosenCases
    <3> QED BY <3>1, <3>2
  <2>3. CASE a.key # "" BY <1>3, <2>1, <2>3, Zenon DEF q
  <2>4. CASE a.key = "" BY <1>2, <2>2, <2>4, Zenon DEF q
  <2> QED BY <2>3, <2>4
<1>6. PICK one : one = << KeyOnly(e.key, q) >> OBVIOUS
<1>7. Pooled(one) /\ DOMAIN one = {1} /\ one[1] = KeyOnly(e.key, q)
  BY <1>6, OneMember, ShortSequences
<1>8. members(c, req) = Default(one, c.proxy)
  <2>1. one # << >> BY <1>7, NoneIsSequence, Empty
  <2> QED BY <1>5, <1>6, <2>1, MembersCases, Zenon
<1>9. KeyOnly(e.key, q).key = e.key /\ KeyOnly(e.key, q).proxy = q BY DEF KeyOnly
<1>10. PICK ms : ms = members(c, req) OBVIOUS
<1>11. /\ Pooled(ms) /\ DOMAIN ms = {1} /\ ms[1].key = e.key
       /\ ms[1].proxy = First(q, c.proxy)
  <2>1. /\ Pooled(Default(one, c.proxy)) /\ DOMAIN Default(one, c.proxy) = DOMAIN one
        /\ \A j \in DOMAIN one : /\ Default(one, c.proxy)[j].key = one[j].key
                                /\ Default(one, c.proxy)[j].proxy = First(one[j].proxy, c.proxy)
    BY <1>7, DefaultHas, Zenon
  <2>2. 1 \in DOMAIN one BY <1>7
  <2>3. ms = Default(one, c.proxy) BY <1>8, <1>10, Zenon
  <2> QED BY <1>7, <1>9, <2>1, <2>2, <2>3
<1>12. RecordMember(w, e, ms, c.proxy) BY <1>3, <1>11 DEF RecordMember, First
<1> QED BY <1>4, <1>10, <1>12 DEF Recorded

\* A configured member without a proxy means that there is no default either.
LEMMA NoDefaultProxy ==
  ASSUME NEW c \in Configs, NEW m \in ToSet(members(c, Unscheduled)), m.proxy = ""
  PROVE  c.proxy = ""
<1>1. apiKeyEntriesFromAuth(Unscheduled) = << >> BY NothingChosen
<1>2. Sequence(c.keys) BY ConstantsAssumption DEF Sequence
<1>3. PICK ms : ms = members(c, Unscheduled) OBVIOUS
<1>4. CASE Members(c.keys) # << >>
  <2>1. ms = Default(Members(c.keys), c.proxy) BY <1>1, <1>3, <1>4, MembersCases, Zenon
  <2>2. Pooled(Members(c.keys)) BY <1>2, MembersHas
  <2>3. Pooled(ms) /\ \A i \in DOMAIN ms : ms[i].proxy = First(Members(c.keys)[i].proxy, c.proxy)
    <3>1. /\ Pooled(Default(Members(c.keys), c.proxy))
          /\ DOMAIN Default(Members(c.keys), c.proxy) = DOMAIN Members(c.keys)
          /\ \A i \in DOMAIN Members(c.keys) :
               Default(Members(c.keys), c.proxy)[i].proxy = First(Members(c.keys)[i].proxy, c.proxy)
      BY <2>2, DefaultHas, Zenon
    <3> QED BY <2>1, <3>1, Zenon
  <2>4. PICK i \in DOMAIN ms : m = ms[i] BY <1>3, <2>3, Elements DEF Pooled
  <2> QED BY <2>3, <2>4 DEF First
<1>5. CASE Members(c.keys) = << >> /\ c.key # ""
  <2>1. ms = << KeyOnly(c.key, c.proxy) >> BY <1>1, <1>3, <1>5, MembersCases, Zenon
  <2>2. m = KeyOnly(c.key, c.proxy) BY <1>3, <2>1, OneIsSequence
  <2> QED BY <2>2 DEF KeyOnly
<1>6. CASE Members(c.keys) = << >> /\ c.key = ""
  <2>1. ms = << >> BY <1>1, <1>3, <1>6, MembersCases, Zenon
  <2> QED BY <1>3, <2>1, NoneIsSequence
<1> QED BY <1>4, <1>5, <1>6

\* What a call for entry i of file w with configuration c has to be.
OfRecord(c, w, i, k) ==
  LET e == authKeyEntries(w)[i]
      ms == members(c, Unscheduled)
  IN /\ k.key \in {e.key, "own header"}
     /\ e.proxy # "" => k.proxy = e.proxy
     /\ e.base # "" => k.base \in {e.base, "given"}
     /\ w.managed => << k.key, k.proxy >> \in
          { << m.key, m.proxy >> : m \in ToSet(ms) } \cup
          { << "own header", m.proxy >> : m \in ToSet(ms) }

LEMMA RecordCall ==
  ASSUME NEW c \in Configs, NEW w \in Pools \cup ManagedAuthFiles(c),
         NEW r, NEW i \in DOMAIN authKeyEntries(w), OfEntry(w, r, i),
         NEW a \in {r.attributes, NoAttributes},
         NEW req, req.attributes = a, req.metadata = r.metadata,
         NEW k, CallOf(members(c, req), endpointForRequest(c, req), k)
  PROVE  k.key # "" /\ OfRecord(c, w, i, k)
<1>1. PICK e, ms : e = authKeyEntries(w)[i] /\ ms = members(c, req) OBVIOUS
<1>2. e.key # "" BY <1>1, FilePool, KeyOfEntry
<1>3. RecordMember(w, e, ms, c.proxy) /\ (e.base # "" => endpointForRequest(c, req) = e.base)
  <2>1. RecordAsks(w, r, i, req) BY <1>1, <1>2 DEF RecordAsks
  <2>2. Recorded(c, w, i, req) BY <2>1, RecordRequest, Zenon
  <2> QED BY <1>1, <2>2, Zenon DEF Recorded
<1>4. Pooled(ms) /\ DOMAIN ms = {1} /\ ms[1].key = e.key
      /\ (e.proxy # "" => ms[1].proxy = e.proxy)
      /\ (Poolless(w) => ms[1].proxy = First(w.proxy, c.proxy))
  BY <1>3 DEF RecordMember
<1>5. ms # << >> BY <1>4, NoneIsSequence, Empty
<1>6. k.proxy = ms[1].proxy /\ k.key \in {ms[1].key, "own header"}
      /\ k.base \in {endpointForRequest(c, req), "given"}
  BY <1>1, <1>4, <1>5 DEF CallOf
<1>7. w.managed => << k.key, k.proxy >> \in
        { << m.key, m.proxy >> : m \in ToSet(members(c, Unscheduled)) } \cup
        { << "own header", m.proxy >> : m \in ToSet(members(c, Unscheduled)) }
  <2> SUFFICES ASSUME w.managed
               PROVE  \E m \in ToSet(members(c, Unscheduled)) :
                        k.key \in {m.key, "own header"} /\ k.proxy = m.proxy
    OBVIOUS
  <2>1. w \in ManagedAuthFiles(c) BY ConstantsAssumption
  <2>2. PICK m \in ToSet(members(c, Unscheduled)) :
          w.key = m.key /\ w.proxy = m.proxy
    BY <2>1, ManagedHas
  <2>3. Poolless(w)
    <3>1. w.keys = << >> BY <2>1, ManagedHas
    <3>2. Keyed(<< >>) = << >> BY NoKeys
    <3> QED BY <3>1, <3>2 DEF Poolless
  <2>4. e = Own(w) BY <1>1, <2>3, SingleEntry
  <2>5. e.key = m.key BY <2>2, <2>4, OwnFields
  <2>6. ms[1].proxy = m.proxy
    <3>1. ms[1].proxy = First(m.proxy, c.proxy) BY <1>4, <2>2, <2>3
    <3>2. m.proxy = "" => c.proxy = "" BY NoDefaultProxy
    <3> QED BY <3>1, <3>2 DEF First
  <2> QED BY <1>4, <1>6, <2>5, <2>6
<1>8. k.key # "" BY <1>2, <1>4, <1>6
<1>9. k.key \in {e.key, "own header"} BY <1>4, <1>6
<1>10. e.proxy # "" => k.proxy = e.proxy BY <1>4, <1>6
<1>11. e.base # "" => k.base \in {e.base, "given"} BY <1>3, <1>6
<1> QED BY <1>1, <1>7, <1>8, <1>9, <1>10, <1>11, Zenon DEF OfRecord

\* The same of a call for the file f that w has become.
OfFile(c, w, k) ==
  k.key \in KeysOf(authKeyEntries(w)) \cup {w.key, "own header"} \cup
    IF w.key = "" /\ Usable(w.keys) = << >> THEN KeysOf(members(c, Unscheduled)) ELSE {}

\* The keys a call may have are those of its members.
LEMMA CallKey ==
  ASSUME NEW ms, Pooled(ms), NEW base, NEW k, CallOf(ms, base, k)
  PROVE  k.key # "" /\ k.key \in KeysOf(ms) \cup {"own header"}
<1>1. \A i \in DOMAIN ms : ms[i].key # "" /\ ms[i].key \in KeysOf(ms)
  <2>1. \A i \in DOMAIN ms : ms[i] \in ToSet(ms) BY Elements DEF Pooled
  <2> QED BY <2>1 DEF Pooled, KeysOf
<1> QED BY <1>1 DEF CallOf

LEMMA FileCall ==
  ASSUME NEW c \in Configs, NEW w, Sequence(w.keys), NEW f, f.keys = w.keys,
         f.key \in KeysOf(authKeyEntries(w)) \cup {w.key},
         NEW req, req.attributes = NoAttributes, req.metadata = f,
         NEW base, NEW k, CallOf(members(c, req), base, k)
  PROVE  k.key # "" /\ OfFile(c, w, k)
<1>1. NoAttributes.key = "" BY DEF NoAttributes
<1>2. Pooled(members(c, req)) BY RequestPooled
<1>3. k.key # "" /\ k.key \in KeysOf(members(c, req)) \cup {"own header"} BY <1>2, CallKey
<1>4. CASE f.key # ""
  <2>1. apiKeyEntriesFromAuth(req) = << KeyOnly(f.key, f.proxy) >>
    BY <1>1, <1>4, ChosenCases
  <2>2. KeysOf(members(c, req)) \subseteq {f.key}
    <3>1. PICK one : one = << KeyOnly(f.key, f.proxy) >> OBVIOUS
    <3>2. Pooled(one) /\ DOMAIN one = {1} /\ one[1] = KeyOnly(f.key, f.proxy)
      BY <1>4, <3>1, OneMember, ShortSequences
    <3>3. one # << >> BY <3>2, NoneIsSequence, Empty
    <3>4. members(c, req) = Default(one, c.proxy) BY <2>1, <3>1, <3>3, MembersCases, Zenon
    <3>5. KeyOnly(f.key, f.proxy).key = f.key BY DEF KeyOnly
    <3> QED BY <3>2, <3>4, <3>5, DefaultKeys
  <2> QED BY <1>3, <2>2 DEF OfFile
<1>5. CASE f.key = ""
  <2>1. \A e \in ToSet(authKeyEntries(w)) : e.key # "" BY EntriesHave
  <2>2. w.key = "" BY <1>5, <2>1 DEF KeysOf
  <2>3. apiKeyEntriesFromAuth(req) = Members(w.keys) BY <1>1, <1>5, ChosenCases
  <2>4. CASE Usable(w.keys) = << >>
    <3>1. members(c, req) = members(c, Unscheduled)
      BY <2>3, <2>4, MembersHas, ConfiguredOnly
    <3> QED BY <1>3, <2>2, <2>4, <3>1 DEF OfFile
  <2>5. CASE Usable(w.keys) # << >>
    <3>1. PICK ms : ms = Members(w.keys) OBVIOUS
    <3>2. ms # << >> /\ Pooled(ms) /\ \A m \in ToSet(ms) : \E e \in ToSet(Usable(w.keys)) : m.key = e.key
      BY <2>5, <3>1, MembersHas
    <3>3. members(c, req) = Default(ms, c.proxy) BY <2>3, <3>1, <3>2, MembersCases, Zenon
    <3>4. KeysOf(members(c, req)) \subseteq KeysOf(ms) BY <3>2, <3>3, DefaultKeys
    <3>5. \A e \in ToSet(Usable(w.keys)) : e \in ToSet(authKeyEntries(w))
      BY UsableHas, EntriesHave
    <3>6. KeysOf(ms) \subseteq KeysOf(authKeyEntries(w)) BY <3>2, <3>5 DEF KeysOf
    <3> QED BY <1>3, <3>4, <3>6 DEF OfFile
  <2> QED BY <2>4, <2>5
<1> QED BY <1>4, <1>5

\* A call is all that a step on somebody's behalf makes.
LEMMA CallMade ==
  ASSUME Registered, NEW from, NEW i, NEW req, Attempt(from, i, req) \/ HttpRequest(from, i, req),
         Sequence(req.metadata.keys)
  PROVE  /\ Registered' /\ UNCHANGED << cfg, wrote, file, records >>
         /\ call'.from = from /\ call'.entry = i
         /\ CallOf(members(cfg, req), endpointForRequest(cfg, req), call')
<1>1. /\ cfg \in Configs /\ wrote \in Pools \cup ManagedAuthFiles(cfg)
      /\ file.key \in KeysOf(authKeyEntries(wrote)) \cup {wrote.key}
      /\ Cached(clients)
  BY DEF Registered
<1>2. Pooled(members(cfg, req)) BY <1>1, RequestPooled
<1>3. Cached(clients') /\ CallOf(members(cfg, req), endpointForRequest(cfg, req), call')
  BY <1>1, <1>2, AttemptCalls, HttpRequestCalls
<1>4. /\ cfg' = cfg /\ wrote' = wrote /\ file' = file /\ records' = records
      /\ call'.from = from /\ call'.entry = i
  BY CallStep
<1>5. Registered' BY <1>1, <1>3, <1>4 DEF Registered
<1> QED BY <1>3, <1>4, <1>5

\* DialsOwn, one behalf at a time.
Dials(c, w, k) ==
  /\ k.via = k.proxy
  /\ k.from # "" => k.key # ""
  /\ k.from = "record" => OfRecord(c, w, k.entry, k)
  /\ k.from = "file" => OfFile(c, w, k)
  /\ k.from = "config" => k.key \in KeysOf(members(c, Unscheduled)) \cup {"own header"}

LEMMA DialsIs == DialsOwn <=> Dials(cfg, wrote, call)
BY Zenon DEF DialsOwn, Dials, OfRecord, OfFile

LEMMA RecordDials ==
  ASSUME AInv, Registered, NEW i \in DOMAIN records, Scheduled(i)
  PROVE  Registered' /\ Dials(cfg', wrote', call')
<1>1. cfg \in Configs /\ wrote \in Pools \cup ManagedAuthFiles(cfg) BY DEF Registered
<1>2. i \in DOMAIN authKeyEntries(wrote) /\ OfEntry(wrote, records[i], i)
  BY DEF AInv, AllOfEntries
<1>3. PICK a \in {records[i].attributes, NoAttributes} :
        \E req : /\ req = [attributes |-> a, metadata |-> records[i].metadata]
                 /\ Attempt("record", i, req) \/ HttpRequest("record", i, req)
  BY DEF Scheduled
<1>4. PICK req : /\ req = [attributes |-> a, metadata |-> records[i].metadata]
                 /\ Attempt("record", i, req) \/ HttpRequest("record", i, req)
  BY <1>3
<1>5. req.attributes = a /\ req.metadata = records[i].metadata BY <1>4
<1>6. Sequence(req.metadata.keys)
  <2>1. Sequence(wrote.keys) BY <1>1, FilePool
  <2>2. records[i].metadata.keys = wrote.keys BY <1>2 DEF OfEntry, Kept
  <2> QED BY <1>5, <2>1, <2>2
<1>7. /\ Registered' /\ UNCHANGED << cfg, wrote, file, records >>
      /\ call'.from = "record" /\ call'.entry = i
      /\ CallOf(members(cfg, req), endpointForRequest(cfg, req), call')
  BY <1>4, <1>6, CallMade
<1>8. PICK k, r : k = call' /\ r = records[i] OBVIOUS
<1>9. k.key # "" /\ OfRecord(cfg, wrote, i, k)
  BY <1>1, <1>2, <1>3, <1>5, <1>7, <1>8, RecordCall, Zenon
<1>10. k.via = k.proxy BY <1>7, <1>8 DEF CallOf
<1>11. Dials(cfg, wrote, k) BY <1>7, <1>8, <1>9, <1>10 DEF Dials
<1> QED BY <1>7, <1>8, <1>11

LEMMA FileDials ==
  ASSUME AInv, Registered, FileScheduled
  PROVE  Registered' /\ Dials(cfg', wrote', call')
<1>1. /\ cfg \in Configs /\ wrote \in Pools \cup ManagedAuthFiles(cfg)
      /\ file.key \in KeysOf(authKeyEntries(wrote)) \cup {wrote.key}
  BY DEF Registered
<1>2. PICK req : /\ req = [attributes |-> NoAttributes, metadata |-> file]
                 /\ Attempt("file", 0, req) \/ HttpRequest("file", 0, req)
  BY DEF FileScheduled
<1>3. req.attributes = NoAttributes /\ req.metadata = file BY <1>2
<1>4. Sequence(wrote.keys) /\ file.keys = wrote.keys BY <1>1, FilePool DEF AInv, Kept
<1>5. /\ Registered' /\ UNCHANGED << cfg, wrote, file, records >>
      /\ call'.from = "file"
      /\ CallOf(members(cfg, req), endpointForRequest(cfg, req), call')
  BY <1>2, <1>3, <1>4, CallMade
<1>6. PICK k, base : k = call' /\ base = endpointForRequest(cfg, req) OBVIOUS
<1>7. k.key # "" /\ OfFile(cfg, wrote, k)
  BY <1>1, <1>3, <1>4, <1>5, <1>6, FileCall, Zenon
<1>8. k.via = k.proxy BY <1>5, <1>6 DEF CallOf
<1>9. Dials(cfg, wrote, k) BY <1>5, <1>6, <1>7, <1>8 DEF Dials
<1> QED BY <1>5, <1>6, <1>9

LEMMA ConfigDials ==
  ASSUME Registered, NotScheduled
  PROVE  Registered' /\ Dials(cfg', wrote', call')
<1>1. cfg \in Configs BY DEF Registered
<1>2. Unscheduled.metadata.keys = << >> BY DEF Unscheduled, NoMetadata
<1>3. Sequence(Unscheduled.metadata.keys) BY <1>2, NoneIsSequence
<1>4. /\ Registered' /\ UNCHANGED << cfg, wrote, file, records >>
      /\ call'.from = "config"
      /\ CallOf(members(cfg, Unscheduled), endpointForRequest(cfg, Unscheduled), call')
  BY <1>3, CallMade DEF NotScheduled
<1>5. Pooled(members(cfg, Unscheduled)) BY <1>1, <1>3, RequestPooled
<1>6. PICK k : k = call' OBVIOUS
<1>7. k.key # "" /\ k.key \in KeysOf(members(cfg, Unscheduled)) \cup {"own header"}
  BY <1>4, <1>5, <1>6, CallKey
<1>8. k.via = k.proxy BY <1>4, <1>6 DEF CallOf
<1>9. Dials(cfg, wrote, k) BY <1>4, <1>6, <1>7, <1>8 DEF Dials
<1> QED BY <1>4, <1>6, <1>9

\* A call that has not been made keeps to everything.
LEMMA NoCallDials == \A c, w : Dials(c, w, NoCall)
BY DEF Dials, NoCall

LEMMA NoClients == Cached(<< >>)
BY ShortSequences DEF Cached

LEMMA DInit == Init => DInv
<1> SUFFICES ASSUME Init PROVE DInv OBVIOUS
<1>1. AInv BY AInit
<1>2. Registered BY NoClients DEF Init, Registered
<1>3. DialsOwn BY NoCallDials, DialsIs DEF Init
<1> QED BY <1>1, <1>2, <1>3 DEF DInv

LEMMA DStep == DInv /\ [Next]_vars => DInv'
<1> SUFFICES ASSUME DInv, [Next]_vars PROVE DInv' OBVIOUS
<1>0. /\ AInv /\ Registered /\ Dials(cfg, wrote, call)
      /\ cfg \in Configs /\ wrote \in Pools \cup ManagedAuthFiles(cfg)
      /\ file.key \in KeysOf(authKeyEntries(wrote)) \cup {wrote.key}
      /\ Cached(clients)
  BY DialsIs DEF DInv, Registered
<1>1. AInv' BY <1>0, AStep
<1>2. SUFFICES Registered' /\ Dials(cfg', wrote', call')
  <2>1. Dials(cfg', wrote', call') => DialsOwn'
    BY Zenon DEF DialsOwn, Dials, OfRecord, OfFile
  <2> QED BY <1>1, <2>1 DEF DInv
<1>3. CASE Load \/ (\E i \in DOMAIN records : Refresh(i)) \/ UNCHANGED vars
  <2>1. UNCHANGED << cfg, wrote, file, clients, call >>
    BY <1>3 DEF Load, Refresh, vars
  <2> QED BY <1>0, <2>1 DEF Registered
<1>4. ASSUME NEW i \in DOMAIN records, Save(i) PROVE Registered' /\ Dials(cfg', wrote', call')
  <2>1. UNCHANGED << cfg, wrote, clients, call >> /\ file' = records[i].metadata
    BY <1>4 DEF Save
  <2>2. i \in DOMAIN authKeyEntries(wrote) /\ OfEntry(wrote, records[i], i)
    BY <1>0, <1>4 DEF AInv, AllOfEntries
  <2>3. records[i].metadata.key = authKeyEntries(wrote)[i].key BY <2>2 DEF OfEntry
  <2>4. file'.key \in KeysOf(authKeyEntries(wrote))
    BY <1>0, <2>1, <2>2, <2>3, FilePool, KeyOfEntry
  <2> QED BY <1>0, <2>1, <2>4 DEF Registered
<1>5. ASSUME NEW i \in DOMAIN records, Scheduled(i)
      PROVE  Registered' /\ Dials(cfg', wrote', call')
  BY <1>0, <1>5, RecordDials
<1>6. ASSUME NEW f \in Pools, Edit(f) PROVE Registered' /\ Dials(cfg', wrote', call')
  <2>1. /\ wrote' = f /\ file' = f /\ call' = NoCall /\ cfg' = cfg /\ clients' = clients
    BY <1>6 DEF Edit
  <2> QED BY <1>0, <2>1, NoCallDials DEF Registered
<1>7. ASSUME NEW c \in Configs, Reconfigure(c)
      PROVE  Registered' /\ Dials(cfg', wrote', call')
  <2>1. cfg' = c /\ clients' = << >> /\ call' = NoCall BY <1>7 DEF Reconfigure
  <2>2. Cached(clients') /\ Dials(cfg', wrote', call') BY <2>1, NoClients, NoCallDials
  <2>3. CASE wrote.managed
    <3>1. wrote' \in ManagedAuthFiles(c) /\ file' = wrote' BY <1>7, <2>3 DEF Reconfigure
    <3> QED BY <2>1, <2>2, <3>1 DEF Registered
  <2>4. CASE ~wrote.managed
    <3>1. wrote' = wrote /\ file' = file BY <1>7, <2>4 DEF Reconfigure
    <3>2. wrote \in Pools BY <1>0, <2>4, ManagedHas
    <3> QED BY <1>0, <2>1, <2>2, <3>1, <3>2 DEF Registered
  <2> QED BY <2>3, <2>4
<1>8. ASSUME FileScheduled \/ NotScheduled PROVE Registered' /\ Dials(cfg', wrote', call')
  BY <1>0, <1>8, FileDials, ConfigDials
<1> QED BY <1>3, <1>4, <1>5, <1>6, <1>7, <1>8 DEF Next

\* For any files, pools, configurations and refused proxies: a call goes through the proxy
\* it was meant for although clients are cached by position and every scheduled record has
\* the first one; it has a key, and that of the record, the file or the configuration it
\* is made for, whatever saves and reconfigurations came before (config.go:306-355,
\* pool.go:181-201).
THEOREM DialsOwnAlways == Spec => []DialsOwn
<1>1. DInv => DialsOwn BY DEF DInv
<1> QED BY <1>1, DInit, DStep, PTL DEF Spec

-----------------------------------------------------------------------------
(* Sessions.                                                               *)

\* The types of the variables the argument reads.
Types ==
  /\ now \in Nat
  /\ keyState \in [Keys -> StateType]
  /\ pc \in [Procs -> {"idle", "post", "posted", "session"}]
  /\ key \in [Procs -> Keys \cup {NoKey}]
  /\ \A p \in Procs : pc[p] # "idle" => key[p] \in Keys
  /\ seen \in [Procs -> {Device, Nil}]
  /\ posted \subseteq Keys \X {Device, Nil}
  /\ robbed \subseteq Keys

\* A key state was made by stateForKey, and an initialisation in flight works on one
\* that still exists, as long as the key was not robbed.
StatesMade ==
  /\ \A k \in Keys \ robbed : keyState[k] # NoState => keyState[k].fingerprint = Device
  /\ \A p \in Procs : pc[p] \in {"post", "posted"} /\ key[p] \notin robbed =>
       keyState[key[p]] # NoState /\ seen[p] = Device

DeviceInv == Types /\ StatesMade /\ DeviceUnlessRobbed

-----------------------------------------------------------------------------
\* A state that was made is not the absent one.
LEMMA MadeIsState ==
  ASSUME NEW n \in Nat, NEW f \in {Device, Nil}
  PROVE  /\ [fingerprint |-> f, nextInitAt |-> n] \in StateType
         /\ [fingerprint |-> f, nextInitAt |-> n] # NoState
BY DEF StateType, NoState

\* The two fingerprints differ.
LEMMA DeviceIsNotNil == Device # Nil
BY DEF Device, Nil

\* Marking keeps the fingerprint, of an absent state too.
LEMMA MarkedState ==
  ASSUME NEW s \in StateType, NEW n \in Nat
  PROVE  /\ s.fingerprint \in {Device, Nil}
         /\ Marked(s, n) = [fingerprint |-> s.fingerprint, nextInitAt |-> n]
<1>1. s \in [fingerprint : {Device, Nil}, nextInitAt : Nat \cup {-1}]
  BY DEF StateType, NoState
<1> QED BY <1>1 DEF Marked

\* The invariant holds initially.
LEMMA InitDeviceInv == SessionInit => DeviceInv
<1> SUFFICES ASSUME SessionInit PROVE DeviceInv OBVIOUS
<1>1. NoState \in StateType BY DEF StateType
<1>2. Types BY <1>1 DEF SessionInit, Types
<1>3. StatesMade BY DEF SessionInit, StatesMade
<1>4. DeviceUnlessRobbed BY DEF SessionInit, DeviceUnlessRobbed
<1> QED BY <1>2, <1>3, <1>4 DEF DeviceInv

-----------------------------------------------------------------------------
(* The steps, one lemma each for the ones that write a key state.          *)

\* stateForKey hands out the state of the key, made if need be.
LEMMA StateForKeyKeeps ==
  ASSUME DeviceInv, NEW p \in Procs, NEW k \in Keys, stateForKey(p, k)
  PROVE  DeviceInv'
<1> USE DEF DeviceInv
<1>1. PICK state \in StateType :
        /\ state # NoState /\ state.fingerprint \in {Device, Nil}
        /\ k \notin robbed => state.fingerprint = Device
        /\ keyState' = [keyState EXCEPT ![k] = state]
        /\ seen' = [seen EXCEPT ![p] = state.fingerprint]
        /\ \/ pc' = [pc EXCEPT ![p] = "session"]
           \/ pc' = [pc EXCEPT ![p] = "post"]
  <2> DEFINE s == IF k \in HasState THEN keyState[k]
                  ELSE [fingerprint |-> Device, nextInitAt |-> 0]
  <2>1. /\ keyState' = [keyState EXCEPT ![k] = s]
        /\ seen' = [seen EXCEPT ![p] = s.fingerprint]
        /\ pc' = [pc EXCEPT ![p] = IF now < s.nextInitAt THEN "session" ELSE "post"]
    BY DEF stateForKey
  <2>2. /\ s \in StateType /\ s # NoState
        /\ k \notin robbed => s.fingerprint = Device
    <3>1. CASE k \in HasState BY <3>1 DEF HasState, StatesMade, Types
    <3>2. CASE k \notin HasState BY <3>2, MadeIsState
    <3> QED BY <3>1, <3>2
  <2>3. s.fingerprint \in {Device, Nil} BY <2>2, MarkedState
  <2> HIDE DEF s
  <2> QED BY <2>1, <2>2, <2>3
<1>2. /\ key' = [key EXCEPT ![p] = k]
      /\ UNCHANGED << now, posted, robbed >>
  BY DEF stateForKey
<1>3. Types' BY <1>1, <1>2 DEF Types
<1>4. StatesMade' BY <1>1, <1>2 DEF Types, StatesMade
<1>5. DeviceUnlessRobbed' BY <1>2 DEF DeviceUnlessRobbed
<1> QED BY <1>3, <1>4, <1>5

\* The posts carry the fingerprint the request holds.
LEMMA PostKeeps ==
  ASSUME DeviceInv, NEW p \in Procs, post(p)
  PROVE  DeviceInv'
<1> USE DEF DeviceInv
<1>1. /\ key[p] \in Keys /\ seen[p] \in {Device, Nil}
      /\ key[p] \notin robbed => seen[p] = Device
  BY DEF post, StatesMade, Types
<1>2. /\ posted' = posted \cup {<<key[p], seen[p]>>}
      /\ pc' = [pc EXCEPT ![p] = "posted"] /\ pc[p] = "post"
      /\ UNCHANGED << now, keyState, key, seen, robbed >>
  BY DEF post
<1>3. Types' BY <1>1, <1>2 DEF Types
<1>4. StatesMade' BY <1>2 DEF Types, StatesMade
<1>5. DeviceUnlessRobbed' BY <1>1, <1>2, DeviceIsNotNil DEF DeviceUnlessRobbed
<1> QED BY <1>3, <1>4, <1>5

\* markInitialized writes back what it finds, and it finds the state of a key that
\* was not robbed.
LEMMA MarkInitializedKeeps ==
  ASSUME DeviceInv, NEW p \in Procs, markInitialized(p)
  PROVE  DeviceInv'
<1> USE DEF DeviceInv
<1>1. PICK j \in 0 .. InitJitter - 1 :
        keyState' = [keyState EXCEPT ![key[p]] = Marked(@, now + InitMin + j)]
  BY DEF markInitialized
<1> DEFINE n == now + InitMin + j
           old == keyState[key[p]]
<1>2. /\ key[p] \in Keys /\ pc[p] = "posted" /\ n \in Nat
      /\ old \in StateType
      /\ key[p] \notin robbed => old # NoState /\ old.fingerprint = Device
  BY SessionAssumption DEF markInitialized, Types, StatesMade
<1>3. /\ old.fingerprint \in {Device, Nil}
      /\ Marked(old, n) = [fingerprint |-> old.fingerprint, nextInitAt |-> n]
  BY <1>2, MarkedState
<1>4. PICK state \in StateType :
        /\ state # NoState
        /\ key[p] \notin robbed => state.fingerprint = Device
        /\ keyState' = [keyState EXCEPT ![key[p]] = state]
  <2> DEFINE s == [fingerprint |-> old.fingerprint, nextInitAt |-> n]
  <2>1. keyState' = [keyState EXCEPT ![key[p]] = s] BY <1>1, <1>3
  <2>2. s \in StateType /\ s # NoState BY <1>2, <1>3, MadeIsState
  <2>3. key[p] \notin robbed => s.fingerprint = Device BY <1>2
  <2> HIDE DEF s
  <2> QED BY <2>1, <2>2, <2>3
<1> HIDE DEF n, old
<1>5. /\ pc' = [pc EXCEPT ![p] = "session"]
      /\ UNCHANGED << now, key, seen, posted, robbed >>
  BY DEF markInitialized
<1>6. Types' BY <1>2, <1>4, <1>5 DEF Types
<1>7. StatesMade' BY <1>2, <1>4, <1>5 DEF Types, StatesMade
<1>8. DeviceUnlessRobbed' BY <1>5 DEF DeviceUnlessRobbed
<1> QED BY <1>6, <1>7, <1>8

\* An eviction takes the states of keys: the ones in flight among them are robbed,
\* and nobody works on the others.
LEMMA EnsureSessionKeeps ==
  ASSUME DeviceInv, NEW p \in Procs, ensureSession(p)
  PROVE  DeviceInv'
<1> USE DEF DeviceInv
<1>1. /\ keyState' = [q \in Keys |-> IF q \in Evicted THEN NoState ELSE keyState[q]]
      /\ robbed' = robbed \cup (Evicted \cap InFlight)
      /\ pc' = [pc EXCEPT ![p] = "idle"]
      /\ key' = [key EXCEPT ![p] = NoKey]
      /\ seen' = [seen EXCEPT ![p] = Nil]
      /\ UNCHANGED << now, posted >>
  BY DEF ensureSession, Leave
<1>2. InFlight \subseteq Keys BY DEF InFlight, Types
<1>3. NoState \in StateType BY DEF StateType
<1>4. Types' BY <1>1, <1>2, <1>3 DEF Types
<1>5. StatesMade'
  <2>1. ASSUME NEW k \in Keys \ robbed', keyState'[k] # NoState
        PROVE  keyState'[k].fingerprint = Device
    BY <1>1, <2>1 DEF StatesMade
  <2>2. ASSUME NEW q \in Procs, pc'[q] \in {"post", "posted"}, key'[q] \notin robbed'
        PROVE  keyState'[key'[q]] # NoState /\ seen'[q] = Device
    <3>1. q # p BY <1>1, <2>2 DEF Types
    <3>2. pc'[q] = pc[q] /\ key'[q] = key[q] /\ seen'[q] = seen[q]
      BY <1>1, <3>1 DEF Types
    <3>3. key[q] \in InFlight /\ key[q] \in Keys
      BY <2>2, <3>2 DEF InFlight, Types
    <3>4. key[q] \notin robbed /\ key[q] \notin Evicted BY <1>1, <2>2, <3>2, <3>3
    <3>5. keyState'[key[q]] = keyState[key[q]] BY <1>1, <3>3, <3>4
    <3> QED BY <2>2, <3>2, <3>4, <3>5 DEF StatesMade
  <2> QED BY <2>1, <2>2 DEF StatesMade
<1>6. DeviceUnlessRobbed' BY <1>1 DEF DeviceUnlessRobbed
<1> QED BY <1>4, <1>5, <1>6

\* Every step keeps the invariant.
LEMMA NextDeviceInv == DeviceInv /\ [SessionNext]_sessionVars => DeviceInv'
<1> SUFFICES ASSUME DeviceInv, [SessionNext]_sessionVars PROVE DeviceInv' OBVIOUS
<1> USE DEF DeviceInv
<1>1. ASSUME NEW p \in Procs, leaveUnmarked(p) PROVE DeviceInv'
  BY <1>1 DEF leaveUnmarked, Types, StatesMade, DeviceUnlessRobbed
<1>2. ASSUME NEW p \in Procs, clientSession(p) PROVE DeviceInv'
  BY <1>2 DEF clientSession, Leave, Types, StatesMade, DeviceUnlessRobbed
<1>3. CASE tick BY <1>3 DEF tick, Types, StatesMade, DeviceUnlessRobbed
<1>4. CASE UNCHANGED sessionVars BY <1>4 DEF sessionVars, Types, StatesMade, DeviceUnlessRobbed
<1> QED
  BY <1>1, <1>2, <1>3, <1>4, StateForKeyKeeps, PostKeeps, MarkInitializedKeeps,
     EnsureSessionKeeps DEF SessionNext, Request

\* One API key always reports one device, for any number of keys and of concurrent
\* requests and any timing, unless an eviction takes its state during one of its own
\* initialisations (session.go:80-87, 117-157).
THEOREM OneDevicePerKey == SessionSpec => []DeviceUnlessRobbed
<1>1. DeviceInv => DeviceUnlessRobbed BY DEF DeviceInv
<1> QED BY <1>1, NextDeviceInv, InitDeviceInv, PTL DEF SessionSpec

-----------------------------------------------------------------------------
(* Sessions, and the marks of initialisations.                             *)

\* Sessions have their type and live as long as they should.
Sessions ==
  /\ sessions \in [Keys -> SessionType]
  /\ \A k \in HasSession : sessions[k].expiresAt - sessions[k].created
                             \in SessionMin .. SessionMin + SessionJitter

\* The mark of a key is bounded by the last initialisation of it that was not cancelled.
Marks ==
  /\ inited \in [Keys -> Nat \cup {-1}]
  /\ \A k \in Keys : keyState[k].nextInitAt > 0 =>
       inited[k] >= 0 /\ keyState[k].nextInitAt < inited[k] + InitMin + InitJitter

SessionInv == DeviceInv /\ Sessions /\ Marks

\* A session that is made has its type and its lifetime, and is not the absent one.
LEMMA NewSession ==
  ASSUME NEW n \in Nat, NEW j \in 0 .. SessionJitter - 1
  PROVE  LET s == [created |-> n, expiresAt |-> n + Lifetime(j)]
         IN /\ s \in SessionType /\ s # NoSession
            /\ s.created = n
            /\ s.expiresAt - s.created \in SessionMin .. SessionMin + SessionJitter
<1>1. /\ SessionMin \in Nat /\ SessionJitter \in Nat /\ j \in Nat /\ j <= SessionJitter
  BY SessionAssumption
<1>2. /\ Lifetime(j) \in Nat
      /\ Lifetime(j) >= SessionMin /\ Lifetime(j) <= SessionMin + SessionJitter
  BY <1>1 DEF Lifetime
<1>3. n + Lifetime(j) - n = Lifetime(j) BY <1>2
<1>4. n + Lifetime(j) \in Nat BY <1>2
<1> QED BY <1>1, <1>2, <1>3, <1>4 DEF SessionType, NoSession

\* What a request for a session does to the map: evicted sessions have expired, and the
\* session of its own key may be made anew once it is not live.
LEMMA EnsuredSessions ==
  ASSUME SessionInv, NEW p \in Procs, ensureSession(p), NEW k \in Keys
  PROVE  \/ sessions'[k] = sessions[k]
         \/ /\ sessions'[k] = NoSession
            /\ sessions[k] # NoSession /\ now >= sessions[k].expiresAt
         \/ /\ sessions[k] # NoSession => now >= sessions[k].expiresAt
            /\ \E j \in 0 .. SessionJitter - 1 :
                 sessions'[k] = [created |-> now, expiresAt |-> now + Lifetime(j)]
<1> DEFINE kept == [q \in Keys |-> IF q \in Evicted THEN NoSession ELSE sessions[q]]
<1>1. \/ sessions' = kept
      \/ /\ ~(kept[key[p]] # NoSession /\ Live(kept[key[p]]))
         /\ \E j \in 0 .. SessionJitter - 1 :
              sessions' = [kept EXCEPT ![key[p]] = [created |-> now, expiresAt |-> now + Lifetime(j)]]
  BY DEF ensureSession
<1>2. sessions[k] \in SessionType /\ now \in Nat
  BY DEF SessionInv, Sessions, DeviceInv, Types
<1>3. sessions[k] # NoSession => sessions[k].expiresAt \in Nat
  BY <1>2 DEF SessionType
<1>4. k \in Evicted => sessions[k] # NoSession /\ now >= sessions[k].expiresAt
  BY <1>2, <1>3 DEF Evicted, HasSession
<1>5. CASE sessions' = kept BY <1>4, <1>5
<1>6. ASSUME ~(kept[key[p]] # NoSession /\ Live(kept[key[p]])),
             NEW j \in 0 .. SessionJitter - 1,
             sessions' = [kept EXCEPT ![key[p]] = [created |-> now, expiresAt |-> now + Lifetime(j)]]
      PROVE  \/ sessions'[k] = sessions[k]
             \/ /\ sessions'[k] = NoSession
                /\ sessions[k] # NoSession /\ now >= sessions[k].expiresAt
             \/ /\ sessions[k] # NoSession => now >= sessions[k].expiresAt
                /\ sessions'[k] = [created |-> now, expiresAt |-> now + Lifetime(j)]
  <2>1. CASE k # key[p] BY <1>4, <1>6, <2>1
  <2>2. CASE k = key[p]
    <3>1. sessions'[k] = [created |-> now, expiresAt |-> now + Lifetime(j)]
      BY <1>6, <2>2
    <3>2. sessions[k] # NoSession => now >= sessions[k].expiresAt
      <4>1. CASE k \in Evicted BY <1>4, <4>1
      <4>2. CASE k \notin Evicted
        <5>1. kept[k] = sessions[k] BY <4>2
        <5>2. ~(sessions[k] # NoSession /\ now < sessions[k].expiresAt)
          BY <1>6, <2>2, <5>1 DEF Live
        <5> QED BY <5>2, <1>2, <1>3
      <4> QED BY <4>1, <4>2
    <3> QED BY <3>1, <3>2
  <2> QED BY <2>1, <2>2
<1> QED BY <1>1, <1>5, <1>6

\* A function on Keys is what its values say, for the map of sessions.
LEMMA SessionsAre ==
  ASSUME SessionInv, NEW p \in Procs, ensureSession(p)
  PROVE  Sessions'
<1>1. sessions' \in [Keys -> {sessions'[k] : k \in Keys}]
  BY DEF ensureSession
<1>2. ASSUME NEW k \in Keys
      PROVE  /\ sessions'[k] \in SessionType
             /\ sessions'[k] # NoSession =>
                  sessions'[k].expiresAt - sessions'[k].created
                    \in SessionMin .. SessionMin + SessionJitter
  <2>1. /\ sessions[k] \in SessionType /\ now \in Nat
        /\ sessions[k] # NoSession =>
             sessions[k].expiresAt - sessions[k].created
               \in SessionMin .. SessionMin + SessionJitter
    BY DEF SessionInv, Sessions, HasSession, DeviceInv, Types
  <2>2. CASE sessions'[k] = sessions[k] BY <2>1, <2>2
  <2>3. CASE sessions'[k] = NoSession BY <2>3 DEF SessionType
  <2>4. ASSUME NEW j \in 0 .. SessionJitter - 1,
               sessions'[k] = [created |-> now, expiresAt |-> now + Lifetime(j)]
        PROVE  /\ sessions'[k] \in SessionType
               /\ sessions'[k].expiresAt - sessions'[k].created
                    \in SessionMin .. SessionMin + SessionJitter
    BY <2>1, <2>4, NewSession
  <2> QED BY <2>2, <2>3, <2>4, EnsuredSessions
<1> QED BY <1>1, <1>2 DEF Sessions, HasSession

\* Marking puts the mark within reach of the initialisation.
LEMMA MarkInitializedMarks ==
  ASSUME SessionInv, NEW p \in Procs, markInitialized(p)
  PROVE  Marks'
<1>1. PICK j \in 0 .. InitJitter - 1 :
        keyState' = [keyState EXCEPT ![key[p]] = Marked(@, now + InitMin + j)]
  BY DEF markInitialized
<1>2. /\ key[p] \in Keys /\ now \in Nat /\ keyState \in [Keys -> StateType]
      /\ InitMin \in Nat /\ InitJitter \in Nat /\ j \in Nat /\ j < InitJitter
  BY SessionAssumption DEF markInitialized, SessionInv, DeviceInv, Types
<1>3. now + InitMin + j \in Nat BY <1>2
<1>4. keyState'[key[p]].nextInitAt = now + InitMin + j
  BY <1>1, <1>2, <1>3, MarkedState
<1>5. /\ inited' = [inited EXCEPT ![key[p]] = now]
      /\ inited \in [Keys -> Nat \cup {-1}]
  BY DEF markInitialized, SessionInv, Marks
<1>6. inited' \in [Keys -> Nat \cup {-1}] BY <1>2, <1>5
<1>7. ASSUME NEW k \in Keys, keyState'[k].nextInitAt > 0
      PROVE  inited'[k] >= 0 /\ keyState'[k].nextInitAt < inited'[k] + InitMin + InitJitter
  <2>1. CASE k = key[p] BY <1>2, <1>4, <1>5, <2>1
  <2>2. CASE k # key[p]
    <3>1. keyState'[k] = keyState[k] /\ inited'[k] = inited[k] BY <1>1, <1>2, <1>5, <2>2
    <3> QED BY <3>1, <1>7 DEF SessionInv, Marks
  <2> QED BY <2>1, <2>2
<1> QED BY <1>6, <1>7 DEF Marks

\* A state that was just made, or taken away, has no mark.
LEMMA OtherMarks ==
  ASSUME SessionInv, UNCHANGED inited,
         \A k \in Keys : keyState'[k] = keyState[k] \/ ~(keyState'[k].nextInitAt > 0)
  PROVE  Marks'
BY DEF SessionInv, Marks

\* Every step keeps the invariant.
LEMMA NextSessionInv == SessionInv /\ [SessionNext]_sessionVars => SessionInv'
<1> SUFFICES ASSUME SessionInv, [SessionNext]_sessionVars PROVE SessionInv' OBVIOUS
<1>1. DeviceInv' BY NextDeviceInv DEF SessionInv
<1>2. ASSUME UNCHANGED sessions PROVE Sessions'
  BY <1>2 DEF SessionInv, Sessions, HasSession
<1>3. ASSUME UNCHANGED << keyState, inited >> PROVE Marks'
  BY <1>3 DEF SessionInv, Marks
<1>4. ASSUME NEW p \in Procs, NEW k \in Keys, stateForKey(p, k) PROVE Sessions' /\ Marks'
  <2>1. UNCHANGED << sessions, inited >> BY <1>4 DEF stateForKey
  <2>2. ASSUME NEW q \in Keys
        PROVE  keyState'[q] = keyState[q] \/ ~(keyState'[q].nextInitAt > 0)
    BY <1>4 DEF stateForKey, SessionInv, DeviceInv, Types
  <2> QED BY <2>1, <2>2, <1>2, OtherMarks
<1>5. ASSUME NEW p \in Procs, ensureSession(p) PROVE Sessions' /\ Marks'
  <2>1. UNCHANGED inited BY <1>5 DEF ensureSession
  <2>2. ASSUME NEW q \in Keys
        PROVE  keyState'[q] = keyState[q] \/ ~(keyState'[q].nextInitAt > 0)
    BY <1>5 DEF ensureSession, NoState
  <2> QED BY <2>1, <2>2, <1>5, OtherMarks, SessionsAre
<1>6. ASSUME NEW p \in Procs, markInitialized(p) PROVE Sessions' /\ Marks'
  <2>1. UNCHANGED sessions BY <1>6 DEF markInitialized
  <2> QED BY <2>1, <1>2, <1>6, MarkInitializedMarks
<1>7. ASSUME NEW p \in Procs, post(p) \/ leaveUnmarked(p) \/ clientSession(p)
      PROVE  Sessions' /\ Marks'
  BY <1>2, <1>3, <1>7 DEF post, leaveUnmarked, clientSession
<1>8. CASE tick BY <1>1, <1>2, <1>3, <1>8 DEF tick, SessionInv
<1>9. CASE UNCHANGED sessionVars BY <1>1, <1>2, <1>3, <1>9 DEF sessionVars, SessionInv
<1> QED BY <1>1, <1>4, <1>5, <1>6, <1>7, <1>8, <1>9 DEF SessionNext, Request, SessionInv

LEMMA InitSessionInv == SessionInit => SessionInv
<1> SUFFICES ASSUME SessionInit PROVE SessionInv OBVIOUS
<1>1. Sessions BY DEF SessionInit, Sessions, SessionType, HasSession
<1>2. Marks BY DEF SessionInit, Marks, NoState
<1> QED BY <1>1, <1>2, InitDeviceInv DEF SessionInv

\* A session changes only once it has expired, for any cap, any number of keys and any
\* requests in the middle of whatever they do (session.go:80-115).
THEOREM SessionsSticky == SessionSpec => SessionSticky
<1>1. SessionInv /\ [SessionNext]_sessionVars =>
        [\A k \in Keys : sessions[k] # NoSession /\ sessions'[k] # sessions[k]
                           => now >= sessions[k].expiresAt]_sessionVars
  <2> SUFFICES ASSUME SessionInv, SessionNext, NEW k \in Keys,
                      sessions[k] # NoSession, sessions'[k] # sessions[k]
               PROVE  now >= sessions[k].expiresAt
    BY DEF sessionVars
  <2>1. PICK p \in Procs : ensureSession(p)
    BY DEF SessionNext, Request, tick, stateForKey, post, markInitialized, leaveUnmarked,
           clientSession
  <2> QED BY <2>1, EnsuredSessions
<1> QED BY <1>1, NextSessionInv, InitSessionInv, PTL DEF SessionSpec, SessionSticky

\* Whoever skips or ends an initialisation works with a key that was initialised
\* recently, by whichever request, and a cancelled initialisation never counts
\* (session.go:117-157).
THEOREM InitsFresh == SessionSpec => InitFresh
<1>1. SessionInv /\ SessionInv' /\ [SessionNext]_sessionVars =>
        [\A p \in Procs :
           pc[p] \in {"idle", "posted"} /\ pc'[p] = "session"
             /\ keyState'[key'[p]].nextInitAt > now =>
           inited'[key'[p]] >= 0 /\ now < inited'[key'[p]] + InitMin + InitJitter]_sessionVars
  <2> SUFFICES ASSUME SessionInv, SessionInv', NEW p \in Procs, pc'[p] = "session",
                      keyState'[key'[p]].nextInitAt > now
               PROVE  inited'[key'[p]] >= 0 /\ now < inited'[key'[p]] + InitMin + InitJitter
    BY DEF sessionVars
  <2> DEFINE k == key'[p]
             next == keyState'[k].nextInitAt
  <2>1. /\ k \in Keys /\ now \in Nat /\ keyState'[k] \in StateType
        /\ inited'[k] \in Nat \cup {-1}
    BY DEF SessionInv, Marks, DeviceInv, Types
  <2>2. next \in Nat \cup {-1} BY <2>1 DEF StateType, NoState
  <2>3. next > now => next > 0 BY <2>1, <2>2
  <2>4. next > 0 => inited'[k] >= 0 /\ next < inited'[k] + InitMin + InitJitter
    BY <2>1 DEF SessionInv, Marks
  <2>5. InitMin \in Nat /\ InitJitter \in Nat BY SessionAssumption
  <2> QED BY <2>1, <2>2, <2>3, <2>4, <2>5
<1> QED BY <1>1, NextSessionInv, InitSessionInv, PTL DEF SessionSpec, InitFresh

\* Every variable has its type, and a session lives 12 to 13 hours.
THEOREM TypeCorrect == SessionSpec => []TypeOK
<1>1. SessionInv => TypeOK BY DEF SessionInv, Sessions, Marks, DeviceInv, Types, TypeOK
<1> QED BY <1>1, NextSessionInv, InitSessionInv, PTL DEF SessionSpec

-----------------------------------------------------------------------------
(* Models.                                                                 *)

\* The two bodies of Distinct, for LeftFold.
NameOp(p, out, e) ==
  IF ~Named(e) \/ modelEntryName(e) \in p \cup {modelEntryName(o) : o \in ToSet(out)}
  THEN out ELSE Append(out, e)
IdOp(p, out, e) ==
  IF ~Named(e) \/ publicID(e) \in p \cup {publicID(o) : o \in ToSet(out)}
  THEN out ELSE Append(out, e)

ByName == INSTANCE LeftFold WITH Op <- NameOp
ById   == INSTANCE LeftFold WITH Op <- IdOp

LEMMA NameFold ==
  \A s, known : Distinct(modelEntryName, s, known) = ByName!Fold(known, << >>, s)
BY DEF Distinct, NameOp, ByName!Fold, ByName!FoldLeft, FoldLeft, ByName!MapThenFoldSet,
       MapThenFoldSet, Max, ByName!Max

LEMMA IdFold ==
  \A s, known : Distinct(publicID, s, known) = ById!Fold(known, << >>, s)
BY DEF Distinct, IdOp, ById!Fold, ById!FoldLeft, FoldLeft, ById!MapThenFoldSet,
       MapThenFoldSet, Max, ById!Max

-----------------------------------------------------------------------------
(* Sequences.                                                              *)

\* A list made of another, position by position.
LEMMA Mapped ==
  ASSUME NEW s, Sequence(s), NEW f, f = [i \in DOMAIN s |-> f[i]]
  PROVE  Sequence(f) /\ \A y \in ToSet(f) : \E i \in DOMAIN s : y = f[i]
<1>1. Len(s) \in Nat /\ DOMAIN s = 1..Len(s) BY Elements
<1>2. DOMAIN f = 1..Len(s) /\ f = [i \in 1..Len(s) |-> f[i]] BY <1>1
<1>3. \A i \in 1..Len(s) : f[i] \in ToSet(f) BY <1>2 DEF ToSet
<1>4. f \in Seq(ToSet(f)) BY <1>1, <1>2, <1>3, IsASeq
<1> QED BY <1>4 DEF Sequence, ToSet

LEMMA Concatenated ==
  ASSUME NEW s, NEW t, Sequence(s), Sequence(t)
  PROVE  Sequence(s \o t) /\ ToSet(s \o t) = ToSet(s) \cup ToSet(t)
<1> DEFINE S == ToSet(s) \cup ToSet(t)
<1>1. s \in Seq(ToSet(s)) /\ t \in Seq(ToSet(t)) BY DEF Sequence
<1>2. s \in Seq(S) /\ t \in Seq(S)
  BY <1>1
<1> HIDE DEF S
<1>3. s \o t \in Seq(S) BY <1>2
<1>4. ToSet(s \o t) \subseteq S /\ Sequence(s \o t) BY <1>3, ElementsOf
<1>5. Len(s) \in Nat /\ Len(t) \in Nat /\ DOMAIN s = 1..Len(s) /\ DOMAIN t = 1..Len(t)
      /\ DOMAIN (s \o t) = 1..(Len(s) + Len(t))
  BY <1>2
<1>6. \A i \in 1..Len(s) : i \in 1..(Len(s) + Len(t)) /\ (s \o t)[i] = s[i] BY <1>2, <1>5
<1>7. \A i \in 1..Len(t) : Len(s) + i \in 1..(Len(s) + Len(t)) /\ (s \o t)[Len(s) + i] = t[i]
  BY <1>2, <1>5
<1>8. ToSet(s) \subseteq ToSet(s \o t) BY <1>5, <1>6 DEF ToSet
<1>9. ToSet(t) \subseteq ToSet(s \o t) BY <1>5, <1>7 DEF ToSet
<1> QED BY <1>4, <1>8, <1>9 DEF S

LEMMA NoElements == Sequence(<< >>) /\ ToSet(<< >>) = {}
<1>1. << >> \in Seq({}) OBVIOUS
<1>2. ToSet(<< >>) \subseteq {} /\ Sequence(<< >>) BY <1>1, ElementsOf, Zenon
<1> QED BY <1>2

-----------------------------------------------------------------------------
(* Distinct.                                                               *)

Fresh(S, known) == {e \in S : Named(e) /\ modelEntryName(e) \notin known}

\* No two entries of a list have one name.
NamesApart(v) ==
  \A i, j \in DOMAIN v : modelEntryName(v[i]) = modelEntryName(v[j]) => i = j

LEMMA ApartAppended ==
  ASSUME NEW S, NEW v \in Seq(S), NEW e \in S, NamesApart(v),
         \A o \in ToSet(v) : modelEntryName(o) # modelEntryName(e)
  PROVE  NamesApart(Append(v, e))
<1> DEFINE n == Len(v)
           w == Append(v, e)
<1>1. /\ n \in Nat /\ DOMAIN v = 1..n /\ DOMAIN w = 1..(n + 1)
      /\ \A i \in 1..n : w[i] = v[i]
      /\ w[n + 1] = e
  OBVIOUS
<1>2. \A i \in 1..n : modelEntryName(v[i]) # modelEntryName(e) BY <1>1 DEF ToSet
<1> HIDE DEF n, w
<1>3. \A i \in 1..(n + 1) : i \in 1..n \/ i = n + 1 BY <1>1
<1> SUFFICES ASSUME NEW i \in DOMAIN w, NEW j \in DOMAIN w,
                    modelEntryName(w[i]) = modelEntryName(w[j])
             PROVE  i = j
  BY DEF NamesApart, w
<1> QED BY <1>1, <1>2, <1>3 DEF NamesApart

\* d has the named entries of S, one for each name that is not among known.
OneEach(d, S, known) ==
  /\ Sequence(d) /\ NamesApart(d) /\ ToSet(d) \subseteq Fresh(S, known)
  /\ \A e \in Fresh(S, known) : \E o \in ToSet(d) : modelEntryName(o) = modelEntryName(e)

LEMMA DistinctNames ==
  ASSUME NEW s, Sequence(s), NEW known
  PROVE  OneEach(Distinct(modelEntryName, s, known), ToSet(s), known)
<1> DEFINE S == Fresh(ToSet(s), known)
           n == Len(s)
           H == {v \in Seq(S) : NamesApart(v)}
           d == ByName!Fold(known, << >>, s)
<1>1. n \in Nat /\ DOMAIN s = 1..n /\ \A i \in 1..n : s[i] \in ToSet(s) BY Elements
<1> HIDE DEF n
<1>2. << >> \in H BY DEF NamesApart
<1>3. ASSUME NEW v \in H, NEW i \in 1..n
      PROVE  LET w == NameOp(known, v, s[i])
             IN /\ w \in H /\ ToSet(v) \subseteq ToSet(w)
                /\ s[i] \in S => \E o \in ToSet(w) : modelEntryName(o) = modelEntryName(s[i])
  <2>0. v \in Seq(S) /\ NamesApart(v) OBVIOUS
  <2>1. CASE ~Named(s[i]) \/ modelEntryName(s[i]) \in known \cup {modelEntryName(o) : o \in ToSet(v)}
    <3>1. NameOp(known, v, s[i]) = v BY <2>1 DEF NameOp
    <3>2. s[i] \in S => modelEntryName(s[i]) \in {modelEntryName(o) : o \in ToSet(v)}
      BY <2>1 DEF Fresh
    <3> HIDE DEF H, S
    <3> QED BY <3>1, <3>2
  <2>2. CASE ~(~Named(s[i]) \/ modelEntryName(s[i]) \in known \cup {modelEntryName(o) : o \in ToSet(v)})
    <3>1. s[i] \in S BY <1>1, <2>2 DEF Fresh
    <3>2. NameOp(known, v, s[i]) = Append(v, s[i]) BY <2>2, Zenon DEF NameOp
    <3>3. \A o \in ToSet(v) : modelEntryName(o) # modelEntryName(s[i]) BY <2>2
    <3> HIDE DEF S
    <3>4. NamesApart(Append(v, s[i])) BY <2>0, <3>1, <3>3, ApartAppended
    <3>5. Append(v, s[i]) \in Seq(S) /\ ToSet(Append(v, s[i])) = ToSet(v) \cup {s[i]}
      BY <2>0, <3>1, Gathered
    <3> QED BY <3>2, <3>4, <3>5
  <2> QED BY <2>1, <2>2
<1> HIDE DEF H, S
<1>4. \A v \in H : \A i \in 1..n : NameOp(known, v, s[i]) \in H BY <1>3
<1>5. d \in H BY <1>1, <1>2, <1>4, ByName!FoldKeeps
<1>6. ASSUME NEW e \in S PROVE \E o \in ToSet(d) : modelEntryName(o) = modelEntryName(e)
  <2> DEFINE G == {v \in H : \E o \in ToSet(v) : modelEntryName(o) = modelEntryName(e)}
  <2>1. PICK j \in 1..n : e = s[j] BY <1>1, Elements DEF S, Fresh
  <2>2. \A v \in G : \A i \in 1..n : NameOp(known, v, s[i]) \in G BY <1>3
  <2>3. \A v \in H : NameOp(known, v, s[j]) \in G BY <1>3, <2>1
  <2>4. G \subseteq H OBVIOUS
  <2> HIDE DEF G, d
  <2>5. ByName!Fold(known, << >>, s) \in G
    BY <1>1, <1>2, <1>4, <2>2, <2>3, <2>4, ByName!FoldReaches
  <2> QED BY <2>5 DEF G, d
<1> HIDE DEF d
<1>7. d \in Seq(S) /\ NamesApart(d) BY <1>5 DEF H
<1>8. ToSet(d) \subseteq S /\ Sequence(d) BY <1>7, ElementsOf
<1>9. d = Distinct(modelEntryName, s, known) BY NameFold DEF d
<1> QED BY <1>6, <1>7, <1>8, <1>9 DEF S, OneEach

\* The same for a list of public IDs.
LEMMA DistinctIDs ==
  ASSUME NEW s, Sequence(s)
  PROVE  LET d == Distinct(publicID, s, {})
         IN /\ ToSet(d) \subseteq {e \in ToSet(s) : Named(e)}
            /\ \A e \in ToSet(s) :
                 Named(e) => \E o \in ToSet(d) : publicID(o) = publicID(e)
<1> DEFINE S == {e \in ToSet(s) : Named(e)}
           n == Len(s)
           H == Seq(S)
           d == ById!Fold({}, << >>, s)
<1>1. n \in Nat /\ DOMAIN s = 1..n /\ \A i \in 1..n : s[i] \in ToSet(s) BY Elements
<1> HIDE DEF n
<1>2. << >> \in H OBVIOUS
<1>3. ASSUME NEW v \in H, NEW i \in 1..n
      PROVE  LET w == IdOp({}, v, s[i])
             IN /\ w \in H /\ ToSet(v) \subseteq ToSet(w)
                /\ s[i] \in S => \E o \in ToSet(w) : publicID(o) = publicID(s[i])
  <2>1. CASE ~Named(s[i]) \/ publicID(s[i]) \in {} \cup {publicID(o) : o \in ToSet(v)}
    <3>1. IdOp({}, v, s[i]) = v BY <2>1 DEF IdOp
    <3>2. s[i] \in S => publicID(s[i]) \in {publicID(o) : o \in ToSet(v)} BY <2>1
    <3> HIDE DEF H, S
    <3> QED BY <3>1, <3>2
  <2>2. CASE ~(~Named(s[i]) \/ publicID(s[i]) \in {} \cup {publicID(o) : o \in ToSet(v)})
    <3>1. s[i] \in S BY <1>1, <2>2
    <3>2. IdOp({}, v, s[i]) = Append(v, s[i]) BY <2>2, Zenon DEF IdOp
    <3> HIDE DEF S
    <3>3. Append(v, s[i]) \in Seq(S) /\ ToSet(Append(v, s[i])) = ToSet(v) \cup {s[i]}
      BY <3>1, Gathered
    <3> QED BY <3>2, <3>3
  <2> QED BY <2>1, <2>2
<1> HIDE DEF H, S
<1>4. \A v \in H : \A i \in 1..n : IdOp({}, v, s[i]) \in H BY <1>3
<1>5. d \in H BY <1>1, <1>2, <1>4, ById!FoldKeeps
<1>6. ASSUME NEW e \in S PROVE \E o \in ToSet(d) : publicID(o) = publicID(e)
  <2> DEFINE G == {v \in H : \E o \in ToSet(v) : publicID(o) = publicID(e)}
  <2>1. PICK j \in 1..n : e = s[j] BY <1>1, Elements DEF S
  <2>2. \A v \in G : \A i \in 1..n : IdOp({}, v, s[i]) \in G BY <1>3
  <2>3. \A v \in H : IdOp({}, v, s[j]) \in G BY <1>3, <2>1
  <2>4. G \subseteq H OBVIOUS
  <2> HIDE DEF G, d
  <2>5. ById!Fold({}, << >>, s) \in G
    BY <1>1, <1>2, <1>4, <2>2, <2>3, <2>4, ById!FoldReaches
  <2> QED BY <2>5 DEF G, d
<1> HIDE DEF d
<1>7. ToSet(d) \subseteq S BY <1>5, ElementsOf DEF H
<1>8. d = Distinct(publicID, s, {}) BY IdFold DEF d
<1> QED BY <1>6, <1>7, <1>8 DEF S

-----------------------------------------------------------------------------
(* Searching a list.                                                       *)

\* What a search from the end finds, if anything, has what was searched for.
LEMMA LastFound ==
  ASSUME NEW s, Sequence(s), NEW I, I \subseteq DOMAIN s, I # {}
  PROVE  Max(I) \in I
BY Elements, ByName!MaxIsMember DEF Max, ByName!Max

-----------------------------------------------------------------------------
(* What the lists are made of.                                             *)

\* A snapshot: one entry for each name, and each is an item the endpoint may list.
Snapshot(d) ==
  /\ Sequence(d) /\ NamesApart(d)
  /\ \A e \in ToSet(d) : \E l \in Listed : Named(l) /\ e = Item(l)

\* An item stands for what it was listed as.
LEMMA ItemSame ==
  ASSUME NEW l
  PROVE  /\ Item(l).alias = publicID(l) /\ Item(l).name = modelEntryName(l)
         /\ DOMAIN Item(l) = {"alias", "name"}
         /\ modelEntryName(Item(l)) = modelEntryName(l)
         /\ publicID(Item(l)) = publicID(l)
         /\ Named(Item(l)) <=> Named(l)
         /\ Named(l) => modelEntryName(l) # Missing /\ publicID(l) # Missing
BY DEF Item, Entry, publicID, modelEntryName, Named

LEMMA Parsed ==
  ASSUME NEW k \in Auths \cup {Worker}, NEW list \in Listings[k]
  PROVE  Snapshot(parseProviderModels(list))
<1> DEFINE items == [i \in DOMAIN list |-> Item(list[i])]
<1>1. Sequence(list) BY CatalogAssumption DEF IsList, Sequence
<1>2. Sequence(items) /\ \A y \in ToSet(items) : \E i \in DOMAIN list : y = items[i]
  BY <1>1, Mapped
<1>3. \A i \in DOMAIN list : list[i] \in Listed
  <2>1. \A i \in DOMAIN list : list[i] \in ToSet(list) BY <1>1, Elements
  <2> QED BY <2>1 DEF Listed
<1>4. \A y \in ToSet(items) : \E l \in Listed : y = Item(l) BY <1>2, <1>3
<1> HIDE DEF items
<1>5. PICK d : d = Distinct(modelEntryName, items, {}) OBVIOUS
<1>6. Sequence(d) /\ NamesApart(d) /\ ToSet(d) \subseteq Fresh(ToSet(items), {})
  BY <1>2, <1>5, DistinctNames, Zenon DEF OneEach
<1>7. \A e \in ToSet(d) : \E l \in Listed : Named(l) /\ e = Item(l)
  <2> SUFFICES ASSUME NEW e \in ToSet(d) PROVE \E l \in Listed : Named(l) /\ e = Item(l)
    OBVIOUS
  <2>1. e \in ToSet(items) /\ Named(e) BY <1>6 DEF Fresh
  <2>2. PICK l \in Listed : e = Item(l) BY <1>4, <2>1
  <2> QED BY <2>1, <2>2, ItemSame
<1>8. Snapshot(d) BY <1>6, <1>7 DEF Snapshot
<1> QED BY <1>5, <1>8 DEF parseProviderModels, items

\* The catalog has all the configured entries, and besides them only what has the name of
\* none.
LEMMA CatalogHas ==
  ASSUME Snapshot(dynamic)
  PROVE  /\ Sequence(catalogEntries)
         /\ ToSet(Configured) \subseteq ToSet(catalogEntries)
         /\ \A e \in ToSet(catalogEntries) :
              /\ Named(e)
              /\ e \in ToSet(Configured)
                 \/ /\ e \in ToSet(dynamic)
                    /\ \A c \in ToSet(Configured) : modelEntryName(c) # modelEntryName(e)
<1> DEFINE names == {modelEntryName(e) : e \in ToSet(Configured)}
<1>1. Sequence(Configured) /\ Sequence(dynamic)
  BY CatalogAssumption DEF IsList, Sequence, Snapshot
<1>2. \A e \in ToSet(Configured) : Named(e)
  BY CatalogAssumption DEF Named, modelEntryName
<1>3. PICK d : d = Distinct(modelEntryName, dynamic, names) OBVIOUS
<1>4. Sequence(d) /\ ToSet(d) \subseteq Fresh(ToSet(dynamic), names)
  BY <1>1, <1>3, DistinctNames, Zenon DEF OneEach
<1>5. catalogEntries = Configured \o d BY <1>3 DEF catalogEntries
<1>6. Sequence(Configured \o d) /\ ToSet(Configured \o d) = ToSet(Configured) \cup ToSet(d)
  BY <1>1, <1>4, Concatenated
<1>7. \A e \in ToSet(d) : /\ Named(e) /\ e \in ToSet(dynamic)
                          /\ \A c \in ToSet(Configured) : modelEntryName(c) # modelEntryName(e)
  BY <1>4 DEF Fresh
<1> QED BY <1>2, <1>5, <1>6, <1>7

\* The parts of catalogEntriesForAuth.
Mine(a) == Distinct(modelEntryName, authModelEntries(a), {})

SameName(e) == {i \in 1..Len(catalogEntries) : modelEntryName(catalogEntries[i]) = modelEntryName(e)}

WithCatalog(e) ==
  IF SameName(e) = {} THEN e ELSE Merged(catalogEntries[Max(SameName(e))], e)

LEMMA WithIs ==
  ASSUME Sequence(catalogEntries), NEW e
  PROVE  LET at == SelectLastInSeq(catalogEntries, LAMBDA c : modelEntryName(c) = modelEntryName(e))
         IN (IF at = 0 THEN e ELSE Merged(catalogEntries[at], e)) = WithCatalog(e)
<1>1. SameName(e) \subseteq DOMAIN catalogEntries BY Elements DEF SameName
<1>2. SameName(e) # {} => Max(SameName(e)) \in SameName(e) BY <1>1, LastFound
<1>3. 0 \notin SameName(e) BY <1>1, Elements
<1>4. SelectLastInSeq(catalogEntries, LAMBDA c : modelEntryName(c) = modelEntryName(e)) =
        IF SameName(e) # {} THEN Max(SameName(e)) ELSE 0
  BY Zenon DEF SelectLastInSeq, SameName
<1> QED BY <1>2, <1>3, <1>4, Zenon DEF WithCatalog

LEMMA ForAuthIs ==
  ASSUME Sequence(catalogEntries), NEW a
  PROVE  catalogEntriesForAuth(a) =
           IF Mine(a) = << >> THEN catalogEntries
           ELSE [i \in DOMAIN Mine(a) |-> WithCatalog(Mine(a)[i])] \o Rest(Mine(a))
<1>1. \A i \in DOMAIN Mine(a) :
        LET at == SelectLastInSeq(catalogEntries, LAMBDA c : modelEntryName(c) = modelEntryName(Mine(a)[i]))
        IN (IF at = 0 THEN Mine(a)[i] ELSE Merged(catalogEntries[at], Mine(a)[i])) = WithCatalog(Mine(a)[i])
  BY WithIs, Zenon
<1> QED BY <1>1, Zenon DEF catalogEntriesForAuth, Mine

\* A merged entry has the name of both, and the catalog's public ID unless only the other
\* has an alias.
LEMMA MergedHas ==
  ASSUME NEW c, NEW e, e.name # Missing, Named(c), modelEntryName(c) = modelEntryName(e)
  PROVE  /\ modelEntryName(Merged(c, e)) = modelEntryName(e)
         /\ c.alias # Missing \/ publicID(e) = publicID(c) => publicID(Merged(c, e)) = publicID(c)
<1>1. modelEntryName(e) = e.name BY DEF modelEntryName
<1>2. /\ Merged(c, e).alias = IF c.alias = Missing THEN e.alias ELSE c.alias
      /\ Merged(c, e).name = IF c.name = Missing THEN e.name ELSE c.name
  BY DEF Merged, Entry
<1>3. Merged(c, e).name = e.name
  BY <1>1, <1>2 DEF modelEntryName
<1>4. modelEntryName(Merged(c, e)) = e.name BY <1>3 DEF modelEntryName
<1> QED BY <1>1, <1>2, <1>4 DEF publicID

\* What an entry of an auth record becomes.
LEMMA WithHas ==
  ASSUME Snapshot(dynamic), NEW e, e.name # Missing
  PROVE  /\ ~(\E c \in ToSet(catalogEntries) : modelEntryName(c) = modelEntryName(e)) =>
              WithCatalog(e) = e
         /\ (\E c \in ToSet(catalogEntries) : modelEntryName(c) = modelEntryName(e)) =>
              \E c \in ToSet(catalogEntries) :
                modelEntryName(c) = modelEntryName(e) /\ WithCatalog(e) = Merged(c, e)
<1>1. Sequence(catalogEntries) BY CatalogHas
<1>2. SameName(e) \subseteq DOMAIN catalogEntries BY <1>1, Elements DEF SameName
<1>3. SameName(e) # {} => Max(SameName(e)) \in SameName(e) BY <1>1, <1>2, LastFound
<1>4. \A i \in SameName(e) : /\ catalogEntries[i] \in ToSet(catalogEntries)
                             /\ modelEntryName(catalogEntries[i]) = modelEntryName(e)
  BY <1>1, <1>2, Elements DEF SameName
<1>5. (\E c \in ToSet(catalogEntries) : modelEntryName(c) = modelEntryName(e)) => SameName(e) # {}
  BY <1>1, Elements DEF SameName
<1> QED BY <1>3, <1>4, <1>5, Zenon DEF WithCatalog

\* The entries of an auth record's own models.
LEMMA MineHas ==
  ASSUME NEW a \in Auths
  PROVE  /\ Sequence(Mine(a))
         /\ \A e \in ToSet(Mine(a)) :
              e.name # Missing /\ \E g \in ToSet(AuthModels[a]) :
                Named(g) /\ publicID(e) = publicID(g) /\ modelEntryName(e) = modelEntryName(g)
         /\ Mine(a) # << >> => \E g \in ToSet(AuthModels[a]) : Named(g)
<1>1. Sequence(AuthModels[a]) BY CatalogAssumption DEF IsList, Sequence
<1>2. PICK items : items = authModelEntries(a) OBVIOUS
<1>3. /\ DOMAIN items = DOMAIN AuthModels[a] /\ items = [i \in DOMAIN AuthModels[a] |-> items[i]]
      /\ \A i \in DOMAIN AuthModels[a] :
           items[i] = Entry(AuthModels[a][i].alias, modelEntryName(AuthModels[a][i]))
  BY <1>2, Zenon DEF authModelEntries
<1>4. Sequence(items) /\ \A y \in ToSet(items) : \E i \in DOMAIN AuthModels[a] : y = items[i]
  BY <1>1, <1>3, Mapped
<1>5. PICK d : d = Mine(a) OBVIOUS
<1>6. Sequence(d) /\ ToSet(d) \subseteq Fresh(ToSet(items), {})
  BY <1>2, <1>4, <1>5, DistinctNames, Zenon DEF Mine, OneEach
<1>7. ASSUME NEW e \in ToSet(d)
      PROVE  e.name # Missing /\ \E g \in ToSet(AuthModels[a]) :
               Named(g) /\ publicID(e) = publicID(g) /\ modelEntryName(e) = modelEntryName(g)
  <2>1. e \in ToSet(items) /\ Named(e) BY <1>6 DEF Fresh
  <2>2. PICK i \in DOMAIN AuthModels[a] : e = items[i] BY <1>4, <2>1
  <2>3. PICK g : g = AuthModels[a][i] OBVIOUS
  <2>4. g \in ToSet(AuthModels[a]) BY <1>1, <2>3, Elements
  <2>5. e.alias = g.alias /\ e.name = modelEntryName(g)
    <3>1. e = Entry(g.alias, modelEntryName(g)) BY <1>3, <2>2, <2>3, Zenon
    <3> QED BY <3>1 DEF Entry
  <2>6. Named(g) /\ e.name # Missing BY <2>1, <2>5 DEF Named, modelEntryName
  <2>7. publicID(e) = publicID(g) /\ modelEntryName(e) = modelEntryName(g)
    BY <2>5, <2>6 DEF publicID, modelEntryName
  <2> QED BY <2>4, <2>6, <2>7
<1>8. d # << >> => ToSet(d) # {}
  <2>1. Len(d) \in Nat /\ DOMAIN d = 1..Len(d) BY <1>6, Elements
  <2>2. d \in Seq(ToSet(d)) BY <1>6 DEF Sequence
  <2> QED BY <2>1, <2>2 DEF ToSet
<1> QED BY <1>5, <1>6, <1>7, <1>8

LEMMA ForAuthList ==
  ASSUME Snapshot(dynamic), NEW a \in Auths
  PROVE  Sequence(catalogEntriesForAuth(a))
<1>1. Sequence(catalogEntries) /\ \A e \in ToSet(catalogEntries) : Named(e) BY CatalogHas
<1>2. PICK mine : mine = Mine(a) OBVIOUS
<1>3. Sequence(mine) BY <1>2, MineHas
<1>4. CASE mine = << >>
  <2>1. catalogEntriesForAuth(a) = catalogEntries BY <1>1, <1>2, <1>4, ForAuthIs, Zenon
  <2> QED BY <1>1, <2>1
<1>5. CASE mine # << >>
  <2> DEFINE own == [i \in DOMAIN mine |-> WithCatalog(mine[i])]
  <2>1. PICK rest : rest = Rest(mine) OBVIOUS
  <2>2. Sequence(rest)
    <3>1. PICK known : known = {modelEntryName(e) : e \in ToSet(mine)} OBVIOUS
    <3>2. rest = Distinct(modelEntryName, catalogEntries, known) BY <2>1, <3>1 DEF Rest
    <3> QED BY <1>1, <3>2, DistinctNames, Zenon DEF OneEach
  <2>3. catalogEntriesForAuth(a) = own \o rest
    BY <1>1, <1>2, <1>5, <2>1, ForAuthIs, Zenon
  <2>4. Sequence(own) BY <1>3, Mapped
  <2> HIDE DEF own
  <2>5. Sequence(own \o rest) BY <2>2, <2>4, Concatenated
  <2> QED BY <2>3, <2>5
<1> QED BY <1>4, <1>5

\* How an entry is shown.
Shown(e) == [id |-> publicID(e), name |-> modelEntryName(e)]

LEMMA ModelsHave ==
  ASSUME NEW s, Sequence(s)
  PROVE  /\ \A m \in modelsWithEntries(s) : \E e \in ToSet(s) : m = Shown(e)
         /\ \A e \in ToSet(s) :
              Named(e) => \E m \in modelsWithEntries(s) : m.id = publicID(e)
<1>1. PICK d : d = Distinct(publicID, s, {}) OBVIOUS
<1>2. /\ ToSet(d) \subseteq {e \in ToSet(s) : Named(e)}
      /\ \A e \in ToSet(s) : Named(e) => \E o \in ToSet(d) : publicID(o) = publicID(e)
  BY <1>1, DistinctIDs, Zenon
<1>3. modelsWithEntries(s) = {Shown(e) : e \in ToSet(d)}
  BY <1>1, Zenon DEF modelsWithEntries, Shown
<1>4. \A e : Shown(e).id = publicID(e) BY DEF Shown
<1> QED BY <1>2, <1>3, <1>4

-----------------------------------------------------------------------------
(* The invariant.                                                          *)

\* Whatever was fetched in between, the snapshot is well formed, and what is on offer was
\* made of entries.
CInv ==
  /\ Snapshot(dynamic)
  /\ asking \subseteq Auths
  /\ DOMAIN offered = Auths
  /\ \A a \in Auths : \A m \in offered[a] : \E e : m = Shown(e)

LEMMA OfferedShown ==
  ASSUME Snapshot(dynamic), NEW a \in Auths
  PROVE  \A m \in modelsWithEntries(catalogEntriesForAuth(a)) : \E e : m = Shown(e)
BY ForAuthList, ModelsHave

LEMMA CInit == CatalogInit => CInv
<1> SUFFICES ASSUME CatalogInit PROVE CInv OBVIOUS
<1>1. Snapshot(dynamic) BY NoElements DEF CatalogInit, Snapshot, NamesApart
<1> QED BY <1>1 DEF CatalogInit, CInv

LEMMA StoreKeeps ==
  ASSUME Snapshot(dynamic), NEW k \in Auths \cup {Worker}, store(k)
  PROVE  Snapshot(dynamic')
<1>1. \/ dynamic' = dynamic
      \/ \E list \in Listings[k] : dynamic' = parseProviderModels(list)
  BY Zenon DEF store
<1> QED BY <1>1, Parsed

LEMMA CStep == CInv /\ [CatalogNext]_catalogVars => CInv'
<1> SUFFICES ASSUME CInv, [CatalogNext]_catalogVars PROVE CInv' OBVIOUS
<1> USE DEF CInv
<1>1. CASE UNCHANGED catalogVars BY <1>1 DEF catalogVars
<1>2. CASE refreshHTTP
  <2>1. Snapshot(dynamic') BY <1>2, StoreKeeps DEF refreshHTTP
  <2> QED BY <1>2, <2>1 DEF refreshHTTP
<1>3. ASSUME NEW a \in Auths, refreshWithHostClient(a) PROVE CInv'
  <2>1. Snapshot(dynamic') BY <1>3, StoreKeeps DEF refreshWithHostClient
  <2> QED BY <1>3, <2>1 DEF refreshWithHostClient
<1>4. ASSUME NEW a \in Auths, ModelsForAuth(a) PROVE CInv'
  <2>1. PICK ms : ms = modelsWithEntries(catalogEntriesForAuth(a)) OBVIOUS
  <2>2. \A m \in ms : \E e : m = Shown(e) BY <2>1, OfferedShown
  <2>3. /\ dynamic' = dynamic /\ asking' \subseteq asking
        /\ offered' = [offered EXCEPT ![a] = ms]
    BY <1>4, <2>1 DEF ModelsForAuth
  <2> QED BY <2>2, <2>3
<1> QED BY <1>1, <1>2, <1>3, <1>4 DEF CatalogNext

LEMMA CAlways == CatalogSpec => []CInv
BY CInit, CStep, PTL DEF CatalogSpec

\* A snapshot has as many names as entries.
LEMMA NamesCounted ==
  ASSUME NEW d, Snapshot(d)
  PROVE  Cardinality({e.name : e \in ToSet(d)}) = Len(d)
<1> DEFINE n == Len(d)
           N == {e.name : e \in ToSet(d)}
           f == [i \in 1..n |-> d[i].name]
<1>1. /\ n \in Nat /\ DOMAIN d = 1..n
      /\ \A i \in 1..n : d[i] \in ToSet(d)
      /\ \A e \in ToSet(d) : \E i \in 1..n : e = d[i]
  BY Elements DEF Snapshot
<1>2. \A e \in ToSet(d) : modelEntryName(e) = e.name
  <2> SUFFICES ASSUME NEW e \in ToSet(d) PROVE modelEntryName(e) = e.name OBVIOUS
  <2>1. PICK l \in Listed : Named(l) /\ e = Item(l) BY DEF Snapshot
  <2> QED BY <2>1, ItemSame
<1>3. \A i, j \in 1..n : d[i].name = d[j].name => i = j
  BY <1>1, <1>2 DEF Snapshot, NamesApart
<1> HIDE DEF n
<1>4. f \in Bijection(1..n, N)
  <2>1. f \in [1..n -> N] BY <1>1
  <2>2. \A i, j \in 1..n : f[i] = f[j] => i = j BY <1>3
  <2>3. \A y \in N : \E i \in 1..n : f[i] = y BY <1>1
  <2>4. DOMAIN f = 1..n OBVIOUS
  <2> HIDE DEF f, N
  <2> QED BY <2>1, <2>2, <2>3, <2>4 DEF Bijection, Injection, Surjection, IsInjective
<1>5. IsFiniteSet(1..n) /\ Cardinality(1..n) = n BY <1>1, FS_Interval
<1>6. ExistsBijection(1..n, N) BY <1>4 DEF ExistsBijection
<1> HIDE DEF N
<1>7. Cardinality(N) = n BY <1>5, <1>6, FS_Bijection
<1> QED BY <1>7 DEF n, N

\* For any listings: parseProviderModels leaves a snapshot of named entries, each with an
\* alias and no two with one name, and ModelsForAuth answers with models.
THEOREM CatalogTypeCorrect == CatalogSpec => []CatalogTypeOK
<1>1. CInv => CatalogTypeOK
  <2> SUFFICES ASSUME CInv PROVE CatalogTypeOK OBVIOUS
  <2>1. Snapshot(dynamic) /\ asking \subseteq Auths BY DEF CInv
  <2>2. ASSUME NEW e \in ToSet(dynamic)
        PROVE  IsModelEntry(e) /\ e.name # Missing /\ e.alias # Missing
    <3>1. PICK l \in Listed : Named(l) /\ e = Item(l) BY <2>1 DEF Snapshot
    <3>2. IsModelEntry(l)
      <4>1. \E k \in Auths \cup {Worker} : \E list \in Listings[k] : l \in ToSet(list)
        BY DEF Listed
      <4> QED BY <4>1, CatalogAssumption DEF IsList
    <3>3. /\ e.alias = publicID(l) /\ e.name = modelEntryName(l)
          /\ DOMAIN e = {"alias", "name"}
          /\ modelEntryName(l) # Missing /\ publicID(l) # Missing
      BY <3>1, ItemSame
    <3>4. publicID(l) \in {l.alias, l.name} /\ modelEntryName(l) \in {l.alias, l.name}
      BY DEF publicID, modelEntryName
    <3> QED BY <3>2, <3>3, <3>4 DEF IsModelEntry
  <2>3. Cardinality({e.name : e \in ToSet(dynamic)}) = Len(dynamic) BY <2>1, NamesCounted
  <2>4. \A a \in Auths : \A m \in offered[a] : DOMAIN m = {"id", "name"} BY DEF CInv, Shown
  <2> QED BY <2>1, <2>2, <2>3, <2>4 DEF CatalogTypeOK
<1> QED BY <1>1, CAlways, PTL

-----------------------------------------------------------------------------
(* Advertising.                                                            *)

\* The configured entry of a name is the only one in the catalog, if no two have one name.
LEMMA OnlyOne ==
  ASSUME Snapshot(dynamic), NamesApart(Configured),
         NEW c \in ToSet(Configured), NEW d \in ToSet(catalogEntries),
         modelEntryName(d) = modelEntryName(c)
  PROVE  d = c
<1>1. Sequence(Configured) BY CatalogAssumption DEF IsList, Sequence
<1>2. d \in ToSet(Configured) BY CatalogHas
<1>3. PICK i \in DOMAIN Configured, j \in DOMAIN Configured : c = Configured[i] /\ d = Configured[j]
  BY <1>1, <1>2, Elements
<1> QED BY <1>3 DEF NamesApart

LEMMA Advertised ==
  ASSUME Snapshot(dynamic), NEW a \in Auths, OwnModelsApart(a), NEW c \in ToSet(Configured)
  PROVE  \E m \in modelsWithEntries(catalogEntriesForAuth(a)) : m.id = publicID(c)
<1>1. PICK s : s = catalogEntriesForAuth(a) OBVIOUS
<1>2. Sequence(s) BY <1>1, ForAuthList
<1>3. SUFFICES \E y \in ToSet(s) : Named(y) /\ publicID(y) = publicID(c)
  BY <1>1, <1>2, ModelsHave
<1>4. /\ Sequence(catalogEntries) /\ c \in ToSet(catalogEntries)
      /\ \A e \in ToSet(catalogEntries) : Named(e)
  BY CatalogHas
<1>5. PICK mine : mine = Mine(a) OBVIOUS
<1>6. CASE mine = << >>
  <2>1. s = catalogEntries BY <1>1, <1>4, <1>5, <1>6, ForAuthIs, Zenon
  <2> QED BY <1>4, <2>1
<1>7. CASE mine # << >>
  <2> DEFINE own == [i \in DOMAIN mine |-> WithCatalog(mine[i])]
  <2>1. PICK rest, known : rest = Rest(mine) /\ known = {modelEntryName(e) : e \in ToSet(mine)}
    OBVIOUS
  <2>2. rest = Distinct(modelEntryName, catalogEntries, known) BY <2>1 DEF Rest
  <2>3. /\ Sequence(rest) /\ ToSet(rest) \subseteq Fresh(ToSet(catalogEntries), known)
        /\ \A e \in Fresh(ToSet(catalogEntries), known) :
             \E o \in ToSet(rest) : modelEntryName(o) = modelEntryName(e)
    <3>1. OneEach(rest, ToSet(catalogEntries), known) BY <1>4, <2>2, DistinctNames, Zenon
    <3> QED BY <3>1 DEF OneEach
  <2>4. Sequence(mine) BY <1>5, MineHas
  <2>5. Sequence(own) /\ \A i \in DOMAIN mine : own[i] \in ToSet(own)
    <3>1. Sequence(own) BY <2>4, Mapped
    <3> QED BY <3>1, Elements
  <2>6. s = own \o rest BY <1>1, <1>4, <1>5, <1>7, <2>1, ForAuthIs, Zenon
  <2>7. \A i \in DOMAIN mine : own[i] = WithCatalog(mine[i]) OBVIOUS
  <2> HIDE DEF own
  <2>8. ToSet(s) = ToSet(own) \cup ToSet(rest) BY <2>3, <2>5, <2>6, Concatenated
  <2>9. NamesApart(Configured)
    <3>1. \E g \in ToSet(AuthModels[a]) : Named(g) BY <1>5, <1>7, MineHas
    <3> QED BY <3>1 DEF OwnModelsApart, NamesApart
  <2>10. CASE \E e \in ToSet(mine) : modelEntryName(e) = modelEntryName(c)
    <3>1. PICK i \in DOMAIN mine : modelEntryName(mine[i]) = modelEntryName(c)
      BY <2>4, <2>10, Elements
    <3>2. PICK e : e = mine[i] OBVIOUS
    <3>3. e \in ToSet(mine) BY <2>4, <3>2, Elements
    <3>4. e.name # Missing BY <1>5, <3>3, MineHas
    <3>5. PICK g \in ToSet(AuthModels[a]) :
            Named(g) /\ publicID(e) = publicID(g) /\ modelEntryName(e) = modelEntryName(g)
      BY <1>5, <3>3, MineHas
    <3>6. PICK d \in ToSet(catalogEntries) :
            modelEntryName(d) = modelEntryName(e) /\ WithCatalog(e) = Merged(d, e)
      BY <1>4, <3>1, <3>2, <3>4, WithHas
    <3>7. d = c BY <2>9, <3>1, <3>2, <3>6, OnlyOne
    <3>8. c.alias # Missing \/ publicID(e) = publicID(c)
      BY <3>1, <3>2, <3>5 DEF OwnModelsApart
    <3>9. publicID(Merged(c, e)) = publicID(c) /\ Named(Merged(c, e))
      <4>1. /\ modelEntryName(Merged(c, e)) = modelEntryName(e)
            /\ publicID(Merged(c, e)) = publicID(c)
        BY <1>4, <3>4, <3>6, <3>7, <3>8, MergedHas
      <4> QED BY <1>4, <3>1, <3>2, <4>1 DEF Named
    <3>10. Merged(c, e) \in ToSet(s) BY <2>5, <2>7, <2>8, <3>2, <3>6, <3>7
    <3> QED BY <3>9, <3>10
  <2>11. CASE ~(\E e \in ToSet(mine) : modelEntryName(e) = modelEntryName(c))
    <3>1. c \in Fresh(ToSet(catalogEntries), known) BY <1>4, <2>1, <2>11 DEF Fresh
    <3>2. PICK o \in ToSet(rest) : modelEntryName(o) = modelEntryName(c) BY <2>3, <3>1
    <3>3. o \in ToSet(catalogEntries) BY <2>3, <3>2 DEF Fresh
    <3>4. o = c BY <2>9, <3>2, <3>3, OnlyOne
    <3> QED BY <1>4, <2>8, <3>2, <3>4
  <2> QED BY <2>10, <2>11
<1> QED BY <1>6, <1>7

\* ModelsForAuth's answer to an auth record has every configured model under its alias, or
\* its name, whatever the endpoint lists; for a record with models of its own, if they and
\* the configured ones are apart (README.md:48-49, models.go:356-391).
THEOREM ConfiguredAdvertisedAlways ==
  ASSUME \A a \in Auths : OwnModelsApart(a)
  PROVE  CatalogSpec => []ConfiguredAdvertised
<1>1. CatalogInit => ConfiguredAdvertised BY DEF CatalogInit, ConfiguredAdvertised
<1>2. CInv /\ ConfiguredAdvertised /\ [CatalogNext]_catalogVars => ConfiguredAdvertised'
  <2> SUFFICES ASSUME CInv, ConfiguredAdvertised, [CatalogNext]_catalogVars PROVE ConfiguredAdvertised'
    OBVIOUS
  <2>1. CASE offered' = offered BY <2>1 DEF ConfiguredAdvertised
  <2>2. ASSUME NEW a \in Auths, ModelsForAuth(a) PROVE ConfiguredAdvertised'
    <3>1. PICK ms : ms = modelsWithEntries(catalogEntriesForAuth(a)) OBVIOUS
    <3>2. \A c \in ToSet(Configured) : publicID(c) \in {m.id : m \in ms}
      BY <3>1, Advertised DEF CInv
    <3>3. offered' = [offered EXCEPT ![a] = ms] BY <2>2, <3>1 DEF ModelsForAuth
    <3> QED BY <3>2, <3>3 DEF ConfiguredAdvertised, CInv
  <2> QED
    BY <2>1, <2>2 DEF CatalogNext, catalogVars, refreshHTTP, refreshWithHostClient
<1> QED BY <1>1, <1>2, CAlways, PTL DEF CatalogSpec

=============================================================================
