---------------------------- MODULE ModelCatalog ----------------------------
(***************************************************************************)
(* The model catalog (models.go), the router (router.go) and the rewriting *)
(* of a requested model to the name the upstream knows (config.go,         *)
(* translator.go, Executor.openAIRequest).                                 *)
(*                                                                         *)
(* One snapshot of the provider's model endpoint is shared by the plugin:  *)
(* the refresh worker and the discovery for every auth record overwrite it *)
(* with what the endpoint lists for their own key.  The lists advertised   *)
(* to the host are computed from it, later requests are routed with it.    *)
(* use_provider_models is on, and every fetch has a key.                   *)
(*                                                                         *)
(* A model name is <<namespace, base>>; case and spaces are not modelled,  *)
(* and neither is the suffix in parentheses that normalizeModel drops.     *)
(***************************************************************************)
EXTENDS SequencesExt

CONSTANTS
  Auths,        \* auth records of the host
  Configured,   \* pluginConfig.effectiveModels: a sequence of entries
  AuthModels,   \* for each auth record, the "models" of its metadata
  Listings,     \* for each key (auth records and Worker), what the endpoint may list
  Worker        \* the refresh worker, with the configured key

VARIABLES
  dynamic,   \* ModelProvider.dynamic
  asking,    \* auth records whose discovery is over and whose answer is due
  offered    \* the last list the host was given for each auth record

catalogVars == << dynamic, asking, offered >>

-----------------------------------------------------------------------------
Missing == << "", "" >>

\* ModelEntry, reduced to what routing looks at.
Entry(alias, name) == [alias |-> alias, name |-> name]

\* The entries of a list that are well formed.
IsModelEntry(e) == DOMAIN e = {"alias", "name"} /\ Len(e.alias) = 2 /\ Len(e.name) = 2

IsList(l) == l \in Seq(ToSet(l)) /\ \A e \in ToSet(l) : IsModelEntry(e)

ASSUME CatalogAssumption ==
  /\ Worker \notin Auths
  /\ IsList(Configured)
  /\ \A e \in ToSet(Configured) : e.name # Missing \/ e.alias # Missing
  /\ \A a \in Auths : IsList(AuthModels[a])
  /\ \A k \in Auths \cup {Worker} : \A l \in Listings[k] : IsList(l)

\* normalizeModel drops everything up to the last slash.
normalizeModel(m) == m[2]

\* modelEntryName, and modelEntryKey with it.
modelEntryName(e) == IF e.name = Missing THEN e.alias ELSE e.name

publicID(e) == IF e.alias = Missing THEN modelEntryName(e) ELSE e.alias

Named(e) == modelEntryName(e) # Missing

\* The named entries of s, without those whose Key was seen before in s or is in seen.
Distinct(Key(_), s, seen) ==
  FoldLeft(LAMBDA out, e :
             IF ~Named(e) \/ Key(e) \in seen \cup {Key(o) : o \in ToSet(out)}
             THEN out ELSE Append(out, e),
           << >>, s)

\* An item of the endpoint: one without an alias gets its name as alias.
Item(e) == Entry(publicID(e), modelEntryName(e))

\* Mutant: an item that is listed twice is kept twice.
ParseAll(list) == [i \in DOMAIN list |-> Item(list[i])]

parseProviderModels(list) ==
  Distinct(modelEntryName, [i \in DOMAIN list |-> Item(list[i])], {})

\* catalogEntries: the configured entries, then what the snapshot adds to them.
catalogEntries ==
  Configured \o Distinct(modelEntryName, dynamic, {modelEntryName(e) : e \in ToSet(Configured)})

\* mergeConfiguredModelEntry: the catalog's alias and name win.
Merged(configured, auth) ==
  Entry(IF configured.alias = Missing THEN auth.alias ELSE configured.alias,
        IF configured.name = Missing THEN auth.name ELSE configured.name)

\* authModelEntries: an item without a name is called by its alias, one with neither is
\* left to the loop that follows (Distinct), which skips it.
authModelEntries(a) ==
  [i \in DOMAIN AuthModels[a] |->
     Entry(AuthModels[a][i].alias, modelEntryName(AuthModels[a][i]))]

\* Mutant: the catalog is not appended to the models of the auth record.
RestForgotten(mine) == << >>

\* The catalog entries that the entries of the auth record do not stand for.
Rest(mine) ==
  Distinct(modelEntryName, catalogEntries, {modelEntryName(e) : e \in ToSet(mine)})

catalogEntriesForAuth(a) ==
  LET mine == Distinct(modelEntryName, authModelEntries(a), {})
      At(e) == SelectLastInSeq(catalogEntries, LAMBDA c : modelEntryName(c) = modelEntryName(e))
      With(e) == IF At(e) = 0 THEN e ELSE Merged(catalogEntries[At(e)], e)
  IN IF mine = << >> THEN catalogEntries
     ELSE [i \in DOMAIN mine |-> With(mine[i])] \o Rest(mine)

\* modelsWithEntries: one model per public ID, here with the name it stands for.
modelsWithEntries(entries) ==
  LET models == Distinct(publicID, entries, {})
  IN {[id |-> publicID(e), name |-> modelEntryName(e)] : e \in ToSet(models)}

-----------------------------------------------------------------------------
(* Routing.                                                                *)

\* buildIndexes and upstreamName: the last configured entry with that alias or name.
upstreamName(m) ==
  LET Rewrites(e) == e.name # Missing
                     /\ normalizeModel(m) \in {normalizeModel(e.alias), normalizeModel(e.name)}
      i == SelectLastInSeq(Configured, Rewrites)
  IN IF i = 0 THEN Missing ELSE Configured[i].name

\* Mutant: the alias of an item is not compared.
CalledByName(e, m) == normalizeModel(modelEntryName(e)) = normalizeModel(m)

\* An exact match is also a match without namespaces.
Called(e, m) == normalizeModel(m) \in {normalizeModel(e.alias), normalizeModel(modelEntryName(e))}

upstreamModelFromMetadata(m, a) ==
  LET i == SelectInSeq(AuthModels[a], LAMBDA e : Named(e) /\ Called(e, m))
  IN IF i = 0 THEN Missing ELSE modelEntryName(AuthModels[a][i])

\* openAIRequest: the model the upstream is asked for, "commandcode/" stripped from m.
openAIRequest(m, a) ==
  IF upstreamName(m) # Missing THEN upstreamName(m)
  ELSE IF upstreamModelFromMetadata(m, a) # Missing THEN upstreamModelFromMetadata(m, a)
  ELSE m

\* ModelProvider.publicModelName: the first catalog entry of that name or alias.
publicModelName(m) ==
  LET i == SelectInSeq(catalogEntries, LAMBDA e : Called(e, m))
  IN IF i = 0 THEN m ELSE publicID(catalogEntries[i])

\* Mutant: a pinned model is looked up like any other.
ownedUnpinned(pinned, m) == \E e \in ToSet(catalogEntries) : Called(e, m)

\* Router.owned; the names the configuration claims are in the catalog.
owned(pinned, m) == pinned \/ \E e \in ToSet(catalogEntries) : Called(e, m)

\* RouteModel, for a model with or without "commandcode/" in front.  With an auth record
\* in the host (and shared scheduling) the host's own routing handles a bare model.
RouteModel(pinned, m, hasAuth) ==
  CASE ~owned(pinned, m)             -> [target |-> "unhandled", model |-> m]
    [] owned(pinned, m) /\ ~hasAuth -> [target |-> "self", model |-> m]
    [] owned(pinned, m) /\ hasAuth  ->
         IF pinned THEN [target |-> "provider", model |-> publicModelName(m)]
         ELSE [target |-> "unhandled", model |-> m]

-----------------------------------------------------------------------------
CatalogInit ==
  /\ dynamic = << >>
  /\ asking = {}
  /\ offered = [a \in Auths |-> {}]

\* A fetch for key k ends: an answer that parses to something replaces the snapshot.
store(k) ==
  \/ \E list \in Listings[k] :
       dynamic' = IF parseProviderModels(list) = << >> THEN dynamic ELSE parseProviderModels(list)
  \/ UNCHANGED dynamic

refreshHTTP ==
  /\ store(Worker)
  /\ UNCHANGED << asking, offered >>

\* ModelsForAuth fetches with the key of the auth record ...
refreshWithHostClient(a) ==
  /\ a \notin asking
  /\ store(a)
  /\ asking' = asking \cup {a}
  /\ UNCHANGED offered

\* ... and answers from the snapshot of the moment.
ModelsForAuth(a) ==
  /\ a \in asking
  /\ offered' = [offered EXCEPT ![a] = modelsWithEntries(catalogEntriesForAuth(a))]
  /\ asking' = asking \ {a}
  /\ UNCHANGED dynamic

CatalogNext ==
  \/ refreshHTTP
  \/ \E a \in Auths : refreshWithHostClient(a) \/ ModelsForAuth(a)

CatalogSpec == CatalogInit /\ [][CatalogNext]_catalogVars

-----------------------------------------------------------------------------
(* What a catalog has to be like for its models to lead home, and to be on offer.  The  *)
(* code does not see to it: where names clash, requests go astray (config.go:178, 191). *)

\* What the endpoint may list, and all the entries of which a list for a may be made.
Listed == UNION {UNION {ToSet(l) : l \in Listings[k]} : k \in Auths \cup {Worker}}

Entries(a) == ToSet(Configured) \cup ToSet(AuthModels[a]) \cup Listed

\* Entries that a request may confuse stand for one model.
Unambiguous(a) ==
  \A e, f \in {g \in Entries(a) : Named(g)} :
    Called(f, publicID(e)) \/ Called(f, modelEntryName(e)) =>
      modelEntryName(f) = modelEntryName(e)

\* The endpoint has aliases for configured models only.
AliasesConfigured ==
  \A e \in Listed : \/ publicID(e) = modelEntryName(e)
                    \/ \E c \in ToSet(Configured) : modelEntryName(c) = modelEntryName(e)

\* For an auth record with models of its own no two configured entries have one name, and
\* the record has an alias for none of them that has none.
OwnModelsApart(a) ==
  \A e \in {g \in ToSet(AuthModels[a]) : Named(g)} :
    /\ \A i, j \in DOMAIN Configured :
         modelEntryName(Configured[i]) = modelEntryName(Configured[j]) => i = j
    /\ \A c \in ToSet(Configured) :
         modelEntryName(c) = modelEntryName(e) => c.alias # Missing \/ publicID(e) = publicID(c)

-----------------------------------------------------------------------------
(* Properties.                                                             *)

\* The snapshot holds named entries with an alias, one for each name.
CatalogTypeOK ==
  /\ \A e \in ToSet(dynamic) : IsModelEntry(e) /\ e.name # Missing /\ e.alias # Missing
  /\ Cardinality({e.name : e \in ToSet(dynamic)}) = Len(dynamic)
  /\ asking \subseteq Auths
  /\ \A a \in Auths : \A m \in offered[a] : DOMAIN m = {"id", "name"}

\* config.go:20: a "ModelEntry maps a client-facing alias to the vendor model name".
\* A request for a model that was offered for an auth record asks the upstream for the
\* name it was offered for (openAIRequest), whatever was fetched in between.
RoutesHome == \A a \in Auths : \A m \in offered[a] : openAIRequest(m.id, a) = m.name

\* The same for a request pinned with "commandcode/", by the ID or by the vendor's name,
\* which RouteModel first turns into a public name with the snapshot of the moment.
PinnedRoutesHome ==
  \A a \in Auths : \A m \in offered[a] : \A asked \in {m.id, m.name} :
    LET route == RouteModel(TRUE, asked, TRUE)
    IN route.target = "provider" /\ openAIRequest(route.model, a) = m.name

\* README.md:48-49: "Each configured model is advertised using its alias (or upstream name
\* when no alias is set)", whatever the endpoint lists, to auth records whose own models
\* are apart from the configured ones (OwnModelsApart).
ConfiguredAdvertised ==
  \A a \in Auths : offered[a] # {} =>
    \A e \in ToSet(Configured) : publicID(e) \in {m.id : m \in offered[a]}

=============================================================================
