--------------------------- MODULE ProviderSettings ---------------------------
(***************************************************************************)
(* The provider preferences of the library: the active model and the       *)
(* favorites, the story-memory provider, the Codex transport, the last     *)
(* Codex discovery and the endpoint profiles with the keys they refer to   *)
(* in the credential store (library.rs, catalog.rs, preferences.rs,        *)
(* endpoint_commands.rs), and the Codex connection check of the desktop    *)
(* runtime (provider_runtime.rs).                                          *)
(*                                                                         *)
(* Every preference is saved under a compare-and-swap revision, so a stale *)
(* save is refused and is no step here.  save_with_store holds the library *)
(* lock from its first read to its last deletion; the network reads of     *)
(* discoveries and checks hold no lock.                                    *)
(***************************************************************************)
EXTENDS Naturals, FiniteSets

CONSTANTS Profile,     \* endpoint profile ids
          ModelId,     \* model names, of Codex and of endpoints
          BuiltIn,     \* the model names the static catalog declares for Codex
          Lists,       \* sets of model names an author enters or a service lists
          Catalogs,    \* Codex discoveries: the traits of each listed model
          Wide,        \* the discoveries with a label over 256 bytes in 256 characters
          Trait,       \* reasoning levels
          Route,       \* base URLs
          Key,         \* credential targets
          Check,       \* concurrent connection checks
          ModelLimit,  \* MAX_ENDPOINT_MODEL_IDS
          ChangeLimit, \* bound: saves and discoveries
          FaultLimit   \* bound: failed writes, uncertain commits and crashes

VARIABLES db,       \* the app_preferences rows
          keys,     \* the credential store
          save,     \* the save_with_store that holds the library lock
          finds,    \* model-list reads of endpoints
          codex,    \* RuntimeState: checking, connection, app server
          checks,   \* connection checks
          spent     \* [changes, faults, unread: a saved profile was not read back]

vars == <<db, keys, save, finds, codex, checks, spent>>

None == "none"
NoKey == "no-key"

NoCatalog == [m \in {} |-> {}]

\* A profile without a key refers to none of the targets; an empty discovery has
\* no label.
ASSUME SettingsConstants == NoKey \notin Key /\ NoCatalog \notin Wide

NoProfile == [url |-> None]
Idle == [pc |-> "idle"]

\* A model key is a provider and a name; a selection adds a trait or None.
Keyed(p, mdl) == <<p, mdl>>
MockModel == Keyed("mock", "mock")
KeyOf(s) == Keyed(s.provider, s.model)

Init == /\ db = [active |-> [provider |-> "mock", model |-> "mock", trait |-> None], favorites |-> {},
                 memory |-> "codex", transport |-> "cli", codex |-> NoCatalog, discovered |-> FALSE,
                 profiles |-> [p \in Profile |-> NoProfile]]
        /\ keys = {}
        /\ save = Idle
        /\ finds = {}
        /\ codex = [checking |-> FALSE, connection |-> NoCatalog, connected |-> FALSE, server |-> FALSE]
        /\ checks = [c \in Check |-> Idle]
        /\ spent = [changes |-> 0, faults |-> 0, unread |-> FALSE]

Change == spent.changes < ChangeLimit /\ spent' = [spent EXCEPT !.changes = @ + 1]
MayFault == spent.faults < FaultLimit
Fault(bad) == spent' = IF bad THEN [spent EXCEPT !.faults = @ + 1] ELSE spent
Unlocked == save.pc = "idle"

-----------------------------------------------------------------------------
(* The catalog and its validators.                                         *)

Saved(d) == {p \in Profile : d.profiles[p] # NoProfile}
AllModelIds(p) == p.manual \cup p.cached

EndpointModels(d) == UNION {{Keyed(p, i) : i \in AllModelIds(d.profiles[p])} : p \in Saved(d)}
CodexModels(d) == {Keyed("codex", i) : i \in BuiltIn \cup DOMAIN d.codex}
Remembered(d) == {KeyOf(d.active)} \cup d.favorites

\* Mutant: a remembered endpoint model is dropped with its discovery row.
TombstonesCodexOnly(d) == {k \in Remembered(d) : k[1] = "codex"}
\* Remembered selections stay listed as unavailable rows.
Tombstones(d) == {k \in Remembered(d) : k[1] \in {"codex"} \cup Profile}

CatalogWithEndpointsAndCodex(d) == {MockModel} \cup CodexModels(d) \cup EndpointModels(d) \cup Tombstones(d)

DeclaredTraits(d, k) == IF k[1] # "codex" THEN {}
                        ELSE IF k[2] \in DOMAIN d.codex THEN d.codex[k[2]]
                        ELSE IF k[2] \in BuiltIn THEN Trait ELSE {}

ValidateSelection(d, s) == /\ KeyOf(s) \in CatalogWithEndpointsAndCodex(d)
                           /\ s.trait = None \/ s.trait \in DeclaredTraits(d, KeyOf(s))

FavoritesFound(d, favorites) == favorites \subseteq CatalogWithEndpointsAndCodex(d)

PreservingUnavailableActive(d, s) ==
    ValidateSelection(d, s) \/ (s.provider = "codex" /\ KeyOf(s) \in CatalogWithEndpointsAndCodex(d))

ValidateStoryMemoryProvider(d, p) == p \in {"codex", "mock"} \cup Saved(d)

ValidateProfile(p) == Cardinality(p.manual) + Cardinality(p.cached) <= ModelLimit

\* validate_catalog: labels have at most 256 bytes, where the discovery was
\* saved with at most 256 characters (CodexCatalog.validate).
LabelsFit(d) == d.codex \notin Wide

\* Mutant: the labels of the catalog are not measured.
ProviderStateUnmeasured(d) == /\ \A p \in Saved(d) : ValidateProfile(d.profiles[p])
                              /\ PreservingUnavailableActive(d, d.active) /\ FavoritesFound(d, d.favorites)
\* provider_state with read_model_settings and read_endpoint_profiles: the
\* profiles, the catalog built from them and the selections against it.
ProviderState(d) ==
    /\ \A p \in Saved(d) : ValidateProfile(d.profiles[p])
    /\ LabelsFit(d)
    /\ PreservingUnavailableActive(d, d.active)
    /\ FavoritesFound(d, d.favorites)

\* view_library over the stored rows: read_story_memory_settings too.
ReadProviderState(d) == ProviderState(d) /\ ValidateStoryMemoryProvider(d, d.memory)

-----------------------------------------------------------------------------
(* Preference saves.                                                       *)

Selections == [provider : {"mock"}, model : {"mock"}, trait : {None}]
              \cup [provider : {"codex"}, model : ModelId, trait : {None} \cup Trait]
              \cup [provider : Profile, model : ModelId, trait : {None}]

SaveModelSettings(active, favorites) ==
    /\ Unlocked /\ Change
    /\ ProviderState(db)
    /\ IF active = db.active THEN PreservingUnavailableActive(db, active) ELSE ValidateSelection(db, active)
    /\ FavoritesFound(db, favorites)
    /\ db' = [db EXCEPT !.active = active, !.favorites = favorites]
    /\ UNCHANGED <<keys, save, finds, codex, checks>>

SaveStoryMemoryProvider(p) ==
    /\ Unlocked /\ Change
    /\ ValidateStoryMemoryProvider(db, p)
    /\ db' = [db EXCEPT !.memory = p]
    /\ UNCHANGED <<keys, save, finds, codex, checks>>

SaveCodexTransport(t) ==
    /\ Unlocked /\ Change
    /\ db' = [db EXCEPT !.transport = t]
    /\ UNCHANGED <<keys, save, finds, codex, checks>>

-----------------------------------------------------------------------------
(* save_with_store: a key is written, the profiles are saved, the key that *)
(* is no longer referenced is deleted.  A crash may fall between any two.  *)

ConfigEquals(old, draft) == /\ old.url = draft.url /\ old.enabled = draft.enabled
                            /\ old.cred = draft.cred /\ old.manual = draft.manual

CachedAfter(old, draft) == IF old.url = draft.url /\ old.cred = draft.cred THEN old.cached ELSE {}

SavedProfile(d, p, draft) ==
    LET old == d.profiles[p]
    IN  IF old = NoProfile
        THEN [url |-> draft.url, enabled |-> draft.enabled, cred |-> draft.cred, manual |-> draft.manual,
              cached |-> {}, revision |-> 0, source |-> <<None, NoKey>>]
        ELSE IF ConfigEquals(old, draft) THEN old
        ELSE [old EXCEPT !.url = draft.url, !.enabled = draft.enabled, !.cred = draft.cred,
                         !.manual = draft.manual, !.cached = CachedAfter(old, draft), !.revision = @ + 1]

Referenced(d) == {d.profiles[p].cred : p \in Saved(d)} \ {NoKey}

\* The key change is "keep", "remove" or the fresh target of a new key.
BeginSave(p, url, enabled, manual, change) ==
    /\ Unlocked /\ Change
    /\ LET old == IF db.profiles[p] = NoProfile THEN NoKey ELSE db.profiles[p].cred
           cred == CASE change = "keep" -> old [] change = "remove" -> NoKey [] OTHER -> change
       IN  /\ change \notin keys
           /\ keys' = keys \cup ({change} \cap Key)
           /\ save' = [pc |-> "commit", profile |-> p, old |-> old,
                       new |-> IF change \in Key THEN change ELSE NoKey, saved |-> FALSE,
                       draft |-> [url |-> url, enabled |-> enabled, cred |-> cred, manual |-> manual]]
    /\ UNCHANGED <<db, finds, codex, checks>>

\* A failed commit leaves the rows alone; an uncertain one may have saved them.
\* The answer is an error too when the saved state cannot be read back.
CommitSave ==
    /\ save.pc = "commit"
    /\ LET next == [db EXCEPT !.profiles[save.profile] = SavedProfile(db, save.profile, save.draft)]
           valid == ValidateProfile(next.profiles[save.profile])
       IN  \E outcome \in {"saved"} \cup (IF MayFault THEN {"failed", "uncertain"} ELSE {}) :
             LET committed == valid /\ outcome # "failed"
                 ok == committed /\ outcome = "saved" /\ ProviderState(next)
             IN  /\ spent' = [spent EXCEPT !.faults = IF outcome = "saved" THEN @ ELSE @ + 1,
                                           !.unread = @ \/ (committed /\ ~ProviderState(next))]
                 /\ db' = IF committed THEN next ELSE db
                 /\ save' = [save EXCEPT !.pc = "cleanNew", !.saved = ok]
    /\ UNCHANGED <<keys, finds, codex, checks>>

\* Mutant: the new key of a save that answered with an error is deleted.
UnusedNewOnError == IF save.saved THEN {} ELSE {save.new}
\* The new key, unless the rows read after the save refer to it.
UnusedNew == {save.new} \ Referenced(db)

\* The rows may be unreadable after the save; a deletion may fail.
CleanNew ==
    /\ save.pc = "cleanNew"
    /\ \E bad \in {FALSE} \cup {MayFault} :
         /\ Fault(bad)
         /\ keys' = IF bad THEN keys ELSE keys \ UnusedNew
         /\ save' = IF bad \/ ~save.saved THEN Idle ELSE [save EXCEPT !.pc = "cleanOld"]
    /\ UNCHANGED <<db, finds, codex, checks>>

CleanOld ==
    /\ save.pc = "cleanOld"
    /\ \E bad \in {FALSE} \cup {MayFault} :
         /\ Fault(bad)
         /\ keys' = IF bad THEN keys ELSE keys \ ({save.old} \ Referenced(db))
         /\ save' = Idle
    /\ UNCHANGED <<db, finds, codex, checks>>

-----------------------------------------------------------------------------
(* Discovery of an endpoint's models.                                      *)

ReadApiKey(p) == p.cred = NoKey \/ p.cred \in keys

BeginDiscovery(p) ==
    /\ Unlocked /\ Change
    /\ p \in Saved(db) /\ db.profiles[p].enabled /\ ReadApiKey(db.profiles[p])
    /\ finds' = finds \cup {[profile |-> p, revision |-> db.profiles[p].revision,
                             source |-> <<db.profiles[p].url, db.profiles[p].cred>>]}
    /\ UNCHANGED <<db, keys, save, codex, checks>>

\* Mutant: a late answer replaces the cache of whatever the profile is by now.
RefreshesAlways(f) == f.profile \in Saved(db)
Refreshes(f) == f.profile \in Saved(db) /\ db.profiles[f.profile].revision = f.revision

\* The answer arrives and is saved if the profile is still the one asked.
RefreshEndpointModels(f, ids) ==
    /\ Unlocked
    /\ finds' = finds \ {f}
    /\ LET next == [db EXCEPT !.profiles[f.profile].cached = ids, !.profiles[f.profile].source = f.source]
       IN  db' = IF Refreshes(f) /\ ValidateProfile(next.profiles[f.profile]) THEN next ELSE db
    /\ UNCHANGED <<keys, save, codex, checks, spent>>

\* The author stops the search, or the endpoint does not answer.
CancelDiscovery(f) == /\ finds' = finds \ {f}
                      /\ UNCHANGED <<db, keys, save, codex, checks, spent>>

-----------------------------------------------------------------------------
(* The Codex connection check.                                             *)

CheckStep(c, r) == checks' = [checks EXCEPT ![c] = r]

\* check_codex_connection reads the provider state first.
StartCheck(c) == /\ Unlocked /\ Change /\ checks[c] = Idle
                 /\ ProviderState(db)
                 /\ CheckStep(c, [pc |-> "replace", transport |-> db.transport])
                 /\ UNCHANGED <<db, keys, save, finds, codex>>

ReplaceServer(c) == /\ checks[c].pc = "replace"
                    /\ codex' = [codex EXCEPT !.server = FALSE]
                    /\ CheckStep(c, [checks[c] EXCEPT !.pc = "begin"])
                    /\ UNCHANGED <<db, keys, save, finds, spent>>

BeginCodexCheck(c) ==
    /\ checks[c].pc = "begin"
    /\ IF codex.checking
       THEN CheckStep(c, Idle) /\ UNCHANGED codex
       ELSE /\ codex' = [codex EXCEPT !.checking = TRUE, !.connection = NoCatalog, !.connected = FALSE]
            /\ CheckStep(c, [checks[c] EXCEPT !.pc = "ask"])
    /\ UNCHANGED <<db, keys, save, finds, spent>>

EndCheck(c) == /\ codex' = [codex EXCEPT !.checking = FALSE, !.connection = NoCatalog, !.connected = FALSE]
               /\ CheckStep(c, Idle)

CheckInstalled(c, catalog) == /\ checks[c].pc = "ask"
                              /\ CheckStep(c, [pc |-> "persist", transport |-> checks[c].transport, catalog |-> catalog])
                              /\ UNCHANGED <<db, keys, save, finds, codex, spent>>

CheckFails(c) == /\ checks[c].pc = "ask"
                 /\ EndCheck(c)
                 /\ UNCHANGED <<db, keys, save, finds, spent>>

\* Mutant: a catalog that could not be saved is published all the same.
AfterPersistAlways(c, ok) == CheckStep(c, [checks[c] EXCEPT !.pc = "publish"]) /\ UNCHANGED codex
AfterPersist(c, ok) == IF ok THEN CheckStep(c, [checks[c] EXCEPT !.pc = "publish"]) /\ UNCHANGED codex ELSE EndCheck(c)

PersistCatalog(c) ==
    /\ checks[c].pc = "persist" /\ Unlocked
    /\ \E outcome \in {"saved"} \cup (IF MayFault THEN {"failed", "uncertain"} ELSE {}) :
         /\ Fault(outcome # "saved")
         /\ db' = IF outcome = "failed" THEN db ELSE [db EXCEPT !.codex = checks[c].catalog, !.discovered = TRUE]
         /\ AfterPersist(c, outcome = "saved")
    /\ UNCHANGED <<keys, save, finds>>

PublishCheck(c) ==
    /\ checks[c].pc = "publish"
    /\ codex' = [checking |-> FALSE, connection |-> checks[c].catalog, connected |-> TRUE,
                 server |-> checks[c].transport = "server"]
    /\ CheckStep(c, Idle)
    /\ UNCHANGED <<db, keys, save, finds, spent>>

Crash == /\ MayFault /\ Fault(TRUE)
         /\ save' = Idle /\ finds' = {}
         /\ codex' = [checking |-> FALSE, connection |-> NoCatalog, connected |-> FALSE, server |-> FALSE]
         /\ checks' = [c \in Check |-> Idle]
         /\ UNCHANGED <<db, keys>>

-----------------------------------------------------------------------------
(* What the renderer is told about the active model: view and              *)
(* view_library_with_store, over the command-line transport.               *)

Supports(catalog, s) == s.model \in DOMAIN catalog /\ (s.trait = None \/ s.trait \in catalog[s.model])

EndpointReady(p, i) == p.enabled /\ ReadApiKey(p) /\ i \in AllModelIds(p)

\* Nothing is sent while the rows cannot be read.
Dispatch == LET s == db.active
            IN  IF ~ReadProviderState(db) THEN "blocked"
                ELSE CASE s.provider = "mock" -> "mock"
                  [] s.provider = "codex" ->
                       IF db.transport = "cli" /\ codex.connected /\ Supports(codex.connection, s) THEN "codex" ELSE "blocked"
                  [] OTHER -> IF EndpointReady(db.profiles[s.provider], s.model) THEN "endpoint" ELSE "blocked"

-----------------------------------------------------------------------------
Preferences == \/ \E s \in Selections, fs \in SUBSET ({MockModel} \cup {Keyed(p, i) : p \in Profile \cup {"codex"}, i \in ModelId}) :
                     Cardinality(fs) <= 1 /\ SaveModelSettings(s, fs)
               \/ \E p \in {"mock", "codex"} \cup Profile : SaveStoryMemoryProvider(p)
               \/ \E t \in {"cli", "server"} : SaveCodexTransport(t)

Endpoints == \/ \E p \in Profile, url \in Route, enabled \in BOOLEAN, manual \in Lists,
                  change \in {"keep", "remove"} \cup Key :
                     BeginSave(p, url, enabled, manual, change)
             \/ CommitSave \/ CleanNew \/ CleanOld
             \/ \E p \in Profile : BeginDiscovery(p)
             \/ \E f \in finds : CancelDiscovery(f) \/ \E ids \in Lists : RefreshEndpointModels(f, ids)

Checks == \E c \in Check : \/ StartCheck(c) \/ ReplaceServer(c) \/ BeginCodexCheck(c) \/ CheckFails(c)
                           \/ (\E catalog \in Catalogs : CheckInstalled(c, catalog))
                           \/ PersistCatalog(c) \/ PublishCheck(c)

Next == Preferences \/ Endpoints \/ Checks \/ Crash

Spec == Init /\ [][Next]_vars

-----------------------------------------------------------------------------
\* Whatever is saved, discovered or removed, and in whatever order, the stored
\* preferences can be read back, with one exception that is exact: a discovery
\* whose label is within 256 characters but over 256 bytes is saved, and nothing
\* is read until a check already under way replaces it.  A remembered model that
\* disappeared stays listed and never makes the settings unreadable.
SettingsReadable == ReadProviderState(db) <=> LabelsFit(db)

\* A key that a stored profile refers to is never deleted, and outside a save
\* that failed, was cut short, could not clean up or could not be read back no
\* other key is kept.
KeysKept == /\ Referenced(db) \subseteq keys
            /\ Unlocked /\ spent.faults = 0 /\ ~spent.unread => keys \subseteq Referenced(db)

\* The models offered for a profile were listed by the service and under the
\* key the profile names now, however late the answer of a discovery arrives.
CachedFromRoute == \A p \in Saved(db) :
    db.profiles[p].cached # {} => db.profiles[p].source = <<db.profiles[p].url, db.profiles[p].cred>>

\* A connection is reported ready only with the catalog that is stored, though
\* two checks may run and saving the catalog may fail; what is offered for
\* sending is a selection that the stored rows declare.
ReadyIsDurable == /\ codex.connected => db.discovered /\ db.codex = codex.connection
                  /\ Dispatch # "blocked" => ValidateSelection(db, db.active)
=============================================================================
