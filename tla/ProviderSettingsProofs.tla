----------------------- MODULE ProviderSettingsProofs -----------------------
(***************************************************************************)
(* Theorems about ProviderSettings for every set of profiles, models,      *)
(* keys, catalogs and checks and every limit: the stored preferences can   *)
(* be read back, no key in use is deleted and none is left behind, cached  *)
(* models are those of the profile's route, and a connection reported      *)
(* ready is the stored one.                                                *)
(***************************************************************************)
EXTENDS ProviderSettings, TLAPS

-----------------------------------------------------------------------------
\* The inductive invariant, by parts.

Nameable == {MockModel} \cup {Keyed(p, i) : p \in Profile \cup {"codex"}, i \in ModelId}
Creds == Key \cup {NoKey}
Transports == {"cli", "server"}

SavedProfiles == [url : Route, enabled : BOOLEAN, cred : Creds, manual : Lists,
                  cached : Lists \cup {{}}, revision : Nat,
                  source : (Route \cup {None}) \X Creds]

\* The preference rows; a memory provider that was chosen is still saved.
Rows == [active : Selections, favorites : SUBSET Nameable,
         memory : {"codex", "mock"} \cup Profile, transport : Transports,
         codex : Catalogs \cup {NoCatalog}, discovered : BOOLEAN,
         profiles : [Profile -> {NoProfile} \cup SavedProfiles]]

RowsOK(d) ==
    /\ d \in Rows
    /\ d.memory \in {"codex", "mock"} \cup Saved(d)
    /\ \A p \in Saved(d) : ValidateProfile(d.profiles[p])

Drafts == [url : Route, enabled : BOOLEAN, cred : Creds, manual : Lists]

\* The save that holds the lock, the searches under way and the counters.
SaveOK ==
    \/ save = Idle
    \/ save \in [pc : {"commit", "cleanNew", "cleanOld"}, profile : Profile, old : Creds,
                 new : Creds, saved : BOOLEAN, draft : Drafts]

CountsOK == spent \in [changes : Nat, faults : Nat, unread : BOOLEAN]

\* No step of a save failed, and what was saved was read back.
Faultless == spent.faults = 0 /\ ~spent.unread

CredOf(d, p) == IF d.profiles[p] = NoProfile THEN NoKey ELSE d.profiles[p].cred

\* The keys in the store are those in use and, while no step failed, the one
\* or two that the save under way still has to decide about.
KeysOK ==
    /\ keys \subseteq Key
    /\ Referenced(db) \subseteq keys
    /\ save.pc = "idle" /\ Faultless => keys \subseteq Referenced(db)
    /\ save.pc = "commit" =>
         /\ save.draft.cred \in keys \cup {NoKey}
         /\ save.old = CredOf(db, save.profile)
         /\ Faultless => keys \subseteq Referenced(db) \cup {save.new}
    /\ save.pc = "cleanNew" /\ Faultless =>
         keys \subseteq Referenced(db) \cup {save.new} \cup (IF save.saved THEN {save.old} ELSE {})
    /\ save.pc = "cleanOld" /\ Faultless => keys \subseteq Referenced(db) \cup {save.old}

\* A search that could still be saved asked the route the profile has now.
FindsOK ==
    \A f \in finds :
       /\ f.profile \in Saved(db) /\ f.revision \in Nat
       /\ f.source \in (Route \cup {None}) \X Creds
       /\ f.revision <= db.profiles[f.profile].revision
       /\ f.revision = db.profiles[f.profile].revision =>
            f.source = <<db.profiles[f.profile].url, db.profiles[f.profile].cred>>

CheckStates == {Idle} \cup [pc : {"replace", "begin", "ask"}, transport : Transports]
               \cup [pc : {"persist", "publish"}, transport : Transports, catalog : Catalogs]
Asking(c) == checks[c].pc \in {"ask", "persist", "publish"}

\* One check at a time asks, and nothing is reported ready until it ends.
ChecksOK ==
    /\ checks \in [Check -> CheckStates]
    /\ codex \in [checking : BOOLEAN, connection : Catalogs \cup {NoCatalog},
                  connected : BOOLEAN, server : BOOLEAN]
    /\ \A c \in Check : Asking(c) => codex.checking
    /\ codex.connected => ~codex.checking
    /\ \A c, d \in Check : Asking(c) /\ Asking(d) => c = d
    /\ \A c \in Check : checks[c].pc = "publish" => db.discovered /\ db.codex = checks[c].catalog
    /\ codex.connected => db.discovered /\ db.codex = codex.connection

Typed == RowsOK(db) /\ SaveOK /\ CountsOK
Inv == Typed /\ KeysOK /\ FindsOK /\ ChecksOK /\ CachedFromRoute

-----------------------------------------------------------------------------
\* What the validators make of rows: those of a legal shape can be read back.

\* The row of an absent profile is no profile.
LEMMA AbsentIsNoProfile == NoProfile \notin SavedProfiles
<1>1. SUFFICES ASSUME NoProfile \in SavedProfiles PROVE FALSE
  OBVIOUS
<1>2. DOMAIN NoProfile = {"url"}
  BY DEF NoProfile
<1>3. "revision" \in DOMAIN NoProfile
  BY <1>1 DEF SavedProfiles
<1> QED
  BY <1>2, <1>3

\* read_model_settings and its companions accept every legal set of rows whose
\* labels fit the catalog.
LEMMA RowsReadable ==
  ASSUME NEW d, RowsOK(d)
  PROVE  ReadProviderState(d) <=> LabelsFit(d)
<1>1. d.active \in Selections /\ d.favorites \subseteq Nameable
  BY DEF RowsOK, Rows
<1>2. PreservingUnavailableActive(d, d.active)
  <2>1. CASE d.active \in [provider : {"mock"}, model : {"mock"}, trait : {None}]
    <3>1. KeyOf(d.active) = MockModel /\ d.active.trait = None
      BY <2>1 DEF KeyOf, Keyed, MockModel
    <3> QED
      BY <3>1 DEF PreservingUnavailableActive, ValidateSelection, CatalogWithEndpointsAndCodex
  <2>2. CASE d.active \in [provider : {"codex"}, model : ModelId, trait : {None} \cup Trait]
    <3>1. d.active.provider = "codex" /\ KeyOf(d.active)[1] = "codex"
      BY <2>2 DEF KeyOf, Keyed
    <3> QED
      BY <3>1 DEF PreservingUnavailableActive, CatalogWithEndpointsAndCodex, Tombstones, Remembered
  <2>3. CASE d.active \in [provider : Profile, model : ModelId, trait : {None}]
    <3>1. KeyOf(d.active)[1] \in Profile /\ d.active.trait = None
      BY <2>3 DEF KeyOf, Keyed
    <3> QED
      BY <3>1 DEF PreservingUnavailableActive, ValidateSelection, CatalogWithEndpointsAndCodex, Tombstones, Remembered
  <2> QED
    BY <1>1, <2>1, <2>2, <2>3 DEF Selections
<1>3. FavoritesFound(d, d.favorites)
  <2>1. SUFFICES ASSUME NEW k \in d.favorites PROVE k \in CatalogWithEndpointsAndCodex(d)
    BY DEF FavoritesFound
  <2>2. k = MockModel \/ k[1] \in {"codex"} \cup Profile
    BY <1>1 DEF Nameable, Keyed
  <2> QED
    BY <2>2 DEF CatalogWithEndpointsAndCodex, Tombstones, Remembered
<1> QED
  BY <1>2, <1>3 DEF ReadProviderState, ProviderState, ValidateStoryMemoryProvider, RowsOK

\* A profile that is changed by a save keeps its shape.
LEMMA ChangedProfileType ==
  ASSUME NEW old \in SavedProfiles, NEW u \in Route, NEW e \in BOOLEAN, NEW c \in Creds,
         NEW m \in Lists, NEW h \in Lists \cup {{}}
  PROVE  [old EXCEPT !.url = u, !.enabled = e, !.cred = c, !.manual = m, !.cached = h,
                     !.revision = @ + 1] \in SavedProfiles
<1> DEFINE t == [old EXCEPT !.url = u, !.enabled = e, !.cred = c, !.manual = m, !.cached = h]
<1>1. t \in SavedProfiles /\ t.revision = old.revision
  BY DEF SavedProfiles
<1>2. [t EXCEPT !.revision = t.revision + 1] \in SavedProfiles
  <2> HIDE DEF t
  <2> QED BY <1>1 DEF SavedProfiles
<1>3. [old EXCEPT !.url = u, !.enabled = e, !.cred = c, !.manual = m, !.cached = h, !.revision = @ + 1]
        = [t EXCEPT !.revision = old.revision + 1]
  OBVIOUS
<1> QED
  BY <1>1, <1>2, <1>3

\* A saved draft is a profile of a legal shape.
LEMMA SavedProfileType ==
  ASSUME NEW d, d \in Rows, NEW p \in Profile, NEW draft \in Drafts
  PROVE  SavedProfile(d, p, draft) \in SavedProfiles
<1> DEFINE old == d.profiles[p]
<1>1. old = NoProfile \/ old \in SavedProfiles
  BY DEF Rows
<1>2. CASE old = NoProfile
  BY <1>2 DEF SavedProfile, SavedProfiles, Drafts, Creds
<1>3. CASE old # NoProfile /\ ConfigEquals(old, draft)
  BY <1>1, <1>3 DEF SavedProfile
<1>4. CASE old # NoProfile /\ ~ConfigEquals(old, draft)
  <2>1. SavedProfile(d, p, draft) =
          [old EXCEPT !.url = draft.url, !.enabled = draft.enabled, !.cred = draft.cred,
                      !.manual = draft.manual, !.cached = CachedAfter(old, draft), !.revision = @ + 1]
    BY <1>4 DEF SavedProfile
  <2>2. CachedAfter(old, draft) \in Lists \cup {{}}
    BY <1>1, <1>4 DEF CachedAfter, SavedProfiles
  <2>3. draft.url \in Route /\ draft.enabled \in BOOLEAN /\ draft.cred \in Creds /\ draft.manual \in Lists
    BY DEF Drafts
  <2>4. old \in SavedProfiles
    BY <1>1, <1>4
  <2> HIDE DEF old
  <2>5. [old EXCEPT !.url = draft.url, !.enabled = draft.enabled, !.cred = draft.cred,
                    !.manual = draft.manual, !.cached = CachedAfter(old, draft), !.revision = @ + 1]
          \in SavedProfiles
    BY <2>2, <2>3, <2>4, ChangedProfileType, Zenon
  <2> QED
    BY <2>1, <2>5
<1> QED
  BY <1>2, <1>3, <1>4

\* The credential a save leaves in a profile is the draft's.
LEMMA SavedProfileCred ==
  ASSUME NEW d, d \in Rows, NEW p \in Profile, NEW draft \in Drafts
  PROVE  SavedProfile(d, p, draft).cred = draft.cred
<1> DEFINE old == d.profiles[p]
<1>1. old = NoProfile \/ old \in SavedProfiles
  BY DEF Rows
<1> QED
  BY <1>1 DEF SavedProfile, ConfigEquals, SavedProfiles, Drafts

-----------------------------------------------------------------------------
\* The rows after each step.

WithProfile(d, p, r) == [d EXCEPT !.profiles[p] = r]

\* One profile is replaced by a legal one.
LEMMA RowsWithProfile ==
  ASSUME NEW d, RowsOK(d), NEW p \in Profile, NEW r \in SavedProfiles, ValidateProfile(r),
         NEW e, e = WithProfile(d, p, r)
  PROVE  /\ RowsOK(e)
         /\ Saved(e) = Saved(d) \cup {p}
         /\ e.profiles = [d.profiles EXCEPT ![p] = r]
         /\ e.codex = d.codex /\ e.discovered = d.discovered
<1>1. e.profiles = [d.profiles EXCEPT ![p] = r] /\ d.profiles \in [Profile -> {NoProfile} \cup SavedProfiles]
  BY DEF RowsOK, Rows, WithProfile
<1>2. /\ e.active = d.active /\ e.favorites = d.favorites /\ e.memory = d.memory
      /\ e.transport = d.transport /\ e.codex = d.codex /\ e.discovered = d.discovered
  BY DEF RowsOK, Rows, WithProfile
<1>3. e \in Rows
  <2>1. e.profiles \in [Profile -> {NoProfile} \cup SavedProfiles]
    BY <1>1
  <2>2. d \in Rows
    BY DEF RowsOK
  <2> QED
    BY <2>1, <2>2 DEF Rows, WithProfile
<1>4. Saved(e) = Saved(d) \cup {p}
  BY <1>1, AbsentIsNoProfile DEF Saved
<1>5. \A q \in Saved(e) : ValidateProfile(e.profiles[q])
  BY <1>1, <1>4 DEF RowsOK, Saved
<1> QED
  BY <1>1, <1>2, <1>3, <1>4, <1>5 DEF RowsOK

\* What a commit of a valid draft makes of the rows.
LEMMA CommitRows ==
  ASSUME RowsOK(db), save \in [pc : {"commit"}, profile : Profile, old : Creds, new : Creds,
                               saved : BOOLEAN, draft : Drafts],
         NEW next, next = [db EXCEPT !.profiles[save.profile] = SavedProfile(db, save.profile, save.draft)],
         ValidateProfile(next.profiles[save.profile])
  PROVE  /\ RowsOK(next)
         /\ Saved(next) = Saved(db) \cup {save.profile}
         /\ next.profiles = [db.profiles EXCEPT ![save.profile] = SavedProfile(db, save.profile, save.draft)]
         /\ next.codex = db.codex /\ next.discovered = db.discovered
<1> DEFINE r == SavedProfile(db, save.profile, save.draft)
<1>1. db \in Rows /\ save.profile \in Profile /\ save.draft \in Drafts
  BY DEF RowsOK
<1>2. r \in SavedProfiles
  BY <1>1, SavedProfileType
<1>3. next.profiles[save.profile] = r /\ next = WithProfile(db, save.profile, r)
  BY <1>1 DEF Rows, WithProfile
<1>4. /\ RowsOK(next)
      /\ Saved(next) = Saved(db) \cup {save.profile}
      /\ next.profiles = [db.profiles EXCEPT ![save.profile] = r]
      /\ next.codex = db.codex /\ next.discovered = db.discovered
  <2> HIDE DEF r
  <2> QED BY <1>1, <1>2, <1>3, RowsWithProfile
<1> QED
  BY <1>4

\* What a discovery that is saved makes of the rows.
Refreshed(d, f, ids) ==
    [d EXCEPT !.profiles[f.profile].cached = ids, !.profiles[f.profile].source = f.source]
RefreshedProfile(f, ids) == [db.profiles[f.profile] EXCEPT !.cached = ids, !.source = f.source]

\* A refresh changes the cache of one profile and where it came from.
LEMMA RefreshIsOneProfile ==
  ASSUME RowsOK(db), NEW f, f.profile \in Saved(db), f.source \in (Route \cup {None}) \X Creds,
         NEW ids \in Lists
  PROVE  /\ f.profile \in Profile
         /\ RefreshedProfile(f, ids) \in SavedProfiles
         /\ Refreshed(db, f, ids) = WithProfile(db, f.profile, RefreshedProfile(f, ids))
         /\ Refreshed(db, f, ids).profiles[f.profile] = RefreshedProfile(f, ids)
<1> DEFINE old == db.profiles[f.profile]
           r == [old EXCEPT !.cached = ids, !.source = f.source]
<1>1. f.profile \in Profile /\ old \in SavedProfiles
  BY DEF RowsOK, Rows, Saved
<1>2. r \in SavedProfiles
  <2> HIDE DEF old
  <2> QED BY <1>1 DEF SavedProfiles
<1>3. Refreshed(db, f, ids) = WithProfile(db, f.profile, r)
        /\ Refreshed(db, f, ids).profiles[f.profile] = r
  BY <1>1 DEF RowsOK, Rows, Refreshed, WithProfile
<1> QED
  BY <1>1, <1>2, <1>3 DEF RefreshedProfile

-----------------------------------------------------------------------------
\* Each part of the invariant after each step.

\* What a refresh that is saved does to the rows.
LEMMA RefreshStep ==
  ASSUME Typed, FindsOK, NEW f \in finds, NEW ids \in Lists, RefreshEndpointModels(f, ids)
  PROVE  \/ db' = db
         \/ /\ f.profile \in Profile /\ Refreshes(f)
            /\ RefreshedProfile(f, ids) \in SavedProfiles
            /\ db'.profiles = [db.profiles EXCEPT ![f.profile] = RefreshedProfile(f, ids)]
            /\ db'.codex = db.codex /\ db'.discovered = db.discovered
            /\ Saved(db') = Saved(db) /\ RowsOK(db')
<1> DEFINE next == Refreshed(db, f, ids)
<1>1. \/ db' = db
      \/ db' = next /\ Refreshes(f) /\ ValidateProfile(next.profiles[f.profile])
  BY DEF RefreshEndpointModels, Refreshed
<1>2. SUFFICES ASSUME db' = next, Refreshes(f), ValidateProfile(next.profiles[f.profile])
               PROVE  /\ f.profile \in Profile /\ Refreshes(f)
                      /\ RefreshedProfile(f, ids) \in SavedProfiles
                      /\ db'.profiles = [db.profiles EXCEPT ![f.profile] = RefreshedProfile(f, ids)]
                      /\ db'.codex = db.codex /\ db'.discovered = db.discovered
                      /\ Saved(db') = Saved(db) /\ RowsOK(db')
  BY <1>1
<1>3. /\ f.profile \in Profile
      /\ RefreshedProfile(f, ids) \in SavedProfiles
      /\ next = WithProfile(db, f.profile, RefreshedProfile(f, ids))
      /\ next.profiles[f.profile] = RefreshedProfile(f, ids)
  BY RefreshIsOneProfile DEF Typed, FindsOK
<1>4. /\ RowsOK(db) /\ ValidateProfile(RefreshedProfile(f, ids))
      /\ db' = WithProfile(db, f.profile, RefreshedProfile(f, ids))
  BY <1>2, <1>3 DEF Typed
<1> HIDE DEF next
<1>5. /\ RowsOK(db')
      /\ Saved(db') = Saved(db) \cup {f.profile}
      /\ db'.profiles = [db.profiles EXCEPT ![f.profile] = RefreshedProfile(f, ids)]
      /\ db'.codex = db.codex /\ db'.discovered = db.discovered
  BY <1>3, <1>4, RowsWithProfile
<1>6. f.profile \in Saved(db)
  BY DEF FindsOK
<1> QED
  BY <1>2, <1>3, <1>5, <1>6

\* The rows once a draft is saved.
Committed ==
    /\ RowsOK(db') /\ Saved(db') = Saved(db) \cup {save.profile}
    /\ db'.profiles = [db.profiles EXCEPT ![save.profile] = SavedProfile(db, save.profile, save.draft)]
    /\ db'.codex = db.codex /\ db'.discovered = db.discovered

\* A commit that did not fail answers with a success and saved the draft, unless
\* the saved rows could not be read back.
LEMMA CommitStep ==
  ASSUME Typed, CommitSave
  PROVE  /\ save \in [pc : {"commit"}, profile : Profile, old : Creds, new : Creds, saved : BOOLEAN, draft : Drafts]
         /\ CountsOK' /\ (Faultless' => Faultless)
         /\ \E ok \in BOOLEAN :
              /\ save' = [save EXCEPT !.pc = "cleanNew", !.saved = ok]
              /\ (db' = db /\ ~ok) \/ (Committed /\ (Faultless' => ok))
<1> DEFINE next == [db EXCEPT !.profiles[save.profile] = SavedProfile(db, save.profile, save.draft)]
           valid == ValidateProfile(next.profiles[save.profile])
<1>1. save \in [pc : {"commit"}, profile : Profile, old : Creds, new : Creds, saved : BOOLEAN, draft : Drafts]
  BY DEF CommitSave, SaveOK, Idle, Typed
<1>2. PICK outcome :
        LET committed == valid /\ outcome # "failed"
            ok == committed /\ outcome = "saved" /\ ProviderState(next)
        IN  /\ spent' = [spent EXCEPT !.faults = IF outcome = "saved" THEN @ ELSE @ + 1,
                                      !.unread = @ \/ (committed /\ ~ProviderState(next))]
            /\ db' = IF committed THEN next ELSE db
            /\ save' = [save EXCEPT !.pc = "cleanNew", !.saved = ok]
  BY Zenon DEF CommitSave
<1>3. ASSUME valid, outcome # "failed" PROVE Committed
  <2>1. db' = next
    BY <1>2, <1>3
  <2>2. /\ RowsOK(next)
        /\ Saved(next) = Saved(db) \cup {save.profile}
        /\ next.profiles = [db.profiles EXCEPT ![save.profile] = SavedProfile(db, save.profile, save.draft)]
        /\ next.codex = db.codex /\ next.discovered = db.discovered
    BY <1>1, <1>3, CommitRows DEF Typed
  <2> QED
    BY <2>1, <2>2 DEF Committed
<1> DEFINE read == ProviderState(next)
           committed == valid /\ outcome # "failed"
           ok == committed /\ outcome = "saved" /\ read
<1>4. /\ spent' = [spent EXCEPT !.faults = IF outcome = "saved" THEN @ ELSE @ + 1,
                                !.unread = @ \/ (committed /\ ~read)]
      /\ db' = IF committed THEN next ELSE db
      /\ save' = [save EXCEPT !.pc = "cleanNew", !.saved = ok]
  BY <1>2
<1>5. read \in BOOLEAN /\ valid \in BOOLEAN
  BY DEF ProviderState, ValidateProfile
<1>6. committed => Committed
  BY <1>3
<1> HIDE DEF next, valid, read
<1>7. CountsOK' /\ (Faultless' => Faultless /\ outcome = "saved" /\ ~(committed /\ ~read))
  <2>1. /\ spent'.faults = IF outcome = "saved" THEN spent.faults ELSE spent.faults + 1
        /\ spent'.unread = (spent.unread \/ (committed /\ ~read))
        /\ spent' = [spent EXCEPT !.faults = spent'.faults, !.unread = spent'.unread]
    BY <1>4 DEF Typed, CountsOK
  <2>2. (spent.unread \/ (committed /\ ~read)) \in BOOLEAN
    BY <1>5 DEF Typed, CountsOK
  <2> HIDE DEF committed
  <2>3. spent'.faults \in Nat /\ (spent'.faults = 0 => spent.faults = 0 /\ outcome = "saved")
    BY <2>1 DEF Typed, CountsOK
  <2>4. spent'.unread \in BOOLEAN /\ (~spent'.unread => ~spent.unread /\ ~(committed /\ ~read))
    BY <2>1, <2>2, Zenon
  <2>5. CountsOK'
    BY <2>1, <2>3, <2>4 DEF Typed, CountsOK
  <2> QED
    BY <2>3, <2>4, <2>5 DEF Faultless
<1>8. CASE ok
  BY <1>1, <1>4, <1>6, <1>7, <1>8
<1>9. CASE ~ok
  BY <1>1, <1>4, <1>5, <1>6, <1>7, <1>9
<1> QED
  BY <1>8, <1>9

\* Changes of the rows that keep their shape: the preference saves, a commit, a
\* refresh and a catalog that is saved.
LEMMA TypedStep ==
  ASSUME Typed, FindsOK, ChecksOK, Next
  PROVE  Typed'
<1> USE DEF Typed
<1>1. ASSUME NEW s \in Selections, NEW fs \in SUBSET Nameable, SaveModelSettings(s, fs)
      PROVE  Typed'
  <2>1. db' = [db EXCEPT !.active = s, !.favorites = fs]
    BY <1>1 DEF SaveModelSettings
  <2>2. RowsOK(db')
    BY <2>1 DEF RowsOK, Rows, Saved
  <2> QED
    BY <1>1, <2>2 DEF SaveModelSettings, SaveOK, CountsOK, Change
<1>2. ASSUME NEW p \in {"mock", "codex"} \cup Profile, SaveStoryMemoryProvider(p)
      PROVE  Typed'
  BY <1>2 DEF SaveStoryMemoryProvider, ValidateStoryMemoryProvider, RowsOK, Rows, Saved, SaveOK, CountsOK, Change
<1>3. ASSUME NEW t \in Transports, SaveCodexTransport(t)
      PROVE  Typed'
  BY <1>3 DEF SaveCodexTransport, RowsOK, Rows, Saved, SaveOK, CountsOK, Change
<1>4. ASSUME NEW p \in Profile, NEW url \in Route, NEW enabled \in BOOLEAN, NEW manual \in Lists,
             NEW change \in {"keep", "remove"} \cup Key, BeginSave(p, url, enabled, manual, change)
      PROVE  Typed'
  <2> DEFINE old == IF db.profiles[p] = NoProfile THEN NoKey ELSE db.profiles[p].cred
             cred == CASE change = "keep" -> old [] change = "remove" -> NoKey [] OTHER -> change
             new == IF change \in Key THEN change ELSE NoKey
  <2>1. old \in Creds
    BY DEF RowsOK, Rows, SavedProfiles, Creds
  <2>2. cred \in Creds /\ new \in Creds
    BY <2>1 DEF Creds
  <2>3. save' = [pc |-> "commit", profile |-> p, old |-> old, new |-> new, saved |-> FALSE,
                 draft |-> [url |-> url, enabled |-> enabled, cred |-> cred, manual |-> manual]]
    BY <1>4 DEF BeginSave
  <2>4. SaveOK'
    <3> HIDE DEF old, cred, new
    <3> QED BY <2>1, <2>2, <2>3 DEF SaveOK, Drafts
  <2> QED
    BY <1>4, <2>4 DEF BeginSave, CountsOK, Change
<1>5. ASSUME CommitSave PROVE Typed'
  <2>1. PICK ok \in BOOLEAN :
               /\ save' = [save EXCEPT !.pc = "cleanNew", !.saved = ok]
               /\ (db' = db /\ ~ok) \/ (Committed /\ (Faultless' => ok))
    BY <1>5, CommitStep
  <2>2. SaveOK'
    BY <1>5, <2>1, CommitStep DEF SaveOK
  <2> QED
    BY <1>5, <2>1, <2>2, CommitStep DEF Committed
<1>6. ASSUME CleanNew \/ CleanOld PROVE Typed'
  BY <1>6 DEF CleanNew, CleanOld, SaveOK, CountsOK, Fault, Idle
<1>7. ASSUME NEW p \in Profile, BeginDiscovery(p) PROVE Typed'
  BY <1>7 DEF BeginDiscovery, CountsOK, Change, SaveOK
<1>8. ASSUME NEW f \in finds, CancelDiscovery(f) PROVE Typed'
  BY <1>8 DEF CancelDiscovery, CountsOK, SaveOK
<1>9. ASSUME NEW f \in finds, NEW ids \in Lists, RefreshEndpointModels(f, ids) PROVE Typed'
  <2>1. RowsOK(db')
    BY <1>9, RefreshStep
  <2> QED
    BY <1>9, <2>1 DEF RefreshEndpointModels, SaveOK, CountsOK
<1>10. ASSUME NEW c \in Check, StartCheck(c) PROVE Typed'
  BY <1>10 DEF StartCheck, CountsOK, Change, SaveOK
<1>11. ASSUME NEW c \in Check, ReplaceServer(c) \/ BeginCodexCheck(c) \/ CheckFails(c) \/ PublishCheck(c)
       PROVE  Typed'
  BY <1>11 DEF ReplaceServer, BeginCodexCheck, CheckFails, PublishCheck, CountsOK, SaveOK
<1>12. ASSUME NEW c \in Check, NEW catalog \in Catalogs, CheckInstalled(c, catalog) PROVE Typed'
  BY <1>12 DEF CheckInstalled, CountsOK, SaveOK
<1>13. ASSUME NEW c \in Check, PersistCatalog(c) PROVE Typed'
  <2>1. checks[c].catalog \in Catalogs
    BY <1>13 DEF PersistCatalog, ChecksOK, CheckStates, Idle
  <2>2. db' = db \/ db' = [db EXCEPT !.codex = checks[c].catalog, !.discovered = TRUE]
    BY <1>13 DEF PersistCatalog
  <2>3. RowsOK(db')
    BY <2>1, <2>2 DEF RowsOK, Rows, Saved
  <2> QED
    BY <1>13, <2>3 DEF PersistCatalog, CountsOK, Fault, SaveOK
<1>14. ASSUME Crash PROVE Typed'
  BY <1>14 DEF Crash, CountsOK, Fault, SaveOK
<1> QED
  BY <1>1, <1>2, <1>3, <1>4, <1>5, <1>6, <1>7, <1>8, <1>9, <1>10, <1>11, <1>12, <1>13, <1>14
  DEF Next, Preferences, Endpoints, Checks, Nameable, Transports

\* Keys: what a commit adds to the references and takes from them.
LEMMA CommitReferences ==
  ASSUME Typed, CommitSave, Committed
  PROVE  /\ Referenced(db') \subseteq Referenced(db) \cup ({save.draft.cred} \ {NoKey})
         /\ Referenced(db) \subseteq Referenced(db') \cup {CredOf(db, save.profile)}
<1>1. db \in Rows /\ save.profile \in Profile /\ save.draft \in Drafts
  BY CommitStep DEF Typed, RowsOK
<1>2. SavedProfile(db, save.profile, save.draft).cred = save.draft.cred
  BY <1>1, SavedProfileCred
<1>3. \A q \in Saved(db') : db'.profiles[q].cred = IF q = save.profile THEN save.draft.cred ELSE db.profiles[q].cred
  BY <1>1, <1>2 DEF Committed, Saved, Rows
<1>4. Saved(db') = Saved(db) \cup {save.profile}
  BY DEF Committed
<1>5. \A q \in Saved(db) : q = save.profile => db.profiles[q].cred = CredOf(db, save.profile)
  BY DEF CredOf, Saved
<1> QED
  BY <1>3, <1>4, <1>5 DEF Referenced

\* Other changes of the rows leave the references alone.
LEMMA ReferencedSame ==
  ASSUME NEW d, NEW e, d.profiles = e.profiles
  PROVE  Referenced(d) = Referenced(e) /\ Saved(d) = Saved(e)
BY DEF Referenced, Saved

\* Failures are only counted up.
LEMMA FaultsStay ==
  ASSUME CountsOK, NEW bad \in BOOLEAN, Fault(bad), Faultless'
  PROVE  Faultless /\ ~bad
BY DEF CountsOK, Fault, Faultless

\* Whether a step may fail is a Boolean.
LEMMA MayFaultBoolean == \A bad \in {FALSE} \cup {MayFault} : bad \in BOOLEAN
<1>1. MayFault \in BOOLEAN
  BY SMT DEF MayFault
<1>2. SUFFICES ASSUME NEW bad, bad = FALSE \/ bad = MayFault PROVE bad \in BOOLEAN
  BY Zenon
<1> QED
  BY <1>1, <1>2, Zenon

\* Keys that are in use are never deleted, in any order of saves and crashes.
LEMMA KeysStep ==
  ASSUME Typed, KeysOK, FindsOK, ChecksOK, Next
  PROVE  KeysOK'
<1>1. ASSUME save' = save, keys' = keys, Unlocked, Referenced(db') = Referenced(db), Faultless' => Faultless
      PROVE  KeysOK'
  BY <1>1 DEF KeysOK, Unlocked
<1>2. ASSUME save' = save, keys' = keys, db' = db, spent' = spent
      PROVE  KeysOK'
  BY <1>2 DEF KeysOK, Unlocked, Faultless, CredOf
<1>3. ASSUME NEW s \in Selections, NEW fs \in SUBSET Nameable, SaveModelSettings(s, fs)
      PROVE  KeysOK'
  <2>1. db'.profiles = db.profiles
    BY <1>3 DEF SaveModelSettings, Typed, RowsOK, Rows
  <2> QED
    BY <1>1, <1>3, <2>1, ReferencedSame DEF SaveModelSettings, Change, Faultless, Typed, CountsOK
<1>4. ASSUME NEW p \in {"mock", "codex"} \cup Profile, SaveStoryMemoryProvider(p)
      PROVE  KeysOK'
  <2>1. db'.profiles = db.profiles
    BY <1>4 DEF SaveStoryMemoryProvider, Typed, RowsOK, Rows
  <2> QED
    BY <1>1, <1>4, <2>1, ReferencedSame DEF SaveStoryMemoryProvider, Change, Faultless, Typed, CountsOK
<1>5. ASSUME NEW t \in Transports, SaveCodexTransport(t)
      PROVE  KeysOK'
  <2>1. db'.profiles = db.profiles
    BY <1>5 DEF SaveCodexTransport, Typed, RowsOK, Rows
  <2> QED
    BY <1>1, <1>5, <2>1, ReferencedSame DEF SaveCodexTransport, Change, Faultless, Typed, CountsOK
<1>6. ASSUME NEW p \in Profile, NEW url \in Route, NEW enabled \in BOOLEAN, NEW manual \in Lists,
             NEW change \in {"keep", "remove"} \cup Key, BeginSave(p, url, enabled, manual, change)
      PROVE  KeysOK'
  <2> DEFINE old == IF db.profiles[p] = NoProfile THEN NoKey ELSE db.profiles[p].cred
             cred == CASE change = "keep" -> old [] change = "remove" -> NoKey [] OTHER -> change
             new == IF change \in Key THEN change ELSE NoKey
  <2>1. /\ save' = [pc |-> "commit", profile |-> p, old |-> old, new |-> new, saved |-> FALSE,
                    draft |-> [url |-> url, enabled |-> enabled, cred |-> cred, manual |-> manual]]
        /\ keys' = keys \cup ({change} \cap Key) /\ db' = db /\ Unlocked
        /\ spent'.faults = spent.faults /\ spent'.unread = spent.unread
    BY <1>6 DEF BeginSave, Change, Typed, CountsOK
  <2>2. old = CredOf(db, p) /\ old \in Referenced(db) \cup {NoKey}
    BY DEF CredOf, Referenced, Saved
  <2>3. cred \in keys' \cup {NoKey}
    BY <2>1, <2>2 DEF KeysOK
  <2>4. keys' \subseteq keys \cup {new} /\ keys' \subseteq Key
    BY <2>1 DEF KeysOK
  <2>5. /\ save'.pc = "commit" /\ save'.draft.cred = cred /\ save'.old = old /\ save'.new = new
        /\ save'.profile = p
    BY <2>1
  <2> HIDE DEF old, cred, new
  <2> QED
    BY <2>1, <2>2, <2>3, <2>4, <2>5 DEF KeysOK, Unlocked, Faultless, CredOf
<1>7. ASSUME CommitSave PROVE KeysOK'
  <2>1. PICK ok \in BOOLEAN :
               /\ save' = [save EXCEPT !.pc = "cleanNew", !.saved = ok]
               /\ (db' = db /\ ~ok) \/ (Committed /\ (Faultless' => ok))
    BY <1>7, CommitStep
  <2>2. save.pc = "commit" /\ save'.pc = "cleanNew" /\ save'.new = save.new /\ save'.old = save.old /\ save'.saved = ok
    BY <1>7, <2>1, CommitStep
  <2>3. keys' = keys /\ (Faultless' => Faultless)
    BY <1>7, CommitStep DEF CommitSave
  <2>4. Referenced(db') \subseteq keys
    BY <1>7, <2>1, <2>2, CommitReferences DEF KeysOK
  <2>5. Faultless' => keys \subseteq Referenced(db') \cup {save.new} \cup (IF ok THEN {save.old} ELSE {})
    BY <1>7, <2>1, <2>2, <2>3, CommitReferences DEF KeysOK
  <2> QED
    BY <2>2, <2>3, <2>4, <2>5 DEF KeysOK
<1>8. ASSUME CleanNew PROVE KeysOK'
  <2>1. PICK bad \in BOOLEAN :
               /\ Fault(bad)
               /\ keys' = IF bad THEN keys ELSE keys \ UnusedNew
               /\ save' = IF bad \/ ~save.saved THEN Idle ELSE [save EXCEPT !.pc = "cleanOld"]
    BY <1>8, MayFaultBoolean, Zenon DEF CleanNew
  <2>2. db' = db /\ save.pc = "cleanNew" /\ (Faultless' => Faultless /\ ~bad)
    BY <1>8, <2>1, FaultsStay DEF CleanNew, Typed
  <2>3. Referenced(db) \subseteq keys' /\ keys' \subseteq Key
    BY <2>1 DEF UnusedNew, KeysOK
  <2>4. Faultless' => keys' \subseteq Referenced(db) \cup (IF save.saved THEN {save.old} ELSE {})
    BY <2>1, <2>2 DEF UnusedNew, KeysOK
  <2>5. CASE bad \/ ~save.saved
    BY <2>1, <2>2, <2>3, <2>4, <2>5 DEF KeysOK, Idle
  <2>6. CASE ~bad /\ save.saved
    <3>1. save'.pc = "cleanOld" /\ save'.old = save.old
      BY <2>1, <2>2, <2>6 DEF Typed, SaveOK, Idle
    <3> QED
      BY <2>2, <2>3, <2>4, <2>6, <3>1 DEF KeysOK
  <2> QED
    BY <2>5, <2>6
<1>9. ASSUME CleanOld PROVE KeysOK'
  <2>1. PICK bad \in BOOLEAN :
               /\ Fault(bad)
               /\ keys' = IF bad THEN keys ELSE keys \ ({save.old} \ Referenced(db))
    BY <1>9, MayFaultBoolean, Zenon DEF CleanOld
  <2>2. db' = db /\ save.pc = "cleanOld" /\ save'.pc = "idle" /\ (Faultless' => Faultless /\ ~bad)
    BY <1>9, <2>1, FaultsStay DEF CleanOld, Typed, Idle
  <2> QED
    BY <2>1, <2>2 DEF KeysOK
<1>10. ASSUME NEW p \in Profile, BeginDiscovery(p) PROVE KeysOK'
  BY <1>1, <1>10 DEF BeginDiscovery, Change, Faultless, Typed, CountsOK
<1>11. ASSUME NEW f \in finds, CancelDiscovery(f) PROVE KeysOK'
  BY <1>2, <1>11 DEF CancelDiscovery
<1>12. ASSUME NEW f \in finds, NEW ids \in Lists, RefreshEndpointModels(f, ids) PROVE KeysOK'
  <2>1. CASE db' = db
    BY <1>2, <1>12, <2>1 DEF RefreshEndpointModels
  <2>2. CASE db' # db
    <3>1. /\ f.profile \in Profile /\ Refreshes(f)
          /\ db'.profiles = [db.profiles EXCEPT ![f.profile] = RefreshedProfile(f, ids)]
          /\ Saved(db') = Saved(db)
      BY <1>12, <2>2, RefreshStep
    <3>2. db.profiles \in [Profile -> {NoProfile} \cup SavedProfiles] /\ f.profile \in Saved(db)
      BY <3>1 DEF Typed, RowsOK, Rows, Refreshes
    <3>3. RefreshedProfile(f, ids).cred = db.profiles[f.profile].cred
      BY <3>2 DEF RefreshedProfile, Saved, SavedProfiles
    <3>4. \A q \in Saved(db) : db'.profiles[q].cred = db.profiles[q].cred
      BY <3>1, <3>2, <3>3 DEF Saved
    <3>5. Referenced(db') = Referenced(db)
      BY <3>1, <3>4 DEF Referenced
    <3> QED
      BY <1>1, <1>12, <3>5 DEF RefreshEndpointModels, Faultless
  <2> QED
    BY <2>1, <2>2
<1>13. ASSUME NEW c \in Check, StartCheck(c) PROVE KeysOK'
  BY <1>1, <1>13 DEF StartCheck, Change, Faultless, Typed, CountsOK
<1>14. ASSUME NEW c \in Check, ReplaceServer(c) \/ BeginCodexCheck(c) \/ CheckFails(c) \/ PublishCheck(c)
       PROVE  KeysOK'
  BY <1>2, <1>14 DEF ReplaceServer, BeginCodexCheck, CheckFails, PublishCheck
<1>15. ASSUME NEW c \in Check, NEW catalog \in Catalogs, CheckInstalled(c, catalog) PROVE KeysOK'
  BY <1>2, <1>15 DEF CheckInstalled
<1>16. ASSUME NEW c \in Check, PersistCatalog(c) PROVE KeysOK'
  <2>1. db' = db \/ db' = [db EXCEPT !.codex = checks[c].catalog, !.discovered = TRUE]
    BY <1>16 DEF PersistCatalog
  <2>2. db'.profiles = db.profiles
    BY <2>1 DEF Typed, RowsOK, Rows
  <2>3. PICK bad \in BOOLEAN : Fault(bad)
    BY <1>16 DEF PersistCatalog
  <2>4. Faultless' => Faultless
    BY <2>3, FaultsStay DEF Typed
  <2> QED
    BY <1>1, <1>16, <2>2, <2>4, ReferencedSame DEF PersistCatalog
<1>17. ASSUME Crash PROVE KeysOK'
  <2>1. ~Faultless' /\ save'.pc = "idle" /\ keys' = keys /\ db' = db
    BY <1>17, FaultsStay DEF Crash, Idle, Typed
  <2> QED
    BY <2>1 DEF KeysOK
<1> QED
  BY <1>3, <1>4, <1>5, <1>6, <1>7, <1>8, <1>9, <1>10, <1>11, <1>12, <1>13, <1>14, <1>15, <1>16, <1>17
  DEF Next, Preferences, Endpoints, Checks, Nameable, Transports

\* What a step does to a stored profile, as far as searches and caches can tell:
\* its route and key stay, or its revision grows.
ProfileKept(p) ==
    /\ p \in Saved(db')
    /\ \/ /\ db'.profiles[p].revision = db.profiles[p].revision
          /\ db'.profiles[p].url = db.profiles[p].url
          /\ db'.profiles[p].cred = db.profiles[p].cred
       \/ db'.profiles[p].revision = db.profiles[p].revision + 1

\* The saves of preferences are one of three.
LEMMA PreferencesAre ==
  ASSUME Preferences
  PROVE  \/ \E s, fs : SaveModelSettings(s, fs)
         \/ \E p : SaveStoryMemoryProvider(p)
         \/ \E t : SaveCodexTransport(t)
BY DEF Preferences

\* Only a commit and a refresh change the stored profiles.
LEMMA ProfileChanges ==
  ASSUME Typed, Next
  PROVE  \/ CommitSave
         \/ \E f \in finds, ids \in Lists : RefreshEndpointModels(f, ids)
         \/ db'.profiles = db.profiles
<1>1. db \in Rows
  BY DEF Typed, RowsOK
<1>2. CASE Preferences
  <2>1. CASE \E s, fs : SaveModelSettings(s, fs)
    BY <1>1, <2>1 DEF Rows, SaveModelSettings
  <2>2. CASE (\E p : SaveStoryMemoryProvider(p)) \/ (\E t : SaveCodexTransport(t))
    BY <1>1, <2>2 DEF Rows, SaveStoryMemoryProvider, SaveCodexTransport
  <2> QED
    BY <1>2, <2>1, <2>2, PreferencesAre
<1>3. CASE Checks
  <2>1. PICK c \in Check : \/ StartCheck(c) \/ ReplaceServer(c) \/ BeginCodexCheck(c) \/ CheckFails(c)
                           \/ (\E catalog \in Catalogs : CheckInstalled(c, catalog))
                           \/ PersistCatalog(c) \/ PublishCheck(c)
    BY <1>3 DEF Checks
  <2>2. CASE PersistCatalog(c)
    <3>1. db' = db \/ db' = [db EXCEPT !.codex = checks[c].catalog, !.discovered = TRUE]
      BY <2>2 DEF PersistCatalog
    <3> QED
      BY <1>1, <3>1 DEF Rows
  <2>3. CASE ~PersistCatalog(c)
    BY <2>1, <2>3 DEF StartCheck, ReplaceServer, BeginCodexCheck, CheckFails, CheckInstalled, PublishCheck
  <2> QED
    BY <2>2, <2>3
<1>4. CASE Endpoints \/ Crash
  BY <1>4 DEF Endpoints, BeginSave, CleanNew, CleanOld, BeginDiscovery, CancelDiscovery, Crash
<1> QED
  BY <1>2, <1>3, <1>4 DEF Next

\* Every stored profile is kept by every step.
LEMMA ProfilesKept ==
  ASSUME Typed, FindsOK, Next
  PROVE  \A p \in Saved(db) : ProfileKept(p)
<1>1. ASSUME db'.profiles = db.profiles PROVE \A p \in Saved(db) : ProfileKept(p)
  BY <1>1 DEF Saved, ProfileKept
<1>2. ASSUME CommitSave PROVE \A p \in Saved(db) : ProfileKept(p)
  <2>1. CASE db' = db
    BY <1>1, <2>1
  <2>2. CASE db' # db
    <3> DEFINE r == SavedProfile(db, save.profile, save.draft)
    <3>1. /\ save.profile \in Profile /\ Saved(db') = Saved(db) \cup {save.profile}
          /\ db'.profiles = [db.profiles EXCEPT ![save.profile] = r]
      BY <1>2, <2>2, CommitStep DEF Committed
    <3>2. db.profiles \in [Profile -> {NoProfile} \cup SavedProfiles]
      BY DEF Typed, RowsOK, Rows
    <3>3. SUFFICES ASSUME NEW p \in Saved(db) PROVE ProfileKept(p)
      OBVIOUS
    <3>4. CASE p # save.profile
      BY <3>1, <3>2, <3>4 DEF ProfileKept, Saved
    <3>5. CASE p = save.profile
      <4> DEFINE old == db.profiles[p]
      <4>1. old \in SavedProfiles /\ old # NoProfile /\ db'.profiles[p] = r
        BY <3>1, <3>2, <3>5 DEF Saved
      <4>2. \/ r = old
            \/ r = [old EXCEPT !.url = save.draft.url, !.enabled = save.draft.enabled,
                               !.cred = save.draft.cred, !.manual = save.draft.manual,
                               !.cached = CachedAfter(old, save.draft), !.revision = @ + 1]
        BY <3>5, <4>1 DEF SavedProfile
      <4>3. r = old \/ r.revision = old.revision + 1
        <5> HIDE DEF old, r
        <5> QED BY <4>1, <4>2 DEF SavedProfiles
      <4> QED
        BY <3>1, <4>1, <4>3 DEF ProfileKept
    <3> QED
      BY <3>4, <3>5
  <2> QED
    BY <2>1, <2>2
<1>3. ASSUME NEW f \in finds, NEW ids \in Lists, RefreshEndpointModels(f, ids)
      PROVE  \A p \in Saved(db) : ProfileKept(p)
  <2>1. CASE db' = db
    BY <1>1, <2>1
  <2>2. CASE db' # db
    <3>1. /\ f.profile \in Profile /\ Refreshes(f) /\ Saved(db') = Saved(db)
          /\ db'.profiles = [db.profiles EXCEPT ![f.profile] = RefreshedProfile(f, ids)]
      BY <1>3, <2>2, RefreshStep
    <3>2. db.profiles \in [Profile -> {NoProfile} \cup SavedProfiles] /\ f.profile \in Saved(db)
      BY <3>1 DEF Typed, RowsOK, Rows, Refreshes
    <3>3. /\ RefreshedProfile(f, ids).cred = db.profiles[f.profile].cred
          /\ RefreshedProfile(f, ids).url = db.profiles[f.profile].url
          /\ RefreshedProfile(f, ids).revision = db.profiles[f.profile].revision
      BY <3>2 DEF RefreshedProfile, Saved, SavedProfiles
    <3> QED
      BY <3>1, <3>2, <3>3 DEF ProfileKept, Saved
  <2> QED
    BY <2>1, <2>2
<1> QED
  BY <1>1, <1>2, <1>3, ProfileChanges

\* The searches that a step leaves, and the one it starts.
LEMMA FindsChange ==
  ASSUME Next
  PROVE  \/ finds' \subseteq finds
         \/ \E p \in Profile : BeginDiscovery(p)
<1>1. CASE Preferences
  BY <1>1, PreferencesAre DEF SaveModelSettings, SaveStoryMemoryProvider, SaveCodexTransport
<1>2. CASE Checks
  BY <1>2 DEF Checks, StartCheck, ReplaceServer, BeginCodexCheck, CheckFails, CheckInstalled, PersistCatalog,
       PublishCheck
<1>3. CASE Endpoints
  <2>1. CASE \E f \in finds : CancelDiscovery(f) \/ \E ids \in Lists : RefreshEndpointModels(f, ids)
    BY <2>1 DEF CancelDiscovery, RefreshEndpointModels
  <2>2. CASE CommitSave \/ CleanNew \/ CleanOld
    BY <2>2 DEF CommitSave, CleanNew, CleanOld
  <2>3. CASE \E p \in Profile, url \in Route, enabled \in BOOLEAN, manual \in Lists,
                change \in {"keep", "remove"} \cup Key : BeginSave(p, url, enabled, manual, change)
    BY <2>3 DEF BeginSave
  <2> QED
    BY <1>3, <2>1, <2>2, <2>3 DEF Endpoints
<1>4. CASE Crash
  BY <1>4 DEF Crash
<1> QED
  BY <1>1, <1>2, <1>3, <1>4 DEF Next

\* A search that could still be saved asked the route the profile has now.
LEMMA FindsStep ==
  ASSUME Typed, FindsOK, Next
  PROVE  FindsOK'
<1>1. \A p \in Saved(db) : db.profiles[p].revision \in Nat
  BY DEF Typed, RowsOK, Rows, Saved, SavedProfiles
<1>2. ASSUME finds' \subseteq finds PROVE FindsOK'
  <2>1. SUFFICES ASSUME NEW f \in finds' PROVE
          /\ f.profile \in Saved(db') /\ f.revision \in Nat
          /\ f.source \in (Route \cup {None}) \X Creds
          /\ f.revision <= db'.profiles[f.profile].revision
          /\ f.revision = db'.profiles[f.profile].revision =>
               f.source = <<db'.profiles[f.profile].url, db'.profiles[f.profile].cred>>
    BY Zenon DEF FindsOK
  <2>2. /\ f.profile \in Saved(db) /\ f.revision \in Nat /\ f.source \in (Route \cup {None}) \X Creds
        /\ f.revision <= db.profiles[f.profile].revision
        /\ f.revision = db.profiles[f.profile].revision =>
             f.source = <<db.profiles[f.profile].url, db.profiles[f.profile].cred>>
    BY <1>2, <2>1, Zenon DEF FindsOK
  <2>3. ProfileKept(f.profile)
    BY <2>2, ProfilesKept
  <2> QED
    BY <1>1, <2>2, <2>3 DEF ProfileKept
<1>3. ASSUME NEW p \in Profile, BeginDiscovery(p) PROVE FindsOK'
  <2> DEFINE f == [profile |-> p, revision |-> db.profiles[p].revision,
                   source |-> <<db.profiles[p].url, db.profiles[p].cred>>]
  <2>1. p \in Saved(db) /\ db' = db /\ finds' = finds \cup {f}
    BY <1>3 DEF BeginDiscovery
  <2>2. f.source \in (Route \cup {None}) \X Creds /\ f.revision \in Nat
    BY <1>1, <2>1 DEF Typed, RowsOK, Rows, Saved, SavedProfiles
  <2> QED
    BY <2>1, <2>2 DEF FindsOK
<1> QED
  BY <1>2, <1>3, FindsChange

\* What is cached for a profile came from its route under its key.
LEMMA CachedStep ==
  ASSUME Typed, FindsOK, CachedFromRoute, Next
  PROVE  CachedFromRoute'
<1> DEFINE Fits(p, r) == r.cached # {} => r.source = <<r.url, r.cred>>
<1>0. \A p \in Saved(db) : Fits(p, db.profiles[p])
  BY DEF CachedFromRoute
<1>1. ASSUME db'.profiles = db.profiles PROVE CachedFromRoute'
  BY <1>1 DEF Saved, CachedFromRoute
<1>2. ASSUME CommitSave PROVE CachedFromRoute'
  <2>1. CASE db' = db
    BY <1>1, <2>1
  <2>2. CASE db' # db
    <3> DEFINE p == save.profile
               old == db.profiles[p]
               draft == save.draft
               r == SavedProfile(db, p, draft)
    <3>1. /\ p \in Profile /\ Saved(db') = Saved(db) \cup {p}
          /\ db'.profiles = [db.profiles EXCEPT ![p] = r]
      BY <1>2, <2>2, CommitStep DEF Committed
    <3>2. db.profiles \in [Profile -> {NoProfile} \cup SavedProfiles]
      BY DEF Typed, RowsOK, Rows
    <3>3. Fits(p, r)
      <4>1. CASE old = NoProfile
        BY <4>1 DEF SavedProfile
      <4>2. CASE old # NoProfile
        <5>1. old \in SavedProfiles /\ Fits(p, old)
          BY <1>0, <3>1, <3>2, <4>2 DEF Saved
        <5>2. \/ r = old
              \/ r = [old EXCEPT !.url = draft.url, !.enabled = draft.enabled, !.cred = draft.cred,
                                 !.manual = draft.manual, !.cached = CachedAfter(old, draft),
                                 !.revision = @ + 1]
          BY <4>2 DEF SavedProfile
        <5>3. \/ CachedAfter(old, draft) = {}
              \/ CachedAfter(old, draft) = old.cached /\ old.url = draft.url /\ old.cred = draft.cred
          BY DEF CachedAfter
        <5> HIDE DEF r, old, draft
        <5>4. \/ r = old
              \/ /\ r.cached = CachedAfter(old, draft) /\ r.source = old.source
                 /\ r.url = draft.url /\ r.cred = draft.cred
          BY <5>1, <5>2 DEF SavedProfiles
        <5> QED
          BY <5>1, <5>3, <5>4
      <4> QED
        BY <4>1, <4>2
    <3>4. \A q \in Saved(db') : Fits(q, db'.profiles[q])
      <4> HIDE DEF r
      <4> QED BY <1>0, <3>1, <3>2, <3>3 DEF Saved
    <3> QED
      BY <3>4 DEF CachedFromRoute
  <2> QED
    BY <2>1, <2>2
<1>3. ASSUME NEW f \in finds, NEW ids \in Lists, RefreshEndpointModels(f, ids) PROVE CachedFromRoute'
  <2>1. CASE db' = db
    BY <1>1, <2>1
  <2>2. CASE db' # db
    <3> DEFINE old == db.profiles[f.profile]
    <3>1. /\ f.profile \in Profile /\ Refreshes(f) /\ Saved(db') = Saved(db)
          /\ db'.profiles = [db.profiles EXCEPT ![f.profile] = RefreshedProfile(f, ids)]
      BY <1>3, <2>2, RefreshStep
    <3>2. /\ db.profiles \in [Profile -> {NoProfile} \cup SavedProfiles]
          /\ f.profile \in Saved(db) /\ f.revision = old.revision
      BY <3>1 DEF Typed, RowsOK, Rows, Refreshes
    <3>3. f.source = <<old.url, old.cred>>
      BY <3>2 DEF FindsOK
    <3>4. old \in SavedProfiles
      BY <3>2 DEF Saved
    <3>5. Fits(f.profile, RefreshedProfile(f, ids))
      BY <3>3, <3>4 DEF RefreshedProfile, SavedProfiles
    <3>6. \A q \in Saved(db') : Fits(q, db'.profiles[q])
      <4>1. SUFFICES ASSUME NEW q \in Saved(db) PROVE Fits(q, db'.profiles[q])
        BY <3>1
      <4> HIDE DEF Fits
      <4>2. CASE q = f.profile
        BY <3>1, <3>2, <3>5, <4>2
      <4>3. CASE q # f.profile
        BY <1>0, <3>1, <3>2, <4>3 DEF Saved
      <4> QED
        BY <4>2, <4>3
    <3> QED
      BY <3>6 DEF CachedFromRoute
  <2> QED
    BY <2>1, <2>2
<1> QED
  BY <1>1, <1>2, <1>3, ProfileChanges

\* The catalog in the rows changes only when a check saves the one it found.
LEMMA CatalogChanges ==
  ASSUME Typed, FindsOK, Next
  PROVE  \/ \E c \in Check : PersistCatalog(c)
         \/ db'.codex = db.codex /\ db'.discovered = db.discovered
<1>1. db \in Rows
  BY DEF Typed, RowsOK
<1>2. CASE Preferences
  <2>1. CASE \E s, fs : SaveModelSettings(s, fs)
    BY <1>1, <2>1 DEF Rows, SaveModelSettings
  <2>2. CASE (\E p : SaveStoryMemoryProvider(p)) \/ (\E t : SaveCodexTransport(t))
    BY <1>1, <2>2 DEF Rows, SaveStoryMemoryProvider, SaveCodexTransport
  <2> QED
    BY <1>2, <2>1, <2>2, PreferencesAre
<1>3. CASE Checks
  BY <1>3 DEF Checks, StartCheck, ReplaceServer, BeginCodexCheck, CheckFails, CheckInstalled, PublishCheck
<1>4. CASE CommitSave
  BY <1>4, CommitStep DEF Committed
<1>5. CASE \E f \in finds, ids \in Lists : RefreshEndpointModels(f, ids)
  BY <1>5, RefreshStep
<1>6. CASE Endpoints /\ ~CommitSave /\ ~(\E f \in finds, ids \in Lists : RefreshEndpointModels(f, ids))
  BY <1>6 DEF Endpoints, BeginSave, CleanNew, CleanOld, BeginDiscovery, CancelDiscovery
<1>7. CASE Crash
  BY <1>7 DEF Crash
<1> QED
  BY <1>2, <1>3, <1>4, <1>5, <1>6, <1>7 DEF Next

\* Only the connection check and a crash touch the runtime's connection.
LEMMA ChecksChange ==
  ASSUME Next
  PROVE  Checks \/ Crash \/ UNCHANGED <<codex, checks>>
<1>1. CASE Preferences
  BY <1>1, PreferencesAre DEF SaveModelSettings, SaveStoryMemoryProvider, SaveCodexTransport
<1>2. CASE Endpoints
  <2>1. CASE \E f \in finds : CancelDiscovery(f) \/ \E ids \in Lists : RefreshEndpointModels(f, ids)
    BY <2>1 DEF CancelDiscovery, RefreshEndpointModels
  <2>2. CASE CommitSave \/ CleanNew \/ CleanOld \/ \E p \in Profile : BeginDiscovery(p)
    BY <2>2 DEF CommitSave, CleanNew, CleanOld, BeginDiscovery
  <2>3. CASE \E p \in Profile, url \in Route, enabled \in BOOLEAN, manual \in Lists,
                change \in {"keep", "remove"} \cup Key : BeginSave(p, url, enabled, manual, change)
    BY <2>3 DEF BeginSave
  <2> QED
    BY <1>2, <2>1, <2>2, <2>3 DEF Endpoints
<1> QED
  BY <1>1, <1>2 DEF Next

\* One check at a time asks, and what is reported ready is the stored catalog.
LEMMA ChecksStep ==
  ASSUME Typed, FindsOK, ChecksOK, Next
  PROVE  ChecksOK'
<1> USE DEF CheckStep
<1>0. \A c \in Check : checks[c] \in CheckStates
  BY DEF ChecksOK
<1>1. CASE UNCHANGED <<codex, checks>> /\ db'.codex = db.codex /\ db'.discovered = db.discovered
  BY <1>1 DEF ChecksOK, Asking
<1>2. ASSUME NEW c \in Check, NEW r \in CheckStates, checks' = [checks EXCEPT ![c] = r],
             UNCHANGED codex, db'.codex = db.codex, db'.discovered = db.discovered,
             r.pc \in {"ask", "persist", "publish"} => Asking(c),
             r.pc = "publish" => db.discovered /\ db.codex = r.catalog
      PROVE  ChecksOK'
  <2>1. checks' \in [Check -> CheckStates]
    BY <1>2 DEF ChecksOK
  <2>2. \A d \in Check : Asking(d)' => Asking(d)
    BY <1>2 DEF ChecksOK, Asking
  <2>3. \A d \in Check : checks'[d].pc = "publish" => db.discovered /\ db.codex = checks'[d].catalog
    BY <1>2 DEF ChecksOK
  <2> QED
    BY <1>2, <2>1, <2>2, <2>3 DEF ChecksOK
<1>3. ASSUME NEW c \in Check, StartCheck(c) PROVE ChecksOK'
  <2>1. [pc |-> "replace", transport |-> db.transport] \in CheckStates
    BY DEF CheckStates, Typed, RowsOK, Rows
  <2> QED
    BY <1>2, <1>3, <2>1 DEF StartCheck
<1>4. ASSUME NEW c \in Check, ReplaceServer(c) PROVE ChecksOK'
  <2>1. checks[c] \in [pc : {"replace"}, transport : Transports]
    BY <1>0, <1>4 DEF ReplaceServer, CheckStates, Idle
  <2>2. /\ checks' = [checks EXCEPT ![c] = [checks[c] EXCEPT !.pc = "begin"]]
        /\ codex' = [codex EXCEPT !.server = FALSE] /\ db' = db
    BY <1>4 DEF ReplaceServer
  <2>3. /\ [checks[c] EXCEPT !.pc = "begin"] \in CheckStates
        /\ [checks[c] EXCEPT !.pc = "begin"].pc = "begin"
    BY <2>1 DEF CheckStates
  <2>4. checks' \in [Check -> CheckStates] /\ checks'[c].pc = "begin" /\ \A d \in Check : d # c => checks'[d] = checks[d]
    BY <2>2, <2>3 DEF ChecksOK
  <2>5. /\ codex' \in [checking : BOOLEAN, connection : Catalogs \cup {NoCatalog}, connected : BOOLEAN, server : BOOLEAN]
        /\ codex'.checking = codex.checking /\ codex'.connection = codex.connection
        /\ codex'.connected = codex.connected
    BY <2>2 DEF ChecksOK
  <2> QED
    BY <2>2, <2>4, <2>5 DEF ChecksOK, Asking
<1>5. ASSUME NEW c \in Check, BeginCodexCheck(c) PROVE ChecksOK'
  <2>1. checks[c] \in [pc : {"begin"}, transport : Transports] /\ db' = db
    BY <1>0, <1>5 DEF BeginCodexCheck, CheckStates, Idle
  <2>2. CASE codex.checking
    BY <1>2, <1>5, <2>1, <2>2 DEF BeginCodexCheck, CheckStates, Idle
  <2>3. CASE ~codex.checking
    <3>1. /\ checks' = [checks EXCEPT ![c] = [checks[c] EXCEPT !.pc = "ask"]]
          /\ codex' = [codex EXCEPT !.checking = TRUE, !.connection = NoCatalog, !.connected = FALSE]
      BY <1>5, <2>3 DEF BeginCodexCheck
    <3>2. [checks[c] EXCEPT !.pc = "ask"] \in CheckStates /\ [checks[c] EXCEPT !.pc = "ask"].pc = "ask"
      BY <2>1 DEF CheckStates
    <3>3. checks' \in [Check -> CheckStates] /\ checks'[c].pc = "ask" /\ \A d \in Check : d # c => checks'[d] = checks[d]
      BY <3>1, <3>2 DEF ChecksOK
    <3>4. \A d \in Check : ~Asking(d)
      BY <2>3 DEF ChecksOK
    <3>5. /\ codex' \in [checking : BOOLEAN, connection : Catalogs \cup {NoCatalog}, connected : BOOLEAN, server : BOOLEAN]
          /\ codex'.checking /\ ~codex'.connected
      BY <3>1 DEF ChecksOK
    <3> QED
      BY <2>1, <3>3, <3>4, <3>5 DEF ChecksOK, Asking
  <2> QED
    BY <2>2, <2>3
<1>6. ASSUME NEW c \in Check, Asking(c), EndCheck(c), db'.codex = db.codex \/ ~codex.connected
      PROVE  ChecksOK'
  <2>1. /\ codex' = [codex EXCEPT !.checking = FALSE, !.connection = NoCatalog, !.connected = FALSE]
        /\ checks' = [checks EXCEPT ![c] = Idle]
    BY <1>6 DEF EndCheck
  <2>2. checks' \in [Check -> CheckStates] /\ checks'[c].pc = "idle" /\ \A d \in Check : d # c => checks'[d] = checks[d]
    BY <2>1 DEF ChecksOK, CheckStates, Idle
  <2>3. \A d \in Check : d # c => ~Asking(d)
    BY <1>6 DEF ChecksOK
  <2>4. /\ codex' \in [checking : BOOLEAN, connection : Catalogs \cup {NoCatalog}, connected : BOOLEAN, server : BOOLEAN]
        /\ ~codex'.checking /\ ~codex'.connected
    BY <2>1 DEF ChecksOK
  <2> QED
    BY <2>2, <2>3, <2>4 DEF ChecksOK, Asking
<1>7. ASSUME NEW c \in Check, CheckFails(c) PROVE ChecksOK'
  BY <1>6, <1>7 DEF CheckFails, Asking
<1>8. ASSUME NEW c \in Check, NEW catalog \in Catalogs, CheckInstalled(c, catalog) PROVE ChecksOK'
  <2>1. checks[c] \in [pc : {"ask"}, transport : Transports]
    BY <1>0, <1>8 DEF CheckInstalled, CheckStates, Idle
  <2>2. [pc |-> "persist", transport |-> checks[c].transport, catalog |-> catalog] \in CheckStates
    BY <2>1 DEF CheckStates
  <2> QED
    BY <1>2, <1>8, <2>1, <2>2 DEF CheckInstalled, Asking
<1>9. ASSUME NEW c \in Check, PersistCatalog(c) PROVE ChecksOK'
  <2>1. checks[c] \in [pc : {"persist"}, transport : Transports, catalog : Catalogs]
    BY <1>0, <1>9 DEF PersistCatalog, CheckStates, Idle
  <2>2. Asking(c) /\ ~codex.connected /\ \A d \in Check : d # c => ~Asking(d)
    BY <2>1 DEF ChecksOK, Asking
  <2>3. PICK outcome : /\ db' = IF outcome = "failed" THEN db ELSE [db EXCEPT !.codex = checks[c].catalog, !.discovered = TRUE]
                       /\ AfterPersist(c, outcome = "saved")
    BY <1>9, Zenon DEF PersistCatalog
  <2>4. CASE outcome # "saved"
    BY <1>6, <2>2, <2>3, <2>4 DEF AfterPersist
  <2>5. CASE outcome = "saved"
    <3>1. /\ checks' = [checks EXCEPT ![c] = [checks[c] EXCEPT !.pc = "publish"]] /\ codex' = codex
          /\ db' = [db EXCEPT !.codex = checks[c].catalog, !.discovered = TRUE]
      BY <2>3, <2>5 DEF AfterPersist
    <3>2. db'.codex = checks[c].catalog /\ db'.discovered
      BY <3>1 DEF Typed, RowsOK, Rows
    <3>3. /\ [checks[c] EXCEPT !.pc = "publish"] \in CheckStates
          /\ [checks[c] EXCEPT !.pc = "publish"].pc = "publish"
          /\ [checks[c] EXCEPT !.pc = "publish"].catalog = checks[c].catalog
      BY <2>1 DEF CheckStates
    <3>4. /\ checks' \in [Check -> CheckStates] /\ checks'[c].pc = "publish" /\ checks'[c].catalog = checks[c].catalog
          /\ \A d \in Check : d # c => checks'[d] = checks[d]
      BY <3>1, <3>3 DEF ChecksOK
    <3> QED
      BY <2>2, <3>1, <3>2, <3>4 DEF ChecksOK, Asking
  <2> QED
    BY <2>4, <2>5
<1>10. ASSUME NEW c \in Check, PublishCheck(c) PROVE ChecksOK'
  <2>1. checks[c] \in [pc : {"publish"}, transport : Transports, catalog : Catalogs]
    BY <1>0, <1>10 DEF PublishCheck, CheckStates, Idle
  <2>2. Asking(c) /\ (\A d \in Check : d # c => ~Asking(d)) /\ db.discovered /\ db.codex = checks[c].catalog
    BY <2>1 DEF ChecksOK, Asking
  <2>3. /\ codex' = [checking |-> FALSE, connection |-> checks[c].catalog, connected |-> TRUE,
                     server |-> checks[c].transport = "server"]
        /\ checks' = [checks EXCEPT ![c] = Idle] /\ db' = db
    BY <1>10 DEF PublishCheck
  <2>4. checks' \in [Check -> CheckStates] /\ checks'[c].pc = "idle" /\ \A d \in Check : d # c => checks'[d] = checks[d]
    BY <2>3 DEF ChecksOK, CheckStates, Idle
  <2>5. /\ codex' \in [checking : BOOLEAN, connection : Catalogs \cup {NoCatalog}, connected : BOOLEAN, server : BOOLEAN]
        /\ ~codex'.checking /\ codex'.connection = checks[c].catalog
    BY <2>1, <2>3
  <2> QED
    BY <2>2, <2>3, <2>4, <2>5 DEF ChecksOK, Asking
<1>11. ASSUME Crash PROVE ChecksOK'
  BY <1>11 DEF Crash, ChecksOK, CheckStates, Idle, Asking
<1>12. CASE Checks
  BY <1>3, <1>4, <1>5, <1>7, <1>8, <1>9, <1>10, <1>12 DEF Checks
<1>13. CASE UNCHANGED <<codex, checks>>
  <2>1. CASE \E c \in Check : PersistCatalog(c)
    BY <1>9, <2>1
  <2> QED
    BY <1>1, <1>13, <2>1, CatalogChanges
<1> QED
  BY <1>11, <1>12, <1>13, ChecksChange

-----------------------------------------------------------------------------
\* The theorems.

\* The first rows are readable, and nothing is under way.
LEMMA InitInv == Init => Inv
<1> SUFFICES ASSUME Init PROVE Inv
  OBVIOUS
<1>1. Saved(db) = {} /\ db.profiles = [p \in Profile |-> NoProfile]
  BY DEF Init, Saved
<1>2. RowsOK(db)
  BY <1>1 DEF Init, RowsOK, Rows, Selections, Transports
<1>3. Referenced(db) = {}
  BY <1>1 DEF Referenced
<1>4. ChecksOK
  BY DEF Init, ChecksOK, CheckStates, Idle, Asking
<1> QED
  BY <1>1, <1>2, <1>3, <1>4 DEF Init, Inv, Typed, SaveOK, CountsOK, KeysOK, FindsOK, CachedFromRoute, Idle

\* Every step keeps the invariant.
LEMMA NextInv == Inv /\ [Next]_vars => Inv'
<1> SUFFICES ASSUME Inv, [Next]_vars PROVE Inv'
  OBVIOUS
<1>1. CASE Next
  BY <1>1, TypedStep, KeysStep, FindsStep, ChecksStep, CachedStep DEF Inv
<1>2. CASE UNCHANGED vars
  BY <1>2 DEF vars, Inv, Typed, SaveOK, CountsOK, KeysOK, FindsOK, ChecksOK, CachedFromRoute, Faultless, Asking
<1> QED
  BY <1>1, <1>2

\* The invariant holds throughout.
LEMMA InvHolds == Spec => []Inv
BY InitInv, NextInv, PTL DEF Spec

\* read_model_settings, read_endpoint_profiles, read_story_memory_settings and
\* provider_state refuse the stored rows exactly when the stored discovery has a
\* label over 256 bytes.
THEOREM SettingsTheorem == Spec => []SettingsReadable
<1>1. Inv => SettingsReadable
  BY RowsReadable DEF Inv, Typed, SettingsReadable
<1> QED
  BY <1>1, InvHolds, PTL

\* save_with_store never deletes a key that a profile refers to, and while no
\* step of a save failed it leaves no other key behind.
THEOREM KeysTheorem == Spec => []KeysKept
<1>1. Inv => KeysKept
  BY DEF Inv, KeysOK, KeysKept, Unlocked, Faultless
<1> QED
  BY <1>1, InvHolds, PTL

\* A late answer of refresh_endpoint_models is never cached under another route.
THEOREM CachedTheorem == Spec => []CachedFromRoute
<1>1. Inv => CachedFromRoute
  BY DEF Inv
<1> QED
  BY <1>1, InvHolds, PTL

\* A connection reported ready is the stored one, and what may be sent is a
\* selection the stored rows declare.
THEOREM ReadyTheorem == Spec => []ReadyIsDurable
<1>1. ASSUME Inv, Dispatch # "blocked" PROVE ValidateSelection(db, db.active)
  <2>1. db.active \in Selections /\ (codex.connected => db.codex = codex.connection)
    BY <1>1 DEF Inv, Typed, RowsOK, Rows, ChecksOK
  <2>2. CASE db.active.provider = "codex"
    <3>1. Supports(db.codex, db.active)
      BY <1>1, <2>1, <2>2 DEF Dispatch
    <3>2. KeyOf(db.active) = <<"codex", db.active.model>>
      BY <2>2 DEF KeyOf, Keyed
    <3> QED
      BY <3>1, <3>2 DEF Supports, ValidateSelection, CatalogWithEndpointsAndCodex, CodexModels, Keyed, DeclaredTraits
  <2>3. CASE db.active.provider # "codex"
    <3>1. db.active.trait = None
      BY <2>1, <2>3 DEF Selections
    <3>2. KeyOf(db.active) = MockModel \/ KeyOf(db.active)[1] \in Profile
      BY <2>1, <2>3 DEF Selections, KeyOf, Keyed, MockModel
    <3> QED
      BY <3>1, <3>2 DEF ValidateSelection, CatalogWithEndpointsAndCodex, Tombstones, Remembered
  <2> QED
    BY <2>2, <2>3
<1>2. Inv => ReadyIsDurable
  BY <1>1 DEF Inv, ChecksOK, ReadyIsDurable
<1> QED
  BY <1>2, InvHolds, PTL
=============================================================================
