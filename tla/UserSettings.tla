------------------------------ MODULE UserSettings ------------------------------
(***************************************************************************)
(* core/user_settings.py: the vocabulary (and likewise the prompts) in a    *)
(* JSON file with a backup and a cache in memory.  Every operation loads    *)
(* through the cache, and the editing ones change the very object the cache *)
(* holds before they save it.  The requests run one after the other; the    *)
(* faults are a damaged file, a refused write or lock, and a crash.         *)
(***************************************************************************)
EXTENDS Naturals

CONSTANTS
    Terms,               \* entries of the vocabulary
    MaxSettingChanges,   \* bound of the changes
    MaxSettingFaults     \* bound of the faults

ASSUME UserSettingsAssumption == MaxSettingChanges \in Nat /\ MaxSettingFaults \in Nat

VARIABLES
    store,      \* vocabulary.json: [kind, terms, stamp]
    backup,     \* vocabulary.json.bak
    cache,      \* the cache entry: its data and the stamp it was made for
    kept,       \* history: what the last successful request left
    before,     \* history: and what it found on the disk
    faults,     \* history: the kinds of faults there were
    stamps,     \* modification times given so far
    changes     \* changes so far

settingVars == <<store, backup, cache, kept, before, faults, stamps, changes>>

NoFile == [kind |-> "none", terms |-> {}]
Damaged == [kind |-> "damaged", terms |-> {}]
Whole(terms) == [kind |-> "whole", terms |-> terms]
Stamped(file, n) == [file |-> file, stamp |-> n]
Uncached == [valid |-> FALSE, terms |-> {}, stamp |-> 0]
Entry(terms, n) == [valid |-> TRUE, terms |-> terms, stamp |-> n]

SettingInit ==
    /\ store = Stamped(NoFile, 0) /\ backup = NoFile
    /\ cache = Uncached
    /\ kept = {} /\ before = {} /\ faults = 0 /\ stamps = 0 /\ changes = 0

CacheHit == cache.valid /\ store.file.kind # "none" /\ cache.stamp = store.stamp

\* Mutant: a damaged file gives the defaults at once.
DefaultsAtOnce == {}

\* _recover_from_backup: the damaged file was set aside.
Recovered == IF backup.kind = "whole" THEN backup.terms ELSE {}

\* _load_generic without a cache hit: the terms, which are on the disk after.
OnDisk ==
    CASE store.file.kind = "whole" -> store.file.terms
      [] store.file.kind = "damaged" -> Recovered
      [] OTHER -> {}

Loaded == IF CacheHit THEN cache.terms ELSE OnDisk

\* A load puts a missing or damaged file in order and fills the cache.
LoadedStore ==
    IF CacheHit \/ store.file.kind = "whole" THEN store
    ELSE Stamped(Whole(OnDisk), stamps + 1)

Stamps(n) == stamps' = IF n > stamps THEN n ELSE stamps

\* get_vocabulary, build_corrector_snapshot, build_summarizer_system_prompt
LoadSettings ==
    /\ ~CacheHit
    /\ store' = LoadedStore
    /\ Stamps(store'.stamp)
    /\ cache' = Entry(Loaded, store'.stamp)
    /\ UNCHANGED <<backup, kept, before, faults, changes>>

\* add_vocabulary_term, update_vocabulary_term, delete_vocabulary_term and
\* reset_vocabulary_to_default: what they save.
Edits(terms) ==
    {terms \cup {t} : t \in Terms \ terms} \cup {terms \ {t} : t \in terms} \cup {{}}

\* _save_generic: backup, atomic write, cache.
SaveSettings ==
    /\ changes < MaxSettingChanges /\ changes' = changes + 1
    /\ \E terms \in Edits(Loaded) :
          /\ backup' = LoadedStore.file
          /\ LET n == LoadedStore.stamp + 1 IN
             /\ store' = Stamped(Whole(terms), n)
             /\ Stamps(n)
             /\ cache' = Entry(terms, n)
          /\ kept' = terms /\ before' = LoadedStore.file.terms
    /\ UNCHANGED faults

SettingFault == faults < MaxSettingFaults /\ faults' = faults + 1

\* The lock timed out or the write failed: the cached object stays changed.
SaveRefused ==
    /\ SettingFault /\ changes < MaxSettingChanges /\ changes' = changes + 1
    /\ store' = LoadedStore /\ Stamps(store'.stamp)
    /\ \E terms \in Edits(Loaded) :
          /\ cache' = Entry(terms, store'.stamp)
          /\ backup' \in {backup, store'.file}
    /\ UNCHANGED <<kept, before>>

\* A crash in the middle of it, its copy to .bak included.
SaveCrashes ==
    /\ SettingFault /\ changes < MaxSettingChanges /\ changes' = changes + 1
    /\ store' = LoadedStore /\ Stamps(store'.stamp)
    /\ backup' \in {store'.file, Damaged}
    /\ cache' = Uncached
    /\ UNCHANGED <<kept, before>>

\* A hand edit or a bad disk, and a crash of the recovery after it.
FileDamaged ==
    /\ SettingFault /\ store.file.kind = "whole"
    /\ store' = Stamped(Damaged, stamps + 1) /\ stamps' = stamps + 1
    /\ UNCHANGED <<backup, cache, kept, before, changes>>

RecoveryCrashes ==
    /\ SettingFault /\ store.file.kind = "damaged" /\ ~CacheHit
    /\ store' = Stamped(NoFile, 0) /\ cache' = Uncached
    /\ UNCHANGED <<backup, kept, before, stamps, changes>>

\* A restart, or the 60 seconds after which the file is read again.
CacheAges ==
    /\ cache.valid /\ cache' = Uncached
    /\ UNCHANGED <<store, backup, kept, before, faults, stamps, changes>>

SettingNext ==
    \/ LoadSettings \/ SaveSettings \/ SaveRefused \/ SaveCrashes
    \/ FileDamaged \/ RecoveryCrashes \/ CacheAges

SettingSpec == SettingInit /\ [][SettingNext]_settingVars

------------------------------------------------------------------------------

\* One fault costs at most the last change: what is on the disk, or comes back
\* from the backup, is what the last successful request left or found.
OneFaultKeepsSettings == faults <= 1 => OnDisk \in {kept, before}
================================================================================
