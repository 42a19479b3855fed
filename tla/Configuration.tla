------------------------------ MODULE Configuration ------------------------------
(***************************************************************************)
(* config.yaml and the configuration in memory (api/routers/settings.py,    *)
(* stt_models.py, transcription_models.py), with what depends on them: the  *)
(* OpenAI key, the pipeline's copy, the automatic processing and the audio  *)
(* recovery.  One lock orders their requests; the activation of a speech    *)
(* model does not take it.  A configuration is cut down to the fields these *)
(* rules read.                                                              *)
(***************************************************************************)
EXTENDS Naturals

CONSTANTS
    Tabs,          \* clients that send one request at a time
    MaxRequests    \* bound of the requests

ASSUME ConfigurationAssumption == MaxRequests \in Nat /\ "free" \notin Tabs

VARIABLES
    savedSettings,        \* config.yaml
    config,       \* app.state.config
    pipelineStt,  \* the speech part of the pipeline's configuration
    key,          \* whether the keychain holds an OpenAI key
    lock,         \* openai_settings_mutation_lock: who holds it, or "free"
    tab,          \* the request of each client
    nightly,      \* AutoProcessingScheduler: its setting, loop and run
    overlapped,   \* history: an activation wrote next to another change
    requests      \* how many requests there were

configVars == <<savedSettings, config, pipelineStt, key, lock, tab, nightly, overlapped, requests>>

Providers == {"local", "openai"}
SpeechPaths == {"small", "large"}
Configs == [provider : Providers, model : SpeechPaths, auto : BOOLEAN]
SttOf(c) == [provider |-> c.provider, model |-> c.model]
NoRequest == [does |-> "nothing"]

\* The scheduler runs its loop iff it is enabled; `by` is whose run it is.
NightlyFor(c) == [enabled |-> c.auto, by |-> "nobody"]

ConfigInit ==
    /\ savedSettings \in Configs /\ config = savedSettings /\ pipelineStt = SttOf(savedSettings)
    /\ key \in BOOLEAN /\ (savedSettings.provider = "openai" => key)
    /\ lock = "free" /\ tab = [t \in Tabs |-> NoRequest]
    /\ nightly = NightlyFor(savedSettings)
    /\ overlapped = FALSE /\ requests = 0

Ends(t) == tab' = [tab EXCEPT ![t] = NoRequest] /\ lock' = "free"

\* A request that asks for the lock; a recovery and a run are refused at once
\* by what they already see.
AskLocked(t) ==
    /\ tab[t] = NoRequest /\ requests < MaxRequests /\ requests' = requests + 1
    /\ \E what \in {"settings", "put key", "delete key", "recover", "run now"} :
          tab' = [tab EXCEPT ![t] = [does |-> what, at |-> "waits"]]
    /\ UNCHANGED <<savedSettings, config, pipelineStt, key, lock, nightly, overlapped>>

Enters(t, what) == tab[t].does = what /\ tab[t].at = "waits" /\ lock = "free" /\ lock' = t

\* Mutant: OpenAI becomes the default without a look for its key.
KeyNotAsked(from, to) == TRUE

\* _update_settings_locked: its checks.
Acceptable(from, to) == to.provider = "openai" => key

Writing(t) == tab[t].does \in {"settings", "activate"} /\ tab[t].at = "writes"

UnderWay(t) == tab[t].does \in {"settings", "activate"} /\ tab[t].at \in {"writes", "written"}

\* A change that starts while another is under way, one of them an activation.
Meets(t, what) ==
    \E other \in Tabs \ {t} : UnderWay(other) /\ "activate" \in {tab[other].does, what}

\* The file is read again, the configuration as it was at the start is kept
\* for later; the write is a thread.
StartSettings(t) ==
    /\ Enters(t, "settings")
    /\ \E to \in Configs :
          /\ to # config /\ to.model = config.model
          /\ Acceptable(config, to)
          /\ tab' = [tab EXCEPT ![t] = [does |-> "settings", at |-> "writes", from |-> config, to |-> to,
                                        text |-> [to EXCEPT !.model = savedSettings.model,
                                           !.provider = IF to.provider = config.provider
                                                        THEN savedSettings.provider ELSE @,
                                           !.auto = IF to.auto = config.auto THEN savedSettings.auto ELSE @]]]
    /\ overlapped' = (overlapped \/ Meets(t, "settings"))
    /\ UNCHANGED <<savedSettings, config, pipelineStt, key, nightly, requests>>

RefuseSettings(t) ==
    /\ Enters(t, "settings")
    /\ tab' = [tab EXCEPT ![t] = [does |-> "refused"]]
    /\ UNCHANGED <<savedSettings, config, pipelineStt, key, nightly, overlapped, requests>>

\* atomic_write_text
FileReplaced(t) ==
    /\ Writing(t)
    /\ savedSettings' = tab[t].text
    /\ tab' = [tab EXCEPT ![t].at = "written"]
    /\ UNCHANGED <<config, pipelineStt, key, lock, nightly, overlapped, requests>>

FileFails(t) ==
    /\ Writing(t)
    /\ IF tab[t].does = "settings" THEN Ends(t)
       ELSE tab' = [tab EXCEPT ![t] = NoRequest] /\ UNCHANGED lock
    /\ UNCHANGED <<savedSettings, config, pipelineStt, key, nightly, overlapped, requests>>

\* The schedulers get the new configuration while the lock is still held.  A
\* loop that is stopped takes its run with it.
SettingsApplied(t) ==
    /\ tab[t].does = "settings" /\ tab[t].at = "written"
    /\ LET from == tab[t].from  to == tab[t].to IN
       /\ config' = to
       /\ pipelineStt' = IF to.provider = from.provider THEN pipelineStt ELSE SttOf(to)
       /\ nightly' = IF to.auto = from.auto THEN nightly
                     ELSE [enabled |-> to.auto,
                           by |-> IF nightly.by = "loop" THEN "nobody" ELSE nightly.by]
    /\ Ends(t)
    /\ UNCHANGED <<savedSettings, key, overlapped, requests>>

Released(t) ==
    /\ tab[t].does = "refused" /\ Ends(t)
    /\ UNCHANGED <<savedSettings, config, pipelineStt, key, nightly, overlapped, requests>>

------------------------------------------------------------------------------
(* activate_stt_model: the same read, write and update, without the lock. *)

Activate(t) ==
    /\ tab[t] = NoRequest /\ requests < MaxRequests /\ requests' = requests + 1
    /\ \E path \in SpeechPaths :
          tab' = [tab EXCEPT ![t] = [does |-> "activate", at |-> "writes", from |-> config,
                                     to |-> [config EXCEPT !.model = path],
                                     text |-> [savedSettings EXCEPT !.model = path]]]
    /\ overlapped' = (overlapped \/ Meets(t, "activate"))
    /\ UNCHANGED <<savedSettings, config, pipelineStt, key, lock, nightly>>

Activated(t) ==
    /\ tab[t].does = "activate" /\ tab[t].at = "written"
    /\ config' = tab[t].to /\ pipelineStt' = SttOf(tab[t].to)
    /\ tab' = [tab EXCEPT ![t] = NoRequest]
    /\ UNCHANGED <<savedSettings, key, lock, nightly, overlapped, requests>>

------------------------------------------------------------------------------
(* put_openai_credential, delete_openai_credential *)

\* Mutant: the key goes whatever the default is.
DeletesAnyKey == TRUE

KeyIsFree == config.provider # "openai"

ChangeKey(t) ==
    /\ \/ Enters(t, "put key")
       \/ Enters(t, "delete key") /\ KeyIsFree
    /\ tab' = [tab EXCEPT ![t].at = "changes"]
    /\ UNCHANGED <<savedSettings, config, pipelineStt, key, nightly, overlapped, requests>>

RefuseKey(t) ==
    /\ Enters(t, "delete key") /\ ~KeyIsFree
    /\ tab' = [tab EXCEPT ![t] = [does |-> "refused"]]
    /\ UNCHANGED <<savedSettings, config, pipelineStt, key, nightly, overlapped, requests>>

KeyChanged(t) ==
    /\ tab[t].does \in {"put key", "delete key"} /\ tab[t].at = "changes"
    /\ key' \in {key, tab[t].does = "put key"}
    /\ Ends(t)
    /\ UNCHANGED <<savedSettings, config, pipelineStt, nightly, overlapped, requests>>

------------------------------------------------------------------------------
(* recover_unregistered_audio and the automatic processing *)

Recovering(t) == tab[t].does = "recover" /\ tab[t].at = "scans"

StartRecovery(t) ==
    /\ Enters(t, "recover")
    /\ tab' = [tab EXCEPT ![t] = IF config.auto \/ nightly.by # "nobody" THEN [does |-> "refused"]
                                 ELSE [does |-> "recover", at |-> "scans"]]
    /\ UNCHANGED <<savedSettings, config, pipelineStt, key, nightly, overlapped, requests>>

RecoveryEnds(t) ==
    /\ Recovering(t) /\ Ends(t)
    /\ UNCHANGED <<savedSettings, config, pipelineStt, key, nightly, overlapped, requests>>

\* run_auto_processing_now: the run is reserved under the lock and goes on
\* without it.
RunNow(t) ==
    /\ Enters(t, "run now")
    /\ nightly' = IF nightly.by = "nobody" THEN [nightly EXCEPT !.by = "request"] ELSE nightly
    /\ tab' = [tab EXCEPT ![t] = [does |-> "refused"]]
    /\ UNCHANGED <<savedSettings, config, pipelineStt, key, overlapped, requests>>

NightlyRun ==
    /\ nightly.enabled /\ nightly.by = "nobody"
    /\ nightly' = [nightly EXCEPT !.by = "loop"]
    /\ UNCHANGED <<savedSettings, config, pipelineStt, key, lock, tab, overlapped, requests>>

NightlyEnds ==
    /\ nightly.by # "nobody"
    /\ nightly' = [nightly EXCEPT !.by = "nobody"]
    /\ UNCHANGED <<savedSettings, config, pipelineStt, key, lock, tab, overlapped, requests>>

\* A restart reads the file.
Reboot ==
    /\ config' = savedSettings /\ pipelineStt' = SttOf(savedSettings)
    /\ nightly' = NightlyFor(savedSettings)
    /\ lock' = "free" /\ tab' = [t \in Tabs |-> NoRequest]
    /\ UNCHANGED <<savedSettings, key, overlapped, requests>>

ConfigNext ==
    \/ \E t \in Tabs :
          \/ AskLocked(t) \/ StartSettings(t) \/ RefuseSettings(t) \/ SettingsApplied(t)
          \/ FileReplaced(t) \/ FileFails(t) \/ Released(t)
          \/ Activate(t) \/ Activated(t)
          \/ ChangeKey(t) \/ RefuseKey(t) \/ KeyChanged(t)
          \/ StartRecovery(t) \/ RecoveryEnds(t) \/ RunNow(t)
    \/ NightlyRun \/ NightlyEnds \/ Reboot

ConfigSpec == ConfigInit /\ [][ConfigNext]_configVars

------------------------------------------------------------------------------

\* OpenAI is the default only while its key is there: update_settings
\* "keeps the invariant of the settings and the OpenAI key".
KeyOfDefault == config.provider = "openai" => key

\* As long as no activation met another change: the default provider has its
\* key, the recovery never runs next to an automatic run, which it refuses and
\* is refused by, and at rest the file, the memory and the pipeline agree.
ConfigurationHolds ==
    overlapped \/
      /\ KeyOfDefault
      /\ \A t \in Tabs : Recovering(t) => nightly.by = "nobody"
      /\ (\A t \in Tabs : ~UnderWay(t)) =>
            config = savedSettings /\ pipelineStt = SttOf(savedSettings) /\ nightly.enabled = config.auto
================================================================================
