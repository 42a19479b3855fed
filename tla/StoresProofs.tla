---------------------------- MODULE StoresProofs -----------------------------
(*****************************************************************************)
(* Proofs about what is stored, for any requests, faults, edits and crashes  *)
(* and any number of concurrent writers: the settings file with the memory   *)
(* it is loaded into, the vocabulary with its backup, every file that is     *)
(* written durably, the wiki, and the recordings, from the quality gate to   *)
(* their removal. ServicesProofs uses the last lemmas of each part.          *)
(*****************************************************************************)
EXTENDS Configuration, UserSettings, DurableFile, Wiki, CloudTranscription, Lifecycle,
        AudioQuality, FiniteSetTheorems, SequenceTheorems, TLAPS

------------------------------------------------------------------------------
(* The settings: file, memory and key agree, or a request is about to see to it. *)

Waiting == [does : {"settings", "put key", "delete key", "recover", "run now"}, at : {"waits"}]
ChangeRequests ==
    [does : {"settings", "activate"}, at : {"writes", "written"},
     from : Configs, to : Configs, text : Configs]

KeyChanges == [does : {"put key", "delete key"}, at : {"changes"}]
Scans == [does : {"recover"}, at : {"scans"}]

TabRequests ==
    {NoRequest, [does |-> "refused"]} \cup Waiting \cup ChangeRequests \cup KeyChanges \cup Scans

ConfigTyped ==
    /\ savedSettings \in Configs /\ config \in Configs
    /\ key \in BOOLEAN /\ overlapped \in BOOLEAN
    /\ nightly \in [enabled : BOOLEAN, by : {"nobody", "loop", "request"}]
    /\ tab \in [Tabs -> TabRequests]

\* A request past its wait holds the lock, an activation never does.
Locked(request) ==
    \/ request.does = "refused"
    \/ request.does \in {"settings", "put key", "delete key", "recover"} /\ request.at # "waits"

ConfigLockInv == \A t \in Tabs : Locked(tab[t]) => lock = t

\* A change under way starts from the configuration as it is, and gives its fields.
ConfigChangeInv(t) ==
    UnderWay(t) =>
        /\ tab[t].from = config /\ tab[t].text = tab[t].to
        /\ tab[t].at = "written" => savedSettings = tab[t].to
        /\ tab[t].does = "settings" =>
              tab[t].to.model = config.model /\ (tab[t].to.provider = "openai" => key)
        /\ tab[t].does = "activate" =>
              tab[t].to.provider = config.provider /\ tab[t].to.auto = config.auto

DeletingKey(t) == tab[t].does = "delete key" /\ tab[t].at = "changes"
Replaced(t) == UnderWay(t) /\ tab[t].at = "written"

ConfigAgreed ==
    /\ pipelineStt = SttOf(config) /\ nightly.enabled = config.auto
    /\ KeyOfDefault
    /\ \A t \in Tabs : ConfigChangeInv(t)
    /\ \A t, s \in Tabs : UnderWay(t) /\ UnderWay(s) => t = s
    /\ (\A t \in Tabs : ~Replaced(t)) => savedSettings = config
    /\ \A t \in Tabs : Recovering(t) => nightly.by = "nobody" /\ ~config.auto
    /\ \A t \in Tabs : DeletingKey(t) => config.provider # "openai"

ConfigInv == ConfigTyped /\ ConfigLockInv /\ (overlapped \/ ConfigAgreed)

\* What a tab asks for changes: the other tabs stay.
LEMMA TabIs ==
    ASSUME ConfigTyped, NEW t \in Tabs, NEW request \in TabRequests,
           tab' = [tab EXCEPT ![t] = request]
    PROVE  /\ tab' \in [Tabs -> TabRequests] /\ tab'[t] = request
           /\ \A s \in Tabs \ {t} : tab'[s] = tab[s]
  BY DEF ConfigTyped

\* The kinds of request, by what they do and how far they are.
LEMMA RequestKinds ==
    ASSUME NEW request \in TabRequests
    PROVE  /\ request.does = "nothing" \/ request.does = "refused" \/ request \in Waiting
              \/ request \in ChangeRequests \/ request \in KeyChanges \/ request \in Scans
           /\ request \in Waiting => request.at = "waits"
           /\ request \in KeyChanges =>
                 request.at = "changes" /\ request.does \in {"put key", "delete key"}
           /\ request \in Scans => request.at = "scans" /\ request.does = "recover"
           /\ request \in ChangeRequests => request.at \in {"writes", "written"}
  <1>1. \/ request = NoRequest \/ request = [does |-> "refused"] \/ request \in Waiting
        \/ request \in ChangeRequests \/ request \in KeyChanges \/ request \in Scans
    BY DEF TabRequests
  <1>2. NoRequest.does = "nothing" /\ [does |-> "refused"].does = "refused"
    BY DEF NoRequest
  <1>3. /\ request \in Waiting => request.at = "waits"
        /\ request \in KeyChanges =>
              request.at = "changes" /\ request.does \in {"put key", "delete key"}
        /\ request \in Scans => request.at = "scans" /\ request.does = "recover"
        /\ request \in ChangeRequests => request.at \in {"writes", "written"}
    BY DEF Waiting, ChangeRequests, KeyChanges, Scans
  <1> QED
    BY <1>1, <1>2, <1>3

\* One client's request changes while the lock is its own, or stays where it is.
LEMMA LockKept ==
    ASSUME ConfigTyped, ConfigLockInv, NEW t \in Tabs, NEW request \in TabRequests,
           tab' = [tab EXCEPT ![t] = request],
           Locked(request) => lock' = t,
           lock' = lock \/ lock = t \/ lock = "free"
    PROVE  ConfigLockInv'
  <1>1. /\ tab'[t] = request /\ \A s \in Tabs \ {t} : tab'[s] = tab[s]
    BY TabIs
  <1>2. ASSUME NEW s \in Tabs, s # t, Locked(tab[s]) PROVE lock' = s
    BY <1>2, ConfigurationAssumption DEF ConfigLockInv
  <1> QED
    BY <1>1, <1>2 DEF ConfigLockInv

\* A request that is no change of the configuration before or after.
LEMMA QuietKept ==
    ASSUME ConfigInv, NEW t \in Tabs, NEW request \in TabRequests,
           tab' = [tab EXCEPT ![t] = request],
           UNCHANGED <<savedSettings, config, pipelineStt, overlapped>>,
           Locked(request) => lock' = t,
           lock' = lock \/ lock = t \/ lock = "free",
           ~UnderWay(t),
           ~(request.does \in {"settings", "activate"} /\ request.at \in {"writes", "written"}),
           key' \in BOOLEAN, nightly' \in [enabled : BOOLEAN, by : {"nobody", "loop", "request"}],
           nightly'.enabled = nightly.enabled,
           request.does = "recover" /\ request.at = "scans" =>
              nightly'.by = "nobody" /\ ~config.auto,
           request.does = "delete key" /\ request.at = "changes" => config.provider # "openai",
           ConfigAgreed => KeyOfDefault',
           \A s \in Tabs : Recovering(s) /\ s # t => nightly'.by = nightly.by,
           \A s \in Tabs : UnderWay(s) /\ tab[s].does = "settings" => key' = key
    PROVE  ConfigInv'
  <1>1. ConfigTyped /\ ConfigLockInv
    BY DEF ConfigInv
  <1>2. /\ tab' \in [Tabs -> TabRequests] /\ tab'[t] = request
        /\ \A s \in Tabs \ {t} : tab'[s] = tab[s]
    BY <1>1, TabIs
  <1>3. ConfigLockInv'
    BY <1>1, LockKept
  <1>4. ConfigTyped'
    BY <1>1, <1>2 DEF ConfigTyped
  <1>5. ASSUME ConfigAgreed PROVE ConfigAgreed'
    <2>1. /\ ~UnderWay(t)' /\ \A s \in Tabs : s # t => UnderWay(s)' = UnderWay(s)
          /\ \A s \in Tabs : UnderWay(s)' => UnderWay(s) /\ s # t /\ tab'[s] = tab[s]
      BY <1>2 DEF UnderWay
    <2>2. \A s \in Tabs : ConfigChangeInv(s)'
      <3> SUFFICES ASSUME NEW s \in Tabs, UnderWay(s)' PROVE ConfigChangeInv(s)'
        BY DEF ConfigChangeInv
      <3>1. UnderWay(s) /\ tab'[s] = tab[s] /\ ConfigChangeInv(s)
        BY <1>5, <2>1 DEF ConfigAgreed
      <3>2. tab[s].does = "settings" /\ tab[s].to.provider = "openai" => key'
        BY <3>1 DEF ConfigChangeInv
      <3> QED
        BY <3>1, <3>2 DEF ConfigChangeInv
    <2>3. \A s, r \in Tabs : UnderWay(s)' /\ UnderWay(r)' => s = r
      BY <1>5, <2>1 DEF ConfigAgreed
    <2>4. (\A s \in Tabs : ~Replaced(s)') => savedSettings' = config'
      <3>1. \A s \in Tabs : Replaced(s) => Replaced(s)'
        BY <1>2, <2>1 DEF Replaced
      <3> QED
        BY <1>5, <3>1 DEF ConfigAgreed
    <2>5. \A s \in Tabs : Recovering(s)' => nightly'.by = "nobody" /\ ~config'.auto
      <3> SUFFICES ASSUME NEW s \in Tabs, Recovering(s)'
                   PROVE  nightly'.by = "nobody" /\ ~config'.auto
        OBVIOUS
      <3>1. CASE s = t
        BY <1>2, <3>1 DEF Recovering
      <3>2. CASE s # t
        BY <1>2, <1>5, <3>2 DEF ConfigAgreed, Recovering
      <3> QED
        BY <3>1, <3>2
    <2>6. \A s \in Tabs : DeletingKey(s)' => config'.provider # "openai"
      <3> SUFFICES ASSUME NEW s \in Tabs, DeletingKey(s)' PROVE config'.provider # "openai"
        OBVIOUS
      <3>1. CASE s = t
        BY <1>2, <3>1 DEF DeletingKey
      <3>2. CASE s # t
        BY <1>2, <1>5, <3>2 DEF ConfigAgreed, DeletingKey
      <3> QED
        BY <3>1, <3>2
    <2> QED
      BY <1>5, <2>2, <2>3, <2>4, <2>5, <2>6 DEF ConfigAgreed
  <1> QED
    BY <1>3, <1>4, <1>5 DEF ConfigInv

\* The steps of requests that change neither the file nor the configuration.
LEMMA QuietStepsKeep ==
    ASSUME ConfigInv, NEW t \in Tabs,
           \/ AskLocked(t) \/ RefuseSettings(t) \/ Released(t) \/ ChangeKey(t) \/ RefuseKey(t)
           \/ StartRecovery(t) \/ RecoveryEnds(t)
    PROVE  ConfigInv'
  <1>1. /\ UNCHANGED <<savedSettings, config, pipelineStt, overlapped, key, nightly>>
        /\ ConfigTyped /\ ConfigLockInv /\ tab[t] \in TabRequests
        /\ key \in BOOLEAN
        /\ nightly \in [enabled : BOOLEAN, by : {"nobody", "loop", "request"}]
    BY DEF AskLocked, RefuseSettings, Released, ChangeKey, RefuseKey, StartRecovery,
           RecoveryEnds, ConfigInv, ConfigTyped
  <1>2. PICK request \in TabRequests :
           /\ tab' = [tab EXCEPT ![t] = request]
           /\ Locked(request) => lock' = t
           /\ lock' = lock \/ lock = t \/ lock = "free"
           /\ ~UnderWay(t)
           /\ ~(request.does \in {"settings", "activate"} /\ request.at \in {"writes", "written"})
           /\ request.does = "recover" /\ request.at = "scans" =>
                 nightly.by = "nobody" /\ ~config.auto
           /\ request.does = "delete key" /\ request.at = "changes" => config.provider # "openai"
    <2>1. CASE AskLocked(t)
      <3>1. PICK what \in {"settings", "put key", "delete key", "recover", "run now"} :
               tab' = [tab EXCEPT ![t] = [does |-> what, at |-> "waits"]]
        BY <2>1 DEF AskLocked
      <3> DEFINE request == [does |-> what, at |-> "waits"]
      <3>2. request \in TabRequests /\ request.does = what /\ request.at = "waits"
        BY DEF TabRequests, Waiting
      <3>3. tab[t].does = "nothing" /\ lock' = lock
        <4>1. tab[t] = NoRequest /\ lock' = lock
          BY <2>1 DEF AskLocked
        <4>2. NoRequest.does = "nothing"
          BY DEF NoRequest
        <4> QED
          BY <4>1, <4>2
      <3>4. tab' = [tab EXCEPT ![t] = request]
        BY <3>1
      <3> HIDE DEF request
      <3>5. ~UnderWay(t) /\ ~Locked(request)
        BY <3>2, <3>3 DEF Locked, UnderWay
      <3>6. request.at # "writes" /\ request.at # "written" /\ request.at # "scans"
            /\ request.at # "changes"
        BY <3>2
      <3>7. /\ tab' = [tab EXCEPT ![t] = request]
            /\ Locked(request) => lock' = t
            /\ lock' = lock \/ lock = t \/ lock = "free"
            /\ ~UnderWay(t)
        BY <3>3, <3>4, <3>5
      <3>8. /\ ~(request.does \in {"settings", "activate"} /\ request.at \in {"writes", "written"})
            /\ ~(request.does = "recover" /\ request.at = "scans")
            /\ ~(request.does = "delete key" /\ request.at = "changes")
        BY <3>6
      <3> QED
        BY <3>2, <3>7, <3>8
    <2>2. CASE RefuseSettings(t) \/ RefuseKey(t)
      <3>1. [does |-> "refused"] \in TabRequests
        BY DEF TabRequests
      <3> QED
        BY <2>2, <3>1 DEF RefuseSettings, RefuseKey, Enters, Locked, UnderWay
    <2>3. CASE Released(t) \/ RecoveryEnds(t)
      <3>1. NoRequest \in TabRequests
        BY DEF TabRequests
      <3>2. lock = t
        BY <1>1, <2>3 DEF Released, RecoveryEnds, Recovering, ConfigLockInv, Locked
      <3> QED
        BY <2>3, <3>1, <3>2 DEF Released, RecoveryEnds, Recovering, Ends, Locked, UnderWay,
                                NoRequest
    <2>4. CASE ChangeKey(t)
      <3>1. /\ tab[t].does \in {"put key", "delete key"} /\ tab[t].at = "waits"
            /\ tab[t].does = "delete key" => config.provider # "openai"
            /\ lock = "free" /\ lock' = t
            /\ tab' = [tab EXCEPT ![t].at = "changes"]
        BY <2>4 DEF ChangeKey, Enters, KeyIsFree
      <3>2. tab[t] \in Waiting
        BY <1>1, <3>1, RequestKinds
      <3> DEFINE request == [tab[t] EXCEPT !.at = "changes"]
      <3>3. request \in KeyChanges /\ request.does = tab[t].does /\ request.at = "changes"
        BY <3>1, <3>2 DEF Waiting, KeyChanges
      <3>4. tab' = [tab EXCEPT ![t] = request]
        BY <1>1, <3>1 DEF ConfigTyped
      <3> HIDE DEF request
      <3>5. request \in TabRequests
        BY <3>3 DEF TabRequests
      <3> QED
        BY <3>1, <3>3, <3>4, <3>5 DEF Locked, UnderWay
    <2>5. CASE StartRecovery(t)
      <3>1. /\ tab[t].at = "waits" /\ lock = "free" /\ lock' = t
        BY <2>5 DEF StartRecovery, Enters
      <3>2. CASE config.auto \/ nightly.by # "nobody"
        <4>1. tab' = [tab EXCEPT ![t] = [does |-> "refused"]]
          BY <2>5, <3>2 DEF StartRecovery
        <4>2. [does |-> "refused"] \in TabRequests
          BY DEF TabRequests
        <4> QED
          BY <3>1, <4>1, <4>2 DEF Locked, UnderWay
      <3>3. CASE ~(config.auto \/ nightly.by # "nobody")
        <4>1. tab' = [tab EXCEPT ![t] = [does |-> "recover", at |-> "scans"]]
          BY <2>5, <3>3 DEF StartRecovery
        <4>2. [does |-> "recover", at |-> "scans"] \in TabRequests
          BY DEF TabRequests, Scans
        <4> QED
          BY <3>1, <3>3, <4>1, <4>2 DEF Locked, UnderWay
      <3> QED
        BY <3>2, <3>3
    <2> QED
      BY <2>1, <2>2, <2>3, <2>4, <2>5
  <1>3. ConfigAgreed => KeyOfDefault'
    BY <1>1 DEF ConfigAgreed, KeyOfDefault
  <1>4. key' \in BOOLEAN /\ nightly' \in [enabled : BOOLEAN, by : {"nobody", "loop", "request"}]
    BY <1>1
  <1>5. \A s \in Tabs : nightly'.by = nightly.by /\ nightly'.enabled = nightly.enabled /\ key' = key
    BY <1>1
  <1> QED
    BY <1>1, <1>2, <1>3, <1>4, <1>5, QuietKept

\* The key is put or deleted, the latter only of a provider that is not the default.
LEMMA KeyChangedKeeps ==
    ASSUME ConfigInv, NEW t \in Tabs, KeyChanged(t)
    PROVE  ConfigInv'
  <1>1. /\ UNCHANGED <<savedSettings, config, pipelineStt, overlapped, nightly>>
        /\ ConfigTyped /\ ConfigLockInv
        /\ nightly' \in [enabled : BOOLEAN, by : {"nobody", "loop", "request"}]
        /\ tab' = [tab EXCEPT ![t] = NoRequest] /\ lock' = "free"
        /\ tab[t].does \in {"put key", "delete key"} /\ tab[t].at = "changes"
    BY DEF KeyChanged, Ends, ConfigInv, ConfigTyped
  <1>2. NoRequest \in TabRequests /\ NoRequest.does = "nothing"
    BY DEF TabRequests, NoRequest
  <1>3. Locked(tab[t]) /\ lock = t
    BY <1>1 DEF Locked, ConfigLockInv
  <1>4. key' \in BOOLEAN
    <2>1. (tab[t].does = "put key") \in BOOLEAN
      OBVIOUS
    <2> QED
      BY <1>1, <2>1 DEF KeyChanged, ConfigTyped
  <1>5. ConfigAgreed => KeyOfDefault'
    <2> SUFFICES ASSUME ConfigAgreed, config.provider = "openai" PROVE key'
      BY <1>1 DEF KeyOfDefault
    <2>1. tab[t].does = "put key"
      BY <1>1 DEF ConfigAgreed, DeletingKey
    <2>2. key
      BY DEF ConfigAgreed, KeyOfDefault
    <2> QED
      BY <2>1, <2>2 DEF KeyChanged
  <1>6. \A s \in Tabs : UnderWay(s) /\ tab[s].does = "settings" => key' = key
    <2> SUFFICES ASSUME NEW s \in Tabs, UnderWay(s), tab[s].does = "settings" PROVE FALSE
      OBVIOUS
    <2>1. Locked(tab[s])
      BY DEF UnderWay, Locked
    <2> QED
      BY <1>1, <1>3, <2>1 DEF ConfigLockInv
  <1>7. ~UnderWay(t) /\ ~Locked(NoRequest)
    BY <1>1, <1>2 DEF UnderWay, Locked
  <1>8. \A s \in Tabs : nightly'.by = nightly.by
    BY <1>1
  <1> QED
    BY <1>1, <1>2, <1>3, <1>4, <1>5, <1>6, <1>7, <1>8, QuietKept

\* A run is asked for: there is no recovery while the lock is free.
LEMMA RunNowKeeps ==
    ASSUME ConfigInv, NEW t \in Tabs, RunNow(t)
    PROVE  ConfigInv'
  <1>1. /\ UNCHANGED <<savedSettings, config, pipelineStt, overlapped, key>>
        /\ ConfigTyped /\ ConfigLockInv /\ key' \in BOOLEAN
        /\ nightly \in [enabled : BOOLEAN, by : {"nobody", "loop", "request"}]
        /\ tab' = [tab EXCEPT ![t] = [does |-> "refused"]] /\ lock = "free" /\ lock' = t
        /\ tab[t].does = "run now"
    BY DEF RunNow, Enters, ConfigInv, ConfigTyped
  <1>2. [does |-> "refused"] \in TabRequests
    BY DEF TabRequests
  <1>3. /\ nightly' \in [enabled : BOOLEAN, by : {"nobody", "loop", "request"}]
        /\ nightly'.enabled = nightly.enabled
    BY <1>1 DEF RunNow
  <1>4. \A s \in Tabs : ~Recovering(s)
    <2> SUFFICES ASSUME NEW s \in Tabs, Recovering(s) PROVE FALSE
      OBVIOUS
    <2>1. Locked(tab[s])
      BY DEF Recovering, Locked
    <2> QED
      BY <1>1, <2>1, ConfigurationAssumption DEF ConfigLockInv
  <1>5. ~UnderWay(t)
    BY <1>1 DEF UnderWay
  <1>6. ConfigAgreed => KeyOfDefault'
    BY <1>1 DEF ConfigAgreed, KeyOfDefault
  <1> DEFINE request == [does |-> "refused"]
  <1>7. request \in TabRequests /\ request.does = "refused"
    BY <1>2
  <1>8. tab' = [tab EXCEPT ![t] = request]
    BY <1>1
  <1> HIDE DEF request
  <1> QED
    BY <1>1, <1>3, <1>4, <1>5, <1>6, <1>7, <1>8, QuietKept

\* The loop runs only when automatic processing is on, which no recovery stands next to.
LEMMA NightlyKeeps ==
    ASSUME ConfigInv, NightlyRun \/ NightlyEnds
    PROVE  ConfigInv'
  <1>1. /\ UNCHANGED <<savedSettings, config, pipelineStt, key, lock, tab, overlapped>>
        /\ nightly \in [enabled : BOOLEAN, by : {"nobody", "loop", "request"}]
    BY DEF NightlyRun, NightlyEnds, ConfigInv, ConfigTyped
  <1>2. /\ nightly' \in [enabled : BOOLEAN, by : {"nobody", "loop", "request"}]
        /\ nightly'.enabled = nightly.enabled
        /\ nightly'.by = "nobody" \/ nightly.enabled
    BY <1>1 DEF NightlyRun, NightlyEnds
  <1>3. ConfigTyped' /\ ConfigLockInv'
    BY <1>1, <1>2 DEF ConfigInv, ConfigTyped, ConfigLockInv
  <1>4. ASSUME ConfigAgreed PROVE ConfigAgreed'
    <2>1. \A s \in Tabs : Recovering(s)' => nightly'.by = "nobody" /\ ~config'.auto
      <3> SUFFICES ASSUME NEW s \in Tabs, Recovering(s)'
                   PROVE  nightly'.by = "nobody" /\ ~config'.auto
        OBVIOUS
      <3>1. ~config.auto
        BY <1>1, <1>4 DEF ConfigAgreed, Recovering
      <3>2. ~nightly.enabled
        BY <1>4, <3>1 DEF ConfigAgreed
      <3> QED
        BY <1>1, <1>2, <3>1, <3>2
    <2>2. nightly'.enabled = config'.auto
      BY <1>1, <1>2, <1>4 DEF ConfigAgreed
    <2> QED
      BY <1>1, <1>4, <2>1, <2>2
         DEF ConfigAgreed, KeyOfDefault, ConfigChangeInv, UnderWay, Replaced, DeletingKey
  <1> QED
    BY <1>1, <1>3, <1>4 DEF ConfigInv

\* A change begins: of the configuration as it is, when no other is under way.
LEMMA BeginChangeKeeps ==
    ASSUME ConfigInv, NEW t \in Tabs, NEW what \in {"settings", "activate"},
           NEW to \in Configs, NEW body \in Configs,
           tab' = [tab EXCEPT ![t] = [does |-> what, at |-> "writes", from |-> config,
                                      to |-> to, text |-> body]],
           UNCHANGED <<savedSettings, config, pipelineStt, key, nightly>>,
           overlapped' = (overlapped \/ Meets(t, what)),
           ~UnderWay(t),
           what = "settings" => lock = "free" /\ lock' = t,
           what = "activate" => lock' = lock,
           what = "settings" => to.model = config.model /\ (to.provider = "openai" => key),
           what = "activate" => to.provider = config.provider /\ to.auto = config.auto,
           savedSettings = config => body = to
    PROVE  ConfigInv'
  <1> DEFINE request == [does |-> what, at |-> "writes", from |-> config, to |-> to, text |-> body]
  <1>1. ConfigTyped /\ ConfigLockInv /\ config \in Configs
    BY DEF ConfigInv, ConfigTyped
  <1>2. /\ request \in ChangeRequests /\ request.does = what /\ request.at = "writes"
        /\ request.from = config /\ request.to = to /\ request.text = body
    BY <1>1 DEF ChangeRequests
  <1>3. request \in TabRequests
    BY <1>2 DEF TabRequests
  <1>4. tab' = [tab EXCEPT ![t] = request]
    OBVIOUS
  <1> HIDE DEF request
  <1>5. /\ tab' \in [Tabs -> TabRequests] /\ tab'[t] = request
        /\ \A s \in Tabs \ {t} : tab'[s] = tab[s]
    BY <1>1, <1>3, <1>4, TabIs
  <1>6. ConfigLockInv'
    BY <1>1, <1>2, <1>3, <1>4, LockKept DEF Locked
  <1>7. ConfigTyped'
    <2>1. overlapped' \in BOOLEAN
      OBVIOUS
    <2> QED
      BY <1>1, <1>5, <2>1 DEF ConfigTyped
  <1>8. ASSUME ~overlapped' PROVE ConfigAgreed'
    <2>1. ConfigAgreed /\ ~Meets(t, what)
      BY <1>8 DEF ConfigInv
    <2>2. \A s \in Tabs : ~UnderWay(s)
      <3> SUFFICES ASSUME NEW s \in Tabs, UnderWay(s) PROVE FALSE
        OBVIOUS
      <3>1. s # t /\ "activate" \notin {tab[s].does, what}
        BY <2>1 DEF Meets
      <3>2. tab[s].does = "settings" /\ what = "settings" /\ tab[s].at # "waits"
        BY <3>1 DEF UnderWay
      <3>3. lock = s /\ lock = "free"
        BY <1>1, <3>2 DEF ConfigLockInv, Locked
      <3> QED
        BY <3>3, ConfigurationAssumption
    <2>3. savedSettings = config
      BY <2>1, <2>2 DEF ConfigAgreed, Replaced
    <2>4. \A s \in Tabs : s # t => ~UnderWay(s)'
      BY <1>5, <2>2 DEF UnderWay
    <2>5. ConfigChangeInv(t)'
      BY <1>2, <1>5, <2>3 DEF ConfigChangeInv
    <2>6. \A s \in Tabs : ConfigChangeInv(s)'
      BY <2>4, <2>5 DEF ConfigChangeInv
    <2>7. \A s, r \in Tabs : UnderWay(s)' /\ UnderWay(r)' => s = r
      BY <2>4
    <2>8. \A s \in Tabs : (Recovering(s)' => Recovering(s)) /\ (DeletingKey(s)' => DeletingKey(s))
      BY <1>2, <1>5 DEF Recovering, DeletingKey
    <2> QED
      BY <2>1, <2>3, <2>6, <2>7, <2>8 DEF ConfigAgreed, KeyOfDefault
  <1> QED
    BY <1>6, <1>7, <1>8 DEF ConfigInv

\* A change of the settings, or an activation of a provider, begins with what it
\* will have to restore (settings.py).
LEMMA ChangesBegin ==
    ASSUME ConfigInv, NEW t \in Tabs, StartSettings(t) \/ Activate(t)
    PROVE  ConfigInv'
  <1>1. savedSettings \in Configs /\ config \in Configs
    BY DEF ConfigInv, ConfigTyped
  <1>2. CASE StartSettings(t)
    <2> DEFINE Text(to) == [to EXCEPT !.model = savedSettings.model,
                                      !.provider = IF to.provider = config.provider
                                                   THEN savedSettings.provider ELSE @,
                                      !.auto = IF to.auto = config.auto
                                               THEN savedSettings.auto ELSE @]
    <2>1. PICK to \in Configs :
             /\ to.model = config.model /\ (to.provider = "openai" => key)
             /\ tab' = [tab EXCEPT ![t] = [does |-> "settings", at |-> "writes", from |-> config,
                                           to |-> to, text |-> Text(to)]]
      BY <1>2 DEF StartSettings, Acceptable
    <2>2. Text(to) \in Configs /\ (savedSettings = config => Text(to) = to)
      BY <1>1, <2>1 DEF Configs
    <2>3. /\ lock = "free" /\ lock' = t /\ ~UnderWay(t)
          /\ UNCHANGED <<savedSettings, config, pipelineStt, key, nightly>>
          /\ overlapped' = (overlapped \/ Meets(t, "settings"))
      BY <1>2 DEF StartSettings, Enters, UnderWay
    <2> HIDE DEF Text
    <2> QED
      BY <2>1, <2>2, <2>3, BeginChangeKeeps
  <1>3. CASE Activate(t)
    <2>1. PICK path \in SpeechPaths :
             tab' = [tab EXCEPT ![t] = [does |-> "activate", at |-> "writes", from |-> config,
                                     to |-> [config EXCEPT !.model = path],
                                     text |-> [savedSettings EXCEPT !.model = path]]]
      BY <1>3 DEF Activate
    <2> DEFINE to == [config EXCEPT !.model = path]
               body == [savedSettings EXCEPT !.model = path]
    <2>2. /\ to \in Configs /\ body \in Configs /\ to.provider = config.provider
          /\ to.auto = config.auto /\ (savedSettings = config => body = to)
      BY <1>1 DEF Configs
    <2>3. /\ lock' = lock /\ ~UnderWay(t)
          /\ UNCHANGED <<savedSettings, config, pipelineStt, key, nightly>>
          /\ overlapped' = (overlapped \/ Meets(t, "activate"))
      BY <1>3 DEF Activate, UnderWay, NoRequest
    <2>4. tab' = [tab EXCEPT ![t] = [does |-> "activate", at |-> "writes", from |-> config,
                                     to |-> to, text |-> body]]
      BY <2>1
    <2> HIDE DEF to, body
    <2> QED
      BY <2>2, <2>3, <2>4, BeginChangeKeeps
  <1> QED
    BY <1>2, <1>3

\* What is under way is a record of a change.
LEMMA UnderWayIs ==
    ASSUME ConfigTyped, NEW t \in Tabs, UnderWay(t)
    PROVE  tab[t] \in ChangeRequests
  <1>1. tab[t] \in TabRequests
    BY DEF ConfigTyped
  <1> QED
    BY <1>1, RequestKinds DEF UnderWay

\* The file is replaced; the memory follows.
LEMMA FileReplacedKeeps ==
    ASSUME ConfigInv, NEW t \in Tabs, FileReplaced(t)
    PROVE  ConfigInv'
  <1>1. /\ ConfigTyped /\ ConfigLockInv /\ UnderWay(t) /\ tab[t].at = "writes"
        /\ UNCHANGED <<config, pipelineStt, key, lock, nightly, overlapped>>
        /\ savedSettings' = tab[t].text
    BY DEF ConfigInv, FileReplaced, Writing, UnderWay
  <1>2. tab[t] \in ChangeRequests
    BY <1>1, UnderWayIs
  <1> DEFINE request == [tab[t] EXCEPT !.at = "written"]
  <1>3. /\ request \in ChangeRequests /\ request.does = tab[t].does /\ request.at = "written"
        /\ request.from = tab[t].from /\ request.to = tab[t].to /\ request.text = tab[t].text
    BY <1>2 DEF ChangeRequests
  <1>4. tab' = [tab EXCEPT ![t] = request]
    BY <1>1 DEF FileReplaced, ConfigTyped
  <1> HIDE DEF request
  <1>5. request \in TabRequests
    BY <1>3 DEF TabRequests
  <1>6. /\ tab' \in [Tabs -> TabRequests] /\ tab'[t] = request
        /\ \A s \in Tabs \ {t} : tab'[s] = tab[s]
    BY <1>1, <1>4, <1>5, TabIs
  <1>7. ConfigLockInv'
    <2>1. Locked(request) => lock' = t
      BY <1>1, <1>3 DEF Locked, ConfigLockInv
    <2> QED
      BY <1>1, <1>4, <1>5, <2>1, LockKept
  <1>8. ConfigTyped'
    BY <1>1, <1>2, <1>6 DEF ConfigTyped, ChangeRequests
  <1>9. ASSUME ConfigAgreed PROVE ConfigAgreed'
    <2>1. \A s \in Tabs : s # t => ~UnderWay(s) /\ ~UnderWay(s)'
      <3>1. \A s \in Tabs : s # t => ~UnderWay(s)
        BY <1>1, <1>9 DEF ConfigAgreed
      <3> QED
        BY <1>6, <3>1 DEF UnderWay
    <2>2. ConfigChangeInv(t)' /\ UnderWay(t)'
      <3>1. ConfigChangeInv(t)
        BY <1>9 DEF ConfigAgreed
      <3> QED
        BY <1>1, <1>3, <1>6, <3>1 DEF ConfigChangeInv, UnderWay
    <2>3. \A s \in Tabs : ConfigChangeInv(s)'
      BY <2>1, <2>2 DEF ConfigChangeInv
    <2>4. \A s, r \in Tabs : UnderWay(s)' /\ UnderWay(r)' => s = r
      BY <2>1
    <2>5. Replaced(t)'
      BY <1>3, <1>6, <2>2 DEF Replaced
    <2>6. \A s \in Tabs : (Recovering(s)' => Recovering(s)) /\ (DeletingKey(s)' => DeletingKey(s))
      BY <1>3, <1>6 DEF Recovering, DeletingKey
    <2> QED
      BY <1>1, <1>9, <2>3, <2>4, <2>5, <2>6 DEF ConfigAgreed, KeyOfDefault
  <1> QED
    BY <1>1, <1>7, <1>8, <1>9 DEF ConfigInv

\* A change is over, applied or failed, and the three places agree.
LEMMA EndChangeKeeps ==
    ASSUME ConfigInv, NEW t \in Tabs, UnderWay(t), tab' = [tab EXCEPT ![t] = NoRequest],
           lock' = (IF tab[t].does = "settings" THEN "free" ELSE lock),
           UNCHANGED <<savedSettings, key, overlapped>>,
           nightly' \in [enabled : BOOLEAN, by : {"nobody", "loop", "request"}],
           config' \in Configs,
           ConfigAgreed =>
              /\ pipelineStt' = SttOf(config') /\ nightly'.enabled = config'.auto
              /\ config' = savedSettings
              /\ config' = config \/ (tab[t].at = "written" /\ config' = tab[t].to),
           tab[t].does = "activate" => nightly' = nightly
    PROVE  ConfigInv'
  <1>1. /\ ConfigTyped /\ ConfigLockInv /\ NoRequest \in TabRequests /\ NoRequest.does = "nothing"
    BY DEF ConfigInv, TabRequests, NoRequest
  <1>2. /\ tab' \in [Tabs -> TabRequests] /\ tab'[t] = NoRequest
        /\ \A s \in Tabs \ {t} : tab'[s] = tab[s]
    BY <1>1, TabIs
  <1>3. tab[t].does = "settings" => lock = t
    BY <1>1 DEF UnderWay, ConfigLockInv, Locked
  <1>4. ConfigLockInv'
    BY <1>1, <1>3, LockKept DEF Locked
  <1>5. ConfigTyped'
    BY <1>1, <1>2 DEF ConfigTyped
  <1>6. ASSUME ConfigAgreed PROVE ConfigAgreed'
    <2>1. \A s \in Tabs : ~UnderWay(s)'
      <3>1. \A s \in Tabs : s # t => ~UnderWay(s)
        BY <1>6 DEF ConfigAgreed
      <3> QED
        BY <1>1, <1>2, <3>1 DEF UnderWay
    <2>2. ConfigChangeInv(t)
      BY <1>6 DEF ConfigAgreed
    <2>3. KeyOfDefault'
      <3>1. config.provider = "openai" => key
        BY <1>6 DEF ConfigAgreed, KeyOfDefault
      <3>2. tab[t].to.provider = "openai" => key
        BY <2>2, <3>1 DEF ConfigChangeInv, UnderWay
      <3> QED
        BY <1>6, <3>1, <3>2 DEF KeyOfDefault
    <2>4. ASSUME NEW s \in Tabs, Recovering(s)' \/ DeletingKey(s)'
          PROVE  /\ s # t /\ tab'[s] = tab[s] /\ nightly'.by = nightly.by
                 /\ config'.auto = config.auto /\ config'.provider = config.provider
      <3>1. s # t
        BY <1>1, <1>2, <2>4 DEF Recovering, DeletingKey
      <3>2. tab'[s] = tab[s]
        BY <1>2, <3>1
      <3>3. Locked(tab[s])
        BY <2>4, <3>2 DEF Recovering, DeletingKey, Locked
      <3>4. tab[t].does = "activate"
        BY <1>1, <1>3, <3>1, <3>3 DEF ConfigLockInv, UnderWay
      <3> QED
        BY <1>6, <2>2, <3>1, <3>2, <3>4 DEF ConfigChangeInv
    <2>5. \A s \in Tabs : Recovering(s)' => nightly'.by = "nobody" /\ ~config'.auto
      BY <1>6, <2>4 DEF ConfigAgreed, Recovering
    <2>6. \A s \in Tabs : DeletingKey(s)' => config'.provider # "openai"
      BY <1>6, <2>4 DEF ConfigAgreed, DeletingKey
    <2>7. \A s \in Tabs : ConfigChangeInv(s)'
      BY <2>1 DEF ConfigChangeInv
    <2> QED
      BY <1>6, <2>1, <2>3, <2>5, <2>6, <2>7 DEF ConfigAgreed
  <1> QED
    BY <1>4, <1>5, <1>6 DEF ConfigInv

\* It ends applied, or with the file and the memory as they were.
LEMMA ChangesEnd ==
    ASSUME ConfigInv, NEW t \in Tabs, FileFails(t) \/ SettingsApplied(t) \/ Activated(t)
    PROVE  ConfigInv'
  <1>1. /\ ConfigTyped /\ UnderWay(t) /\ config \in Configs
        /\ nightly \in [enabled : BOOLEAN, by : {"nobody", "loop", "request"}]
    BY DEF ConfigInv, ConfigTyped, FileFails, SettingsApplied, Activated, Writing, UnderWay
  <1>2. tab[t] \in ChangeRequests
    BY <1>1, UnderWayIs
  <1>3. CASE FileFails(t)
    <2>1. /\ tab' = [tab EXCEPT ![t] = NoRequest] /\ tab[t].at = "writes"
          /\ lock' = (IF tab[t].does = "settings" THEN "free" ELSE lock)
          /\ UNCHANGED <<savedSettings, config, pipelineStt, key, nightly, overlapped>>
      BY <1>3 DEF FileFails, Ends, Writing
    <2>2. ConfigAgreed => config = savedSettings
      <3> SUFFICES ASSUME ConfigAgreed PROVE config = savedSettings
        OBVIOUS
      <3>1. \A s \in Tabs : ~Replaced(s)
        BY <1>1, <2>1 DEF ConfigAgreed, Replaced
      <3> QED
        BY <3>1 DEF ConfigAgreed
    <2>3. ConfigAgreed => pipelineStt = SttOf(config) /\ nightly.enabled = config.auto
      BY DEF ConfigAgreed
    <2>4. /\ config' \in Configs
          /\ nightly' \in [enabled : BOOLEAN, by : {"nobody", "loop", "request"}]
      BY <1>1, <2>1
    <2>5. ConfigAgreed =>
              /\ pipelineStt' = SttOf(config') /\ nightly'.enabled = config'.auto
              /\ config' = savedSettings /\ config' = config
      BY <2>1, <2>2, <2>3 DEF SttOf
    <2> QED
      BY <1>1, <2>1, <2>4, <2>5, EndChangeKeeps
  <1>4. CASE SettingsApplied(t)
    <2> DEFINE from == tab[t].from
               to == tab[t].to
    <2>1. /\ tab' = [tab EXCEPT ![t] = NoRequest] /\ tab[t].at = "written"
          /\ tab[t].does = "settings" /\ lock' = "free" /\ config' = to
          /\ UNCHANGED <<savedSettings, key, overlapped>>
          /\ pipelineStt' = IF to.provider = from.provider THEN pipelineStt ELSE SttOf(to)
          /\ nightly' = IF to.auto = from.auto THEN nightly
                        ELSE [enabled |-> to.auto,
                              by |-> IF nightly.by = "loop" THEN "nobody" ELSE nightly.by]
      BY <1>4 DEF SettingsApplied, Ends
    <2>2. to \in Configs /\ from \in Configs /\ to.auto \in BOOLEAN
      BY <1>2 DEF ChangeRequests, Configs
    <2> HIDE DEF from, to
    <2>3. nightly' \in [enabled : BOOLEAN, by : {"nobody", "loop", "request"}]
      BY <1>1, <2>1, <2>2
    <2>4. ASSUME ConfigAgreed
          PROVE  /\ pipelineStt' = SttOf(config') /\ nightly'.enabled = config'.auto
                 /\ config' = savedSettings
      <3>1. /\ pipelineStt = SttOf(config) /\ nightly.enabled = config.auto /\ from = config
            /\ savedSettings = to /\ to.model = config.model
        BY <1>1, <2>1, <2>4 DEF ConfigAgreed, ConfigChangeInv, from, to
      <3> QED
        BY <2>1, <3>1 DEF SttOf
    <2> QED
      BY <1>1, <2>1, <2>2, <2>3, <2>4, EndChangeKeeps DEF to
  <1>5. CASE Activated(t)
    <2>1. /\ tab' = [tab EXCEPT ![t] = NoRequest] /\ tab[t].at = "written"
          /\ tab[t].does = "activate" /\ lock' = lock /\ config' = tab[t].to
          /\ UNCHANGED <<savedSettings, key, overlapped, nightly>>
          /\ pipelineStt' = SttOf(tab[t].to)
      BY <1>5 DEF Activated
    <2>2. tab[t].to \in Configs
      BY <1>2 DEF ChangeRequests
    <2>3. ASSUME ConfigAgreed
          PROVE  /\ pipelineStt' = SttOf(config') /\ nightly'.enabled = config'.auto
                 /\ config' = savedSettings
      <3>1. ConfigChangeInv(t) /\ nightly.enabled = config.auto
        BY <2>3 DEF ConfigAgreed
      <3> QED
        BY <1>1, <2>1, <3>1 DEF SttOf, ConfigChangeInv
    <2> QED
      BY <1>1, <2>1, <2>2, <2>3, EndChangeKeeps
  <1> QED
    BY <1>3, <1>4, <1>5

\* A restart reads the file, whatever was under way.
LEMMA RebootKeeps ==
    ASSUME ConfigInv, Reboot
    PROVE  ConfigInv'
  <1>1. /\ savedSettings \in Configs /\ savedSettings.auto \in BOOLEAN /\ tab \in [Tabs -> TabRequests]
        /\ NoRequest \in TabRequests /\ NoRequest.does = "nothing"
        /\ UNCHANGED <<savedSettings, key, overlapped>> /\ config' = savedSettings
        /\ ConfigTyped
    BY DEF ConfigInv, ConfigTyped, Configs, TabRequests, NoRequest, Reboot
  <1>2. /\ \A t \in Tabs : tab'[t] = NoRequest
        /\ nightly' = [enabled |-> savedSettings.auto, by |-> "nobody"]
        /\ pipelineStt' = SttOf(config')
    BY DEF Reboot, NightlyFor, SttOf
  <1>3. \A t \in Tabs : ~UnderWay(t)' /\ ~Recovering(t)' /\ ~DeletingKey(t)' /\ ~Locked(tab'[t])
    BY <1>1, <1>2 DEF UnderWay, Recovering, DeletingKey, Locked
  <1>4. ConfigTyped' /\ ConfigLockInv'
    <2>1. tab' \in [Tabs -> TabRequests]
      BY <1>1 DEF Reboot
    <2>2. nightly' \in [enabled : BOOLEAN, by : {"nobody", "loop", "request"}]
      BY <1>1, <1>2
    <2>3. ConfigLockInv'
      BY <1>3 DEF ConfigLockInv
    <2> QED
      BY <1>1, <2>1, <2>2, <2>3 DEF ConfigTyped
  <1>5. ASSUME ConfigAgreed PROVE ConfigAgreed'
    <2>1. savedSettings.provider = "openai" => key
      <3>1. CASE \A t \in Tabs : ~Replaced(t)
        BY <1>5, <3>1 DEF ConfigAgreed, KeyOfDefault
      <3>2. CASE \E t \in Tabs : Replaced(t)
        <4>1. PICK t \in Tabs : Replaced(t)
          BY <3>2
        <4>2. ConfigChangeInv(t) /\ UnderWay(t) /\ (config.provider = "openai" => key)
          BY <1>5, <4>1 DEF ConfigAgreed, KeyOfDefault, Replaced
        <4> QED
          BY <4>1, <4>2 DEF ConfigChangeInv, UnderWay, Replaced
      <3> QED
        BY <3>1, <3>2
    <2>2. nightly'.enabled = config'.auto
      BY <1>1, <1>2
    <2> QED
      BY <1>1, <1>2, <1>3, <2>1, <2>2 DEF ConfigAgreed, KeyOfDefault, ConfigChangeInv
  <1> QED
    BY <1>1, <1>4, <1>5 DEF ConfigInv

\* Every step of the settings requests, the nightly run and a restart keeps the
\* invariant.
LEMMA ConfigStep ==
    ASSUME ConfigInv, [ConfigNext]_configVars
    PROVE  ConfigInv'
  <1>1. CASE UNCHANGED configVars
    BY <1>1 DEF configVars, ConfigInv, ConfigTyped, ConfigLockInv, ConfigAgreed, KeyOfDefault,
                ConfigChangeInv, UnderWay, Replaced, Recovering, DeletingKey
  <1>2. ASSUME NEW t \in Tabs,
          \/ AskLocked(t) \/ StartSettings(t) \/ RefuseSettings(t) \/ SettingsApplied(t)
          \/ FileReplaced(t) \/ FileFails(t) \/ Released(t)
          \/ Activate(t) \/ Activated(t)
          \/ ChangeKey(t) \/ RefuseKey(t) \/ KeyChanged(t)
          \/ StartRecovery(t) \/ RecoveryEnds(t) \/ RunNow(t)
        PROVE  ConfigInv'
    BY <1>2, QuietStepsKeep, KeyChangedKeeps, RunNowKeeps, ChangesBegin, ChangesEnd,
       FileReplacedKeeps
  <1>3. CASE NightlyRun \/ NightlyEnds \/ Reboot
    BY <1>3, NightlyKeeps, RebootKeeps
  <1> QED
    BY <1>1, <1>2, <1>3 DEF ConfigNext

\* It holds of every configuration the server may start with.
LEMMA ConfigInitInv == ConfigInit => ConfigInv
  <1> SUFFICES ASSUME ConfigInit PROVE ConfigInv
    OBVIOUS
  <1>1. /\ savedSettings \in Configs /\ savedSettings.auto \in BOOLEAN
        /\ NoRequest \in TabRequests /\ NoRequest.does = "nothing"
        /\ \A t \in Tabs : tab[t] = NoRequest
    BY DEF ConfigInit, Configs, TabRequests, NoRequest
  <1>2. \A t \in Tabs : ~UnderWay(t) /\ ~Recovering(t) /\ ~DeletingKey(t) /\ ~Locked(tab[t])
    BY <1>1 DEF UnderWay, Recovering, DeletingKey, Locked
  <1>3. nightly = [enabled |-> savedSettings.auto, by |-> "nobody"]
    BY DEF ConfigInit, NightlyFor
  <1>4. ConfigTyped
    <2>1. overlapped \in BOOLEAN /\ tab \in [Tabs -> TabRequests]
      BY <1>1 DEF ConfigInit
    <2>2. nightly \in [enabled : BOOLEAN, by : {"nobody", "loop", "request"}]
      BY <1>1, <1>3
    <2> QED
      BY <1>1, <2>1, <2>2 DEF ConfigInit, ConfigTyped
  <1>5. ConfigLockInv
    BY <1>2 DEF ConfigLockInv
  <1>6. ConfigAgreed
    BY <1>2, <1>3 DEF ConfigInit, ConfigAgreed, KeyOfDefault, ConfigChangeInv
  <1> QED
    BY <1>4, <1>5, <1>6 DEF ConfigInv

\* The invariant is enough: unless two changes overlapped, file, memory and key
\* agree.
LEMMA ConfigHolds == ConfigInv => ConfigurationHolds
  <1> SUFFICES ASSUME ConfigInv, ~overlapped PROVE ConfigurationHolds
    BY DEF ConfigurationHolds
  <1>1. ConfigAgreed
    BY DEF ConfigInv
  <1>2. (\A t \in Tabs : ~UnderWay(t)) => config = savedSettings
    BY <1>1 DEF ConfigAgreed, Replaced
  <1>3. pipelineStt = SttOf(config) /\ nightly.enabled = config.auto
    BY <1>1 DEF ConfigAgreed
  <1> QED
    BY <1>1, <1>2, <1>3 DEF ConfigAgreed, ConfigurationHolds

------------------------------------------------------------------------------
(* The vocabulary: one damaged file leaves the other. *)

\* Before the first fault the file is what the last request left, and the backup what
\* that request found; after it, one of the two is on the disk or comes back.
Undamaged ==
    /\ store.file = Whole(kept) \/ (store.file = NoFile /\ kept = {})
    /\ backup = Whole(before) \/ (backup = NoFile /\ before = {})

SettingInv ==
    /\ faults \in Nat
    /\ faults = 0 => Undamaged
    /\ faults = 1 => OnDisk \in {kept, before}

\* What a load leaves on the disk is what it found there.
LEMMA LoadKeepsText ==
    ~CacheHit \/ store.file.kind = "whole" =>
        LoadedStore.file.kind = "whole" /\ LoadedStore.file.terms = OnDisk
  BY DEF LoadedStore, OnDisk, Stamped, Whole

\* Without a fault so far, that is what the last request left.
LEMMA UndamagedLoad ==
    ASSUME Undamaged
    PROVE  OnDisk = kept /\ LoadedStore.file = Whole(kept)
  <1>1. CASE store.file = Whole(kept)
    BY <1>1 DEF OnDisk, LoadedStore, Whole
  <1>2. CASE store.file = NoFile /\ kept = {}
    BY <1>2 DEF OnDisk, LoadedStore, Whole, NoFile, CacheHit, Stamped
  <1> QED
    BY <1>1, <1>2 DEF Undamaged

\* The steps that are no faults.
LEMMA FaultlessKeeps ==
    ASSUME SettingInv, LoadSettings \/ SaveSettings \/ CacheAges
    PROVE  SettingInv'
  <1>1. CASE CacheAges
    BY <1>1 DEF CacheAges, SettingInv, Undamaged, OnDisk, Recovered
  <1>2. CASE LoadSettings
    <2>1. /\ store' = LoadedStore /\ UNCHANGED <<backup, kept, before, faults>> /\ ~CacheHit
      BY <1>2 DEF LoadSettings
    <2>2. OnDisk' = OnDisk
      BY <2>1, LoadKeepsText DEF OnDisk
    <2>3. Undamaged => Undamaged'
      BY <2>1, UndamagedLoad DEF Undamaged
    <2> QED
      BY <2>1, <2>2, <2>3 DEF SettingInv
  <1>3. CASE SaveSettings
    <2>1. /\ UNCHANGED faults /\ backup' = LoadedStore.file
          /\ before' = LoadedStore.file.terms
          /\ store'.file = Whole(kept')
      BY <1>3 DEF SaveSettings, Stamped
    <2>2. OnDisk' = kept'
      BY <2>1 DEF OnDisk, Whole
    <2>3. Undamaged => Undamaged'
      BY <2>1, UndamagedLoad DEF Undamaged, Whole
    <2> QED
      BY <2>1, <2>2, <2>3 DEF SettingInv
  <1> QED
    BY <1>1, <1>2, <1>3

\* The first fault leaves what the last request left or found.
LEMMA FaultKeeps ==
    ASSUME SettingInv, SaveRefused \/ SaveCrashes \/ FileDamaged \/ RecoveryCrashes
    PROVE  SettingInv'
  <1>1. faults' = faults + 1 /\ faults \in Nat /\ UNCHANGED <<kept, before>>
    BY DEF SettingInv, SaveRefused, SaveCrashes, FileDamaged, RecoveryCrashes, SettingFault
  <1>2. CASE faults # 0
    BY <1>1, <1>2 DEF SettingInv
  <1>3. CASE faults = 0
    <2>1. Undamaged
      BY <1>3 DEF SettingInv
    <2>2. CASE SaveRefused \/ SaveCrashes
      <3>1. store' = LoadedStore
        BY <2>2 DEF SaveRefused, SaveCrashes
      <3>2. OnDisk' = kept
        BY <2>1, <3>1, UndamagedLoad DEF OnDisk, Whole
      <3> QED
        BY <1>1, <1>3, <3>2 DEF SettingInv
    <2>3. CASE FileDamaged
      <3>1. store'.file = Damaged /\ UNCHANGED backup
        BY <2>3 DEF FileDamaged, Stamped
      <3>2. OnDisk' = before
        BY <2>1, <3>1 DEF OnDisk, Damaged, Recovered, Undamaged, Whole, NoFile
      <3> QED
        BY <1>1, <1>3, <3>2 DEF SettingInv
    <2>4. CASE RecoveryCrashes
      <3>1. store.file.kind = "damaged"
        BY <2>4 DEF RecoveryCrashes
      <3> QED
        BY <2>1, <3>1 DEF Undamaged, Whole, NoFile
    <2> QED
      BY <2>2, <2>3, <2>4
  <1> QED
    BY <1>2, <1>3

\* Every step of the vocabulary's requests, with any faults, keeps the invariant
\* (user_settings.py).
LEMMA SettingStep ==
    ASSUME SettingInv, [SettingNext]_settingVars
    PROVE  SettingInv'
  <1>1. CASE UNCHANGED settingVars
    BY <1>1 DEF settingVars, SettingInv, Undamaged, OnDisk, Recovered
  <1> QED
    BY <1>1, FaultlessKeeps, FaultKeeps DEF SettingNext

\* It holds of the file and the backup the server starts with.
LEMMA SettingInitInv == SettingInit => SettingInv
  BY DEF SettingInit, SettingInv, Undamaged, Stamped

\* The invariant is enough: one damaged or missing file loses no term.
LEMMA SettingHolds ==
    ASSUME SettingInv
    PROVE  OneFaultKeepsSettings
  BY UndamagedLoad DEF SettingInv, OneFaultKeepsSettings

------------------------------------------------------------------------------
(* The durable files. *)

WritingSteps ==
    {"start", "open", "create", "fill", "look", "exchange", "verify", "sync", "ok", "failed",
     "copy", "copied", "temporary", "replace"}

Calls ==
    [kind : {"pinned", "backup", "publish", "plain"}, step : WritingSteps,
     on : {"target", "bak"}, previous : Nat, made : Nat, text : Nat]

Put == {placed[i] : i \in 1..Len(placed)}
Places(file) == {i \in DOMAIN placed : file \in {placed[j] : j \in i..Len(placed)}}

\* A file whose text is whole and on the disk.
Kept(file) == file # 0 /\ contents[file] # 0 /\ file \in synced

\* The same of the next state.
PlacesThen(file) == {i \in DOMAIN placed' : file \in {placed'[j] : j \in i..Len(placed')}}
KeptThen(file) == file # 0 /\ contents'[file] # 0 /\ file \in synced'

FileTyped ==
    /\ contents \in Seq(Nat) /\ Len(contents) \in Nat
    /\ entry \in survivors
    /\ survivors \subseteq [EntryNames -> 0..Len(contents)]
    /\ placed \in Seq(Nat) /\ \A f \in Put : f \in 1..Len(contents)
    /\ writing \in [FileWriters -> Calls]
    /\ \A w \in FileWriters : writing[w].made \in 0..Len(contents)
    /\ reading \in [step : {"none", "open", "returned"}, file : Nat]

\* What each step of a call has behind it.
CallIs(w, call) ==
    /\ call.step \in {"start", "open", "create", "copy", "copied", "temporary"} =>
          call.previous = 0 /\ call.made = 0
    /\ call.step \in {"fill", "look", "exchange", "replace", "verify", "sync", "ok"} => call.made # 0
    /\ call.kind = "plain" => call.on = "target" /\ call.previous = 0
    /\ call.step = "replace" => call.kind = "plain"
    /\ call.step \in {"open", "create", "look", "exchange", "verify", "sync"} => call.kind # "plain"
    /\ call.step = "ok" => call.on = "target"
    /\ call.on = "target" /\ call.step \notin {"start", "failed"} => call.text = w

CallInv(w) ==
    /\ CallIs(w, writing[w])
    /\ Doing(w, "look") \/ Doing(w, "exchange") \/ (Doing(w, "fill") /\ writing[w].previous # 0)
          => entry[Hidden(w)] = writing[w].made
    /\ writing[w].on = "target"
       /\ writing[w].step \in {"look", "exchange", "replace", "verify", "sync", "ok"} =>
          Kept(writing[w].made)

\* No two calls make one file, and what goes to the backup's name never was a target.
ApartInv ==
    /\ \A v, w \in FileWriters : v # w /\ writing[v].made # 0 => writing[v].made # writing[w].made
    /\ \A w \in FileWriters : writing[w].on = "bak" /\ writing[w].made # 0 => writing[w].made \notin Put
    /\ \A s \in survivors :
          /\ s[Target] # 0 => s[Target] \in Put
          /\ s[Backup] # 0 =>
                /\ s[Backup] \notin Put
                /\ \A w \in FileWriters : writing[w].on = "target" => writing[w].made # s[Backup]

\* The text that was there is in the first file for good, or nowhere.
ThereInv ==
    /\ WasThere => 1 \in synced /\ 1 \in Put /\ \A w \in FileWriters : writing[w].made # 1
    /\ ~WasThere =>
          /\ \A f \in 1..Len(contents) : contents[f] # Original
          /\ \A w \in FileWriters : writing[w].text # Original

TargetKept == WasThere => \A s \in survivors : Kept(s[Target])

\* A call that is acknowledged, in whatever directory a crash leaves, and one about to be.
AckInv ==
    /\ \A w \in Acknowledged, s \in survivors :
          Kept(s[Target]) /\ Places(writing[w].made) \subseteq Places(s[Target])
    /\ \A w \in FileWriters : Doing(w, "sync") /\ writing[w].on = "target" =>
          Kept(entry[Target]) /\ Places(writing[w].made) \subseteq Places(entry[Target])

DurableInv ==
    /\ FileTyped /\ (\A w \in FileWriters : CallInv(w)) /\ ApartInv /\ ThereInv /\ TargetKept
    /\ AckInv /\ ReadersGetWholeTexts

\* The names of the directory are told apart.
LEMMA NamesAre ==
    /\ Target \in EntryNames /\ Backup \in EntryNames /\ Target # Backup
    /\ \A w \in FileWriters, on \in {"target", "bak"} :
          /\ <<w, on>> \in EntryNames /\ <<0, on>> \in EntryNames
          /\ <<w, on>> # Target /\ <<w, on>> # Backup
          /\ \A v \in FileWriters, o \in {"target", "bak"} :
                <<w, on>> = <<v, o>> => w = v /\ on = o
          /\ \A o \in {"target", "bak"} : <<0, on>> # <<w, o>>
    /\ Foreigner \in Nat \ {0} /\ Original \in Nat \ {0} /\ Original # Foreigner
  <1>1. Cardinality(FileWriters) \in Nat
    BY DurableAssumption, FS_CardinalityType
  <1>2. \A w \in FileWriters : w # 0
    BY DurableAssumption
  <1> QED
    BY <1>1, <1>2 DEF Target, Backup, EntryNames, Foreigner, Original

\* Something put under the target's name: it comes after all that was there.
LEMMA PlacesAppend ==
    ASSUME placed \in Seq(Nat), NEW x \in Nat, placed' = Append(placed, x)
    PROVE  /\ placed' \in Seq(Nat) /\ Put' = Put \cup {x}
           /\ \A f : f # x => PlacesThen(f) = Places(f)
           /\ \A f : Places(f) \subseteq PlacesThen(f) /\ PlacesThen(f) \subseteq PlacesThen(x)
  <1>1. /\ placed' \in Seq(Nat) /\ Len(placed) \in Nat /\ Len(placed') = Len(placed) + 1
        /\ \A i \in 1..Len(placed) : placed'[i] = placed[i]
        /\ placed'[Len(placed) + 1] = x
        /\ DOMAIN placed = 1..Len(placed) /\ DOMAIN placed' = 1..Len(placed')
    BY AppendProperties, LenProperties
  <1>2. Put' = Put \cup {x}
    <2>1. \A i \in 1..Len(placed') : i \in 1..Len(placed) \/ i = Len(placed) + 1
      BY <1>1
    <2>2. Len(placed) + 1 \in 1..Len(placed') /\ 1..Len(placed) \subseteq 1..Len(placed')
      BY <1>1
    <2>3. Put' = {placed'[i] : i \in 1..Len(placed')}
      BY DEF Put
    <2> QED
      BY <1>1, <2>1, <2>2, <2>3 DEF Put
  <1>3. ASSUME NEW f PROVE Places(f) \subseteq PlacesThen(f)
    <2> SUFFICES ASSUME NEW i \in Places(f) PROVE i \in PlacesThen(f)
      OBVIOUS
    <2>1. PICK j \in i..Len(placed) : placed[j] = f
      BY DEF Places, PlacesThen
    <2>2. i \in 1..Len(placed)
      BY <1>1 DEF Places, PlacesThen
    <2>3. j \in 1..Len(placed) /\ j \in i..Len(placed')
      BY <1>1, <2>1, <2>2
    <2>4. placed'[j] = f /\ i \in DOMAIN placed'
      BY <1>1, <2>1, <2>2, <2>3
    <2> QED
      BY <2>3, <2>4 DEF Places, PlacesThen
  <1>4. ASSUME NEW f, f # x PROVE PlacesThen(f) \subseteq Places(f)
    <2> SUFFICES ASSUME NEW i \in PlacesThen(f) PROVE i \in Places(f)
      OBVIOUS
    <2>1. i \in 1..Len(placed') /\ \E j \in i..Len(placed') : placed'[j] = f
      BY <1>1 DEF Places, PlacesThen
    <2>2. PICK j \in i..Len(placed') : placed'[j] = f
      BY <2>1
    <2>3. j # Len(placed) + 1
      BY <1>1, <1>4, <2>2
    <2>4. j \in 1..Len(placed) /\ j \in i..Len(placed) /\ i \in 1..Len(placed)
      BY <1>1, <2>1, <2>2, <2>3
    <2>5. placed[j] = f /\ i \in DOMAIN placed
      BY <1>1, <2>2, <2>4
    <2> QED
      BY <2>4, <2>5 DEF Places, PlacesThen
  <1>5. ASSUME NEW f PROVE PlacesThen(f) \subseteq PlacesThen(x)
    <2> SUFFICES ASSUME NEW i \in PlacesThen(f) PROVE i \in PlacesThen(x)
      OBVIOUS
    <2>1. i \in 1..Len(placed') /\ i \in DOMAIN placed'
      BY <1>1 DEF Places, PlacesThen
    <2>2. Len(placed') \in i..Len(placed') /\ placed'[Len(placed')] = x
      BY <1>1, <2>1
    <2> QED
      BY <2>1, <2>2 DEF Places, PlacesThen
  <1>6. ASSUME NEW f, f # x PROVE PlacesThen(f) = Places(f)
    <2>1. Places(f) \subseteq PlacesThen(f) /\ PlacesThen(f) \subseteq Places(f)
      BY <1>3, <1>4, <1>6
    <2> QED
      BY <2>1
  <1>7. \A f : f # x => PlacesThen(f) = Places(f)
    BY <1>6
  <1>8. \A f : Places(f) \subseteq PlacesThen(f) /\ PlacesThen(f) \subseteq PlacesThen(x)
    BY <1>3, <1>5
  <1> QED
    BY <1>1, <1>2, <1>7, <1>8

\* A step of one call: `x` is the file whose text it changes or makes, 0 when none.
LEMMA CallStepKeeps ==
    ASSUME DurableInv, NEW w \in FileWriters, NEW call \in Calls, Does(w, call),
           UNCHANGED reading, ~Doing(w, "ok"),
           \* the files
           NEW x \in Nat,
           contents' \in Seq(Nat), Len(contents') \in Nat, Len(contents') >= Len(contents),
           \A f \in 1..Len(contents) : f # x =>
              contents'[f] = contents[f] /\ (f \in synced => f \in synced'),
           \A f \in 1..Len(contents') : f \in 1..Len(contents) \/ f = x,
           x \in Put => KeptThen(x),
           \A v \in FileWriters :
              v # w /\ writing[v].on = "target" => writing[v].made # x \/ x = 0,
           WasThere => x # 1,
           ~WasThere => contents'[x] # Original \/ x = 0,
           \* the directory
           entry' \in [EntryNames -> 0..Len(contents')],
           survivors' = survivors \cup {entry'},
           \A v \in FileWriters, on \in {"target", "bak"} : v # w => entry'[<<v, on>>] = entry[<<v, on>>],
           \/ UNCHANGED placed /\ entry'[Target] = entry[Target]
           \/ /\ placed' = Append(placed, call.made) /\ entry'[Target] = call.made
              /\ call.made # 0 /\ call.on = "target"
              /\ KeptThen(call.made) \/ entry[Target] = 0,
           \/ entry'[Backup] = entry[Backup]
           \/ /\ UNCHANGED placed /\ entry'[Backup] \notin Put
              /\ \A v \in FileWriters : v # w /\ writing[v].on = "target" =>
                    writing[v].made # entry'[Backup]
              /\ call.on = "target" => call.made # entry'[Backup],
           \* the call
           CallInv(w)', call.kind = writing[w].kind,
           call.made = 0 \/ call.made = writing[w].made
              \/ (call.made \in 1..Len(contents') /\ call.made \notin 1..Len(contents)),
           call.on = writing[w].on \/ call.made = 0 \/ writing[w].made = 0,
           ~WasThere => call.text # Original,
           call.step = "ok" => call.kind = "plain",
           call.step = "sync" /\ call.on = "target" =>
              entry'[Target] = call.made /\ KeptThen(call.made)
    PROVE  DurableInv'
  <1>1. /\ writing' \in [FileWriters -> Calls] /\ writing'[w] = call
        /\ \A v \in FileWriters : v # w => writing'[v] = writing[v]
    BY DEF DurableInv, FileTyped, Does
  <1>2. /\ contents \in Seq(Nat) /\ Len(contents) \in Nat /\ placed \in Seq(Nat)
        /\ entry \in survivors /\ survivors \subseteq [EntryNames -> 0..Len(contents)]
        /\ \A f \in Put : f \in 1..Len(contents)
        /\ \A v \in FileWriters : writing[v].made \in 0..Len(contents)
        /\ Target \in EntryNames /\ Backup \in EntryNames
        /\ call.made \in Nat
    BY NamesAre DEF DurableInv, FileTyped, Calls
  <1>3. /\ placed' \in Seq(Nat) /\ Put \subseteq Put'
        /\ \A f \in Put' : f \in Put \/ (f = call.made /\ f = entry'[Target] /\ call.on = "target" /\ f # 0)
        /\ \A f : Places(f) \subseteq PlacesThen(f)
        /\ \A f : f # call.made => PlacesThen(f) = Places(f)
        /\ Put' = Put \/ \A f : PlacesThen(f) \subseteq PlacesThen(entry'[Target])
        /\ entry'[Target] # entry[Target] => \A f : PlacesThen(f) \subseteq PlacesThen(entry'[Target])
        /\ entry'[Target] # entry[Target] => entry'[Target] \in Put'
        /\ UNCHANGED placed => Put' = Put
    <2>1. CASE UNCHANGED placed /\ entry'[Target] = entry[Target]
      BY <1>2, <2>1 DEF Put, Places, PlacesThen
    <2>2. CASE placed' = Append(placed, call.made) /\ entry'[Target] = call.made
               /\ call.made # 0 /\ call.on = "target"
      <3>1. /\ placed' \in Seq(Nat) /\ Put' = Put \cup {call.made}
            /\ \A f : f # call.made => PlacesThen(f) = Places(f)
            /\ \A f : Places(f) \subseteq PlacesThen(f) /\ PlacesThen(f) \subseteq PlacesThen(call.made)
        BY <1>2, <2>2, PlacesAppend
      <3>2. UNCHANGED placed => Put' = Put
        BY DEF Put
      <3>3. \A f : PlacesThen(f) \subseteq PlacesThen(entry'[Target])
        BY <2>2, <3>1
      <3>4. \A f \in Put' : f \in Put \/ (f = call.made /\ f = entry'[Target]
                                          /\ call.on = "target" /\ f # 0)
        BY <2>2, <3>1
      <3>5. Put \subseteq Put' /\ entry'[Target] \in Put'
        BY <2>2, <3>1
      <3> QED
        BY <3>1, <3>2, <3>3, <3>4, <3>5
    <2> QED
      BY <2>1, <2>2
  <1>4. \A f \in 1..Len(contents) : f # x /\ Kept(f) => KeptThen(f)
    BY DEF Kept, KeptThen
  <1>5. \A f \in Put : Kept(f) => KeptThen(f)
    BY <1>2, <1>4
  <1>6. FileTyped'
    <2>1. survivors' \subseteq [EntryNames -> 0..Len(contents')] /\ entry' \in survivors'
      <3>1. 0..Len(contents) \subseteq 0..Len(contents')
        BY <1>2
      <3> QED
        BY <1>2, <3>1
    <2>2. \A f \in Put' : f \in 1..Len(contents')
      <3>1. entry'[Target] \in 0..Len(contents')
        BY <1>2
      <3> QED
        BY <1>2, <1>3, <3>1
    <2>3. \A v \in FileWriters : writing'[v].made \in 0..Len(contents')
      <3> TAKE v \in FileWriters
      <3>1. writing[v].made \in 0..Len(contents')
        BY <1>2
      <3>2. call.made \in 0..Len(contents')
        BY <1>2
      <3> QED
        BY <1>1, <3>1, <3>2
    <2> QED
      BY <1>1, <1>3, <2>1, <2>2, <2>3 DEF DurableInv, FileTyped
  <1>7. \A v \in FileWriters : CallInv(v)'
    <2> TAKE v \in FileWriters
    <2>1. CASE v = w
      BY <2>1
    <2>2. CASE v # w
      <3>1. CallInv(v) /\ writing'[v] = writing[v] /\ writing[v] \in Calls
        BY <1>1, <2>2 DEF DurableInv, FileTyped
      <3>2. Hidden(v)' = Hidden(v)
        BY <3>1 DEF Hidden
      <3>3. entry'[<<v, writing[v].on>>] = entry[<<v, writing[v].on>>]
        BY <2>2, <3>1 DEF Calls
      <3>4. Kept(writing[v].made) /\ writing[v].on = "target" => KeptThen(writing[v].made)
        <4> SUFFICES ASSUME Kept(writing[v].made), writing[v].on = "target"
                     PROVE  KeptThen(writing[v].made)
          OBVIOUS
        <4>1. writing[v].made \in 1..Len(contents)
          BY <1>2 DEF Kept
        <4>2. writing[v].made # x
          BY <1>2, <2>2, <4>1
        <4> QED
          BY <1>4, <4>1, <4>2
      <3> QED
        BY <3>1, <3>3, <3>4 DEF CallInv, Doing, Hidden, Kept, KeptThen
    <2> QED
      BY <2>1, <2>2
  <1>8. ApartInv'
    <2>1. \A v, u \in FileWriters :
              v # u /\ writing[v].made # 0 => writing[v].made # writing[u].made
      BY DEF DurableInv, ApartInv
    <2>2. \A v, u \in FileWriters :
              v # u /\ writing'[v].made # 0 => writing'[v].made # writing'[u].made
      <3> TAKE v, u \in FileWriters
      <3> HAVE v # u /\ writing'[v].made # 0
      <3>1. CASE v = w
        <4>1. writing'[u] = writing[u] /\ writing'[v] = call /\ writing[u].made \in 0..Len(contents)
          BY <1>1, <1>2, <3>1
        <4>2. CASE call.made = writing[w].made
          BY <2>1, <3>1, <4>1, <4>2
        <4>3. CASE call.made \notin 1..Len(contents)
          BY <4>1, <4>3
        <4> QED
          BY <4>1, <4>2, <4>3
      <3>2. CASE u = w
        <4>1. writing'[v] = writing[v] /\ writing'[u] = call /\ writing[v].made \in 0..Len(contents)
          BY <1>1, <1>2, <3>2
        <4>2. CASE call.made = writing[w].made
          BY <2>1, <3>2, <4>1, <4>2
        <4>3. CASE call.made \notin 1..Len(contents)
          BY <4>1, <4>3
        <4> QED
          BY <4>1, <4>2, <4>3
      <3>3. CASE v # w /\ u # w
        BY <1>1, <2>1, <3>3
      <3> QED
        BY <3>1, <3>2, <3>3
    <2>3. \A v \in FileWriters :
              writing'[v].on = "bak" /\ writing'[v].made # 0 => writing'[v].made \notin Put'
      <3> SUFFICES ASSUME NEW v \in FileWriters, writing'[v].on = "bak", writing'[v].made # 0
                   PROVE  writing'[v].made \notin Put'
        OBVIOUS
      <3>1. CASE v = w
        <4>1. call.made \notin Put
          BY <1>1, <1>2, <3>1 DEF DurableInv, ApartInv
        <4> QED
          BY <1>1, <1>3, <3>1, <4>1
      <3>2. CASE v # w
        <4>1. writing'[v] = writing[v] /\ writing[v].made \notin Put
          BY <1>1, <3>2 DEF DurableInv, ApartInv
        <4>2. writing[v].made # call.made
          BY <1>1, <2>2, <3>2, <4>1
        <4> QED
          BY <1>3, <4>1, <4>2
      <3> QED
        BY <3>1, <3>2
    <2>4. ASSUME NEW s \in survivors
          PROVE  /\ s[Target] # 0 => s[Target] \in Put'
                 /\ s[Backup] # 0 =>
                       /\ s[Backup] \notin Put'
                       /\ \A v \in FileWriters : writing'[v].on = "target" => writing'[v].made # s[Backup]
      <3>1. /\ s[Target] # 0 => s[Target] \in Put
            /\ s[Backup] # 0 =>
                  /\ s[Backup] \notin Put
                  /\ \A v \in FileWriters : writing[v].on = "target" => writing[v].made # s[Backup]
        BY DEF DurableInv, ApartInv
      <3>2. s[Backup] \in 0..Len(contents)
        BY <1>2
      <3>3. s[Backup] # 0 /\ call.on = "target" => call.made # s[Backup]
        BY <1>2, <3>1, <3>2
      <3>4. s[Backup] # 0 => s[Backup] \notin Put'
        BY <1>3, <3>1, <3>3
      <3> QED
        BY <1>1, <1>3, <3>1, <3>3, <3>4
    <2>5. /\ entry'[Target] # 0 => entry'[Target] \in Put'
          /\ entry'[Backup] # 0 =>
                /\ entry'[Backup] \notin Put'
                /\ \A v \in FileWriters :
                      writing'[v].on = "target" => writing'[v].made # entry'[Backup]
      <3>1. entry'[Target] # 0 => entry'[Target] \in Put'
        BY <1>2, <1>3, <2>4
      <3>2. CASE entry'[Backup] = entry[Backup]
        BY <1>2, <2>4, <3>1, <3>2
      <3>3. CASE /\ UNCHANGED placed /\ entry'[Backup] \notin Put
                 /\ \A v \in FileWriters : v # w /\ writing[v].on = "target" =>
                       writing[v].made # entry'[Backup]
                 /\ call.on = "target" => call.made # entry'[Backup]
        BY <1>1, <1>3, <3>1, <3>3
      <3> QED
        BY <3>2, <3>3
    <2> QED
      BY <2>2, <2>3, <2>4, <2>5 DEF ApartInv
  <1>9. (WasThere' <=> WasThere) /\ ThereInv'
    <2>1. CASE WasThere
      <3>1. /\ 1 \in synced /\ 1 \in Put /\ 1 \in 1..Len(contents) /\ contents[1] = Original
            /\ \A v \in FileWriters : writing[v].made # 1
        BY <1>2, <2>1 DEF DurableInv, ThereInv, WasThere
      <3>2. contents'[1] = Original /\ 1 \in synced' /\ Len(contents') > 0
        <4>1. 1 # x /\ Len(contents) \in Nat /\ Len(contents') \in Nat
          BY <1>2, <2>1
        <4>2. contents'[1] = contents[1] /\ 1 \in synced'
          BY <1>2, <3>1, <4>1
        <4>3. Len(contents') >= Len(contents) /\ Len(contents) >= 1
          BY <1>2, <3>1
        <4> QED
          BY <3>1, <4>1, <4>2, <4>3
      <3>3. \A v \in FileWriters : writing'[v].made # 1
        <4>1. call.made # 1
          BY <1>2, <3>1
        <4> QED
          BY <1>1, <3>1, <4>1
      <3> QED
        BY <1>3, <2>1, <3>1, <3>2, <3>3 DEF WasThere, ThereInv
    <2>2. CASE ~WasThere
      <3>1. /\ \A f \in 1..Len(contents) : contents[f] # Original
            /\ \A v \in FileWriters : writing[v].text # Original
        BY <2>2 DEF DurableInv, ThereInv
      <3>2. \A f \in 1..Len(contents') : contents'[f] # Original
        BY <2>2, <3>1
      <3>3. \A v \in FileWriters : writing'[v].text # Original
        BY <1>1, <2>2, <3>1
      <3>4. ~WasThere'
        BY <3>2 DEF WasThere
      <3> QED
        BY <2>2, <3>2, <3>3, <3>4 DEF ThereInv
    <2> QED
      BY <2>1, <2>2
  <1>10. \A s \in survivors : Kept(s[Target]) => KeptThen(s[Target])
    <2> SUFFICES ASSUME NEW s \in survivors, Kept(s[Target]) PROVE KeptThen(s[Target])
      OBVIOUS
    <2>1. s[Target] \in Put
      BY DEF DurableInv, ApartInv, Kept
    <2> QED
      BY <1>5, <2>1
  <1>11. Kept(entry[Target]) => KeptThen(entry'[Target])
    <2> SUFFICES ASSUME Kept(entry[Target]) PROVE KeptThen(entry'[Target])
      OBVIOUS
    <2>1. KeptThen(entry[Target]) /\ entry[Target] # 0
      BY <1>2, <1>10 DEF Kept
    <2>2. CASE entry'[Target] = entry[Target]
      BY <2>1, <2>2
    <2>3. CASE entry'[Target] # entry[Target]
      BY <2>1, <2>3
    <2> QED
      BY <2>2, <2>3
  <1>12. TargetKept'
    <2> SUFFICES ASSUME WasThere, NEW s \in survivors'
                 PROVE  s[Target] # 0 /\ contents'[s[Target]] # 0 /\ s[Target] \in synced'
      BY <1>9 DEF TargetKept, Kept
    <2>1. \A r \in survivors : Kept(r[Target])
      BY DEF DurableInv, TargetKept
    <2>2. KeptThen(s[Target])
      BY <1>2, <1>10, <1>11, <2>1
    <2> QED
      BY <2>2 DEF KeptThen
  <1>13. AckInv'
    <2>1. ASSUME NEW v \in FileWriters, v # w, NEW s, NEW r,
                 Kept(r[Target]) /\ Places(writing[v].made) \subseteq Places(r[Target]),
                 KeptThen(s[Target]), writing[v].made # call.made,
                 \/ s[Target] = r[Target]
                 \/ \A f : PlacesThen(f) \subseteq PlacesThen(s[Target])
          PROVE  KeptThen(s[Target]) /\ PlacesThen(writing[v].made) \subseteq PlacesThen(s[Target])
      <3>1. PlacesThen(writing[v].made) = Places(writing[v].made)
        BY <1>3, <2>1
      <3>2. Places(r[Target]) \subseteq PlacesThen(r[Target])
        BY <1>3
      <3> QED
        BY <2>1, <3>1, <3>2
    <2>2. \A v \in FileWriters : v # w /\ writing[v].made # 0 => writing[v].made # call.made
      BY <1>1, <1>8 DEF ApartInv
    <2>3. ASSUME NEW v \in FileWriters, writing'[v].step = "ok", writing'[v].kind # "plain",
                 NEW s \in survivors'
          PROVE  KeptThen(s[Target]) /\ PlacesThen(writing'[v].made) \subseteq PlacesThen(s[Target])
      <3>1. v # w /\ writing'[v] = writing[v]
        BY <1>1, <2>3
      <3>2. v \in Acknowledged /\ writing[v].made # 0
        BY <2>3, <3>1 DEF Acknowledged, Doing, Is, DurableInv, CallInv, CallIs
      <3>3. \A r \in survivors :
               Kept(r[Target]) /\ Places(writing[v].made) \subseteq Places(r[Target])
        BY <3>2 DEF DurableInv, AckInv
      <3>4. writing[v].made # call.made
        BY <2>2, <3>1, <3>2
      <3>5. CASE s \in survivors
        BY <1>10, <2>1, <3>1, <3>3, <3>4, <3>5
      <3>6. CASE s = entry'
        <4>1. KeptThen(s[Target])
          BY <1>2, <1>11, <3>3, <3>6
        <4>2. \/ s[Target] = entry[Target]
              \/ \A f : PlacesThen(f) \subseteq PlacesThen(s[Target])
          BY <1>3, <3>6
        <4> QED
          BY <1>2, <2>1, <3>1, <3>3, <3>4, <4>1, <4>2
      <3> QED
        BY <3>5, <3>6
    <2>4. ASSUME NEW v \in FileWriters, writing'[v].step = "sync", writing'[v].on = "target"
          PROVE  /\ KeptThen(entry'[Target])
                 /\ PlacesThen(writing'[v].made) \subseteq PlacesThen(entry'[Target])
      <3>1. CASE v = w
        BY <1>1, <2>4, <3>1
      <3>2. CASE v # w
        <4>1. writing'[v] = writing[v] /\ writing[v].made # 0
          BY <1>1, <2>4, <3>2 DEF DurableInv, CallInv, CallIs
        <4>2. Kept(entry[Target]) /\ Places(writing[v].made) \subseteq Places(entry[Target])
          BY <2>4, <4>1 DEF DurableInv, AckInv, Doing
        <4>3. KeptThen(entry'[Target]) /\ writing[v].made # call.made
          BY <1>11, <2>2, <3>2, <4>1, <4>2
        <4>4. \/ entry'[Target] = entry[Target]
              \/ \A f : PlacesThen(f) \subseteq PlacesThen(entry'[Target])
          BY <1>3
        <4> QED
          BY <2>1, <3>2, <4>1, <4>2, <4>3, <4>4
      <3> QED
        BY <3>1, <3>2
    <2> QED
      BY <2>3, <2>4 DEF AckInv, Acknowledged, Doing, Is, KeptThen, PlacesThen, Kept, Places
  <1>14. ReadersGetWholeTexts'
    BY <1>9 DEF DurableInv, ReadersGetWholeTexts
  <1> QED
    BY <1>6, <1>7, <1>8, <1>9, <1>12, <1>13, <1>14 DEF DurableInv

\* A step that changes neither a file nor a name.
LEMMA CallOnlyKeeps ==
    ASSUME DurableInv, NEW w \in FileWriters, NEW call \in Calls, Does(w, call),
           UNCHANGED <<reading, contents, synced, entry, placed, survivors>>, ~Doing(w, "ok"),
           CallInv(w)', call.kind = writing[w].kind, call.made = writing[w].made,
           call.on = writing[w].on \/ call.made = 0,
           ~WasThere => call.text # Original, call.step # "ok",
           call.step = "sync" /\ call.on = "target" => entry[Target] = call.made /\ Kept(call.made)
    PROVE  DurableInv'
  <1>1. /\ contents \in Seq(Nat) /\ Len(contents) \in Nat /\ entry \in survivors
        /\ entry \in [EntryNames -> 0..Len(contents)] /\ 0 \notin Put
    BY DEF DurableInv, FileTyped
  <1> DEFINE x == 0
  <1>2. /\ contents' \in Seq(Nat) /\ Len(contents') \in Nat /\ Len(contents') >= Len(contents)
        /\ \A f \in 1..Len(contents) : f # x =>
              contents'[f] = contents[f] /\ (f \in synced => f \in synced')
        /\ \A f \in 1..Len(contents') : f \in 1..Len(contents) \/ f = x
        /\ entry' \in [EntryNames -> 0..Len(contents')] /\ survivors' = survivors \cup {entry'}
        /\ x \notin Put /\ x \in Nat
    BY <1>1
  <1>3. call.step = "sync" /\ call.on = "target" => KeptThen(call.made)
    BY DEF Kept, KeptThen
  <1>4. WasThere => x # 1
    OBVIOUS
  <1>5. \A v \in FileWriters : v # w /\ writing[v].on = "target" => writing[v].made # x \/ x = 0
    OBVIOUS
  <1> QED
    BY <1>2, <1>3, <1>4, <1>5, CallStepKeeps

\* What a step may use of a call.
LEMMA CallFacts ==
    ASSUME DurableInv, NEW w \in FileWriters
    PROVE  /\ writing[w] \in Calls /\ CallInv(w) /\ w # 0 /\ w \in Nat /\ w # Original
           /\ contents \in Seq(Nat) /\ Len(contents) \in Nat
           /\ \A f \in 1..Len(contents) : contents[f] \in Nat
           /\ entry \in survivors /\ entry \in [EntryNames -> 0..Len(contents)]
           /\ survivors = survivors \cup {entry}
           /\ Put \subseteq 1..Len(contents) /\ 0 \notin Put
           /\ writing[w].made \in 0..Len(contents)
           /\ Target \in EntryNames /\ Backup \in EntryNames /\ Target # Backup
           /\ Hidden(w) \in EntryNames /\ Hidden(w) # Target /\ Hidden(w) # Backup
           /\ On(w) = (IF writing[w].on = "target" THEN Target ELSE Backup)
           /\ \A v \in FileWriters, on \in {"target", "bak"} : v # w =>
                 <<v, on>> # Hidden(w) /\ <<v, on>> # Target /\ <<v, on>> # Backup
                 /\ <<v, on>> \in EntryNames
  <1>1. /\ writing[w] \in Calls /\ CallInv(w) /\ contents \in Seq(Nat) /\ Len(contents) \in Nat
        /\ entry \in survivors /\ survivors \subseteq [EntryNames -> 0..Len(contents)]
        /\ \A f \in Put : f \in 1..Len(contents)
        /\ writing[w].made \in 0..Len(contents)
    BY DEF DurableInv, FileTyped
  <1>2. w # 0 /\ w \in Nat /\ w # Original
    BY DurableAssumption
  <1>3. \A f \in 1..Len(contents) : contents[f] \in Nat
    BY <1>1, ElementOfSeq
  <1>4. writing[w].on \in {"target", "bak"}
    BY <1>1 DEF Calls
  <1>5. On(w) = (IF writing[w].on = "target" THEN Target ELSE Backup)
    BY <1>4 DEF On, Target, Backup
  <1>6. Hidden(w) \in EntryNames /\ Hidden(w) # Target /\ Hidden(w) # Backup
    BY <1>4, NamesAre DEF Hidden
  <1>7. \A v \in FileWriters, on \in {"target", "bak"} : v # w =>
                 <<v, on>> # Hidden(w) /\ <<v, on>> # Target /\ <<v, on>> # Backup
                 /\ <<v, on>> \in EntryNames
    BY <1>4, NamesAre DEF Hidden
  <1> QED
    BY <1>1, <1>2, <1>3, <1>5, <1>6, <1>7, NamesAre

\* A file no call had: its place in the contents.
LEMMA NewFileIs ==
    ASSUME DurableInv, NEW body \in Nat, contents' = Append(contents, body)
    PROVE  /\ contents' \in Seq(Nat) /\ Len(contents') \in Nat /\ Len(contents') = Len(contents) + 1
           /\ NewFile = Len(contents') /\ NewFile \in 1..Len(contents') /\ NewFile # 0
           /\ NewFile \notin 1..Len(contents) /\ NewFile \in Nat /\ NewFile \notin Put
           /\ Len(contents') >= Len(contents) /\ 0..Len(contents) \subseteq 0..Len(contents')
           /\ \A f \in 1..Len(contents) : contents'[f] = contents[f]
           /\ \A f \in 1..Len(contents') : f \in 1..Len(contents) \/ f = NewFile
           /\ contents'[NewFile] = body
           /\ \A v \in FileWriters : writing[v].made # NewFile
           /\ \A s \in survivors : s[Target] # NewFile /\ s[Backup] # NewFile
           /\ WasThere => NewFile # 1
  <1>1. /\ contents \in Seq(Nat) /\ Len(contents) \in Nat
        /\ survivors \subseteq [EntryNames -> 0..Len(contents)]
        /\ \A f \in Put : f \in 1..Len(contents)
        /\ \A v \in FileWriters : writing[v].made \in 0..Len(contents)
        /\ Target \in EntryNames /\ Backup \in EntryNames
    BY NamesAre DEF DurableInv, FileTyped
  <1>2. /\ contents' \in Seq(Nat) /\ Len(contents') = Len(contents) + 1
        /\ \A f \in 1..Len(contents) : contents'[f] = contents[f]
        /\ contents'[Len(contents) + 1] = body
    BY <1>1, AppendProperties
  <1>3. WasThere => Len(contents) >= 1
    BY <1>1 DEF WasThere
  <1>4. \A s \in survivors : s[Target] \in 0..Len(contents) /\ s[Backup] \in 0..Len(contents)
    BY <1>1
  <1>5. NewFile = Len(contents) + 1
    BY DEF NewFile
  <1> QED
    BY <1>1, <1>2, <1>3, <1>4, <1>5

\* A call begins, looks at a name, gives up or goes on.
LEMMA LooksAtNames ==
    ASSUME DurableInv, NEW w \in FileWriters, StartWrite(w) \/ LookAgain(w) \/ VerifyEntry(w)
    PROVE  DurableInv'
  <1>1. /\ writing[w] \in Calls /\ CallInv(w) /\ w \in Nat /\ w # Original /\ CallIs(w, writing[w])
        /\ UNCHANGED <<reading, contents, synced, entry, placed, survivors>> /\ ~Doing(w, "ok")
        /\ Hidden(w)' = <<w, writing'[w].on>>
    BY CallFacts DEF StartWrite, LookAgain, VerifyEntry, DirectorySame, FilesSame, CallInv, Doing,
                     Hidden
  <1>2. writing \in [FileWriters -> Calls]
    BY DEF DurableInv, FileTyped
  <1>3. ~WasThere => writing[w].text # Original
    BY DEF DurableInv, ThereInv
  <1>4. \A f : Kept(f)' = Kept(f)
    BY <1>1 DEF Kept
  <1>5. PICK call \in Calls :
           /\ Does(w, call) /\ CallIs(w, call)
           /\ call.kind = writing[w].kind /\ call.made = writing[w].made
           /\ call.on = writing[w].on \/ call.made = 0
           /\ ~WasThere => call.text # Original
           /\ call.step # "ok"
           /\ call.step \in {"look", "exchange", "fill"} =>
                 entry[<<w, call.on>>] = call.made
           /\ call.on = "target" /\ call.step \in {"look", "exchange", "replace", "verify", "sync"} =>
                 Kept(call.made)
           /\ call.step = "sync" /\ call.on = "target" => entry[Target] = call.made
    <2>1. CASE StartWrite(w)
      <3>1. writing[w].made = 0 /\ writing[w].previous = 0
        BY <1>1, <2>1 DEF StartWrite, Doing, CallIs
      <3>2. CASE Is(w, {"backup"}) /\ entry[Target] # 0
        <4> DEFINE call == [writing[w] EXCEPT !.step = "open", !.on = "bak",
                                              !.text = contents[entry[Target]]]
        <4>1. contents[entry[Target]] \in Nat /\ entry[Target] \in 1..Len(contents)
          BY <3>2, CallFacts
        <4>2. ~WasThere => contents[entry[Target]] # Original
          BY <4>1 DEF DurableInv, ThereInv
        <4>3. /\ call \in Calls /\ call.step = "open" /\ call.on = "bak" /\ call.made = writing[w].made
              /\ call.kind = writing[w].kind /\ call.previous = writing[w].previous
              /\ call.text = contents[entry[Target]]
          BY <1>1, <4>1 DEF Calls, WritingSteps
        <4>4. Does(w, call)
          BY <2>1, <3>2 DEF StartWrite
        <4>5. writing[w].kind # "plain"
          BY <3>2 DEF Is
        <4> HIDE DEF call
        <4>6. CallIs(w, call)
          BY <3>1, <4>3, <4>5 DEF CallIs
        <4> QED
          BY <3>1, <4>2, <4>3, <4>4, <4>6
      <3>3. CASE ~(Is(w, {"backup"}) /\ entry[Target] # 0)
        <4> DEFINE step == CASE Is(w, {"publish"}) -> "create"
                             [] Is(w, {"plain"}) -> "copy"
                             [] OTHER -> "open"
                   call == [writing[w] EXCEPT !.text = w, !.step = step]
        <4>1. step \in {"create", "copy", "open"} /\ (writing[w].kind = "plain" => step = "copy")
          BY DEF Is
        <4>2. Does(w, call)
          BY <2>1, <3>3 DEF StartWrite
        <4> HIDE DEF step
        <4>3. /\ call \in Calls /\ call.step = step /\ call.on = writing[w].on
              /\ call.made = writing[w].made
              /\ call.kind = writing[w].kind /\ call.previous = writing[w].previous
              /\ call.text = w
          BY <1>1, <4>1 DEF Calls, WritingSteps
        <4> HIDE DEF call
        <4>4. CallIs(w, call)
          BY <1>1, <3>1, <4>1, <4>3 DEF CallIs
        <4> QED
          BY <1>1, <3>1, <4>1, <4>2, <4>3, <4>4
      <3> QED
        BY <3>2, <3>3
    <2>2. CASE LookAgain(w)
      <3> DEFINE step == IF entry[On(w)] = writing[w].previous THEN "exchange" ELSE "failed"
                 call == [writing[w] EXCEPT !.step = step]
      <3>1. step \in {"exchange", "failed"} /\ Does(w, call) /\ writing[w].step = "look"
        BY <2>2 DEF LookAgain, Doing
      <3> HIDE DEF step
      <3>2. /\ call \in Calls /\ call.step = step /\ call.on = writing[w].on
            /\ call.made = writing[w].made /\ call.text = writing[w].text
            /\ call.kind = writing[w].kind /\ call.previous = writing[w].previous
        BY <1>1, <3>1 DEF Calls, WritingSteps
      <3> HIDE DEF call
      <3>3. CallIs(w, call)
        BY <1>1, <3>1, <3>2 DEF CallIs
      <3>4. /\ entry[<<w, call.on>>] = call.made
            /\ call.on = "target" => Kept(call.made)
        BY <1>1, <3>1, <3>2 DEF CallInv, Doing, Hidden
      <3> QED
        BY <1>3, <3>1, <3>2, <3>3, <3>4
    <2>3. CASE VerifyEntry(w)
      <3> DEFINE step == IF entry[On(w)] = writing[w].made THEN "sync" ELSE "failed"
                 call == [writing[w] EXCEPT !.step = step]
      <3>1. /\ step \in {"sync", "failed"} /\ Does(w, call) /\ writing[w].step = "verify"
            /\ step = "sync" => entry[On(w)] = writing[w].made
        BY <2>3 DEF VerifyEntry, Doing
      <3> HIDE DEF step
      <3>2. /\ call \in Calls /\ call.step = step /\ call.on = writing[w].on
            /\ call.made = writing[w].made /\ call.text = writing[w].text
            /\ call.kind = writing[w].kind /\ call.previous = writing[w].previous
        BY <1>1, <3>1 DEF Calls, WritingSteps
      <3> HIDE DEF call
      <3>3. CallIs(w, call)
        BY <1>1, <3>1, <3>2 DEF CallIs
      <3>4. call.on = "target" => Kept(call.made)
        BY <1>1, <3>1, <3>2 DEF CallInv, Doing
      <3>5. call.step = "sync" /\ call.on = "target" => entry[Target] = call.made
        BY <3>1, <3>2, CallFacts
      <3> QED
        BY <1>3, <3>1, <3>2, <3>3, <3>4, <3>5
    <2> QED
      BY <2>1, <2>2, <2>3
  <1>6. writing'[w] = call
    BY <1>2, <1>5 DEF Does
  <1>7. CallInv(w)'
    BY <1>1, <1>4, <1>5, <1>6 DEF CallInv, Doing, Hidden, Kept
  <1> QED
    BY <1>1, <1>4, <1>5, <1>7, CallOnlyKeeps

\* The steps that give up or pass without a file: nothing but the call changes.
LEMMA PassesBy ==
    ASSUME DurableInv, NEW w \in FileWriters,
           NEW step \in {"create", "failed", "temporary", "copied"},
           Does(w, [writing[w] EXCEPT !.step = step]),
           step = "create" => Doing(w, "open"),
           step = "temporary" => Doing(w, "copy") \/ Doing(w, "copied"),
           step = "copied" => Doing(w, "copy"),
           ~Doing(w, "ok"), ~Doing(w, "start"), ~Doing(w, "failed")
    PROVE  /\ \E call \in Calls :
                /\ call = [writing[w] EXCEPT !.step = step] /\ call.step = step
                /\ writing'[w] = call
                /\ Does(w, call) /\ CallIs(w, call)
                /\ call.kind = writing[w].kind /\ call.made = writing[w].made
                /\ call.on = writing[w].on /\ (~WasThere => call.text # Original)
           /\ CallInv(w)'
  <1>1. /\ writing[w] \in Calls /\ CallIs(w, writing[w])
        /\ ~WasThere => writing[w].text # Original
    BY CallFacts DEF CallInv, DurableInv, ThereInv
  <1> DEFINE call == [writing[w] EXCEPT !.step = step]
  <1>2. /\ call \in Calls /\ call.step = step /\ call.on = writing[w].on
        /\ call.made = writing[w].made /\ call.text = writing[w].text
        /\ call.kind = writing[w].kind /\ call.previous = writing[w].previous
    BY <1>1 DEF Calls, WritingSteps
  <1>3. writing'[w] = call
    BY DEF Does, DurableInv, FileTyped
  <1>4. Does(w, call) /\ call = [writing[w] EXCEPT !.step = step]
    OBVIOUS
  <1> HIDE DEF call
  <1>5. CallIs(w, call)
    BY <1>1, <1>2 DEF CallIs, Doing
  <1>6. CallInv(w)'
    BY <1>2, <1>3, <1>5 DEF CallInv, Doing
  <1> QED
    BY <1>1, <1>2, <1>3, <1>4, <1>5, <1>6

\* A call that fails, or has nothing to copy.
LEMMA NothingWritten ==
    ASSUME DurableInv, NEW w \in FileWriters,
           NEW step \in {"create", "failed", "temporary"},
           Does(w, [writing[w] EXCEPT !.step = step]),
           step = "create" => Doing(w, "open"),
           step = "temporary" => Doing(w, "copy") \/ Doing(w, "copied"),
           ~Doing(w, "ok"), ~Doing(w, "start"), ~Doing(w, "failed"),
           UNCHANGED <<reading, contents, synced, entry, placed, survivors>>
    PROVE  DurableInv'
  <1>0. step \in {"create", "failed", "temporary", "copied"} /\ step # "copied"
    OBVIOUS
  <1>a. /\ \E call \in Calls :
              /\ call = [writing[w] EXCEPT !.step = step] /\ call.step = step
              /\ writing'[w] = call
              /\ Does(w, call) /\ CallIs(w, call)
              /\ call.kind = writing[w].kind /\ call.made = writing[w].made
              /\ call.on = writing[w].on /\ (~WasThere => call.text # Original)
         /\ CallInv(w)'
    BY <1>0, PassesBy
  <1>1. PICK call \in Calls :
                /\ call.step = step /\ Does(w, call)
                /\ call.kind = writing[w].kind /\ call.made = writing[w].made
                /\ call.on = writing[w].on /\ (~WasThere => call.text # Original)
    BY <1>a
  <1>2. CallInv(w)'
    BY <1>a
  <1>3. call.step # "ok" /\ call.step # "sync"
    BY <1>1
  <1> QED
    BY <1>1, <1>2, <1>3, CallOnlyKeeps

\* A new file under a hidden name, the final one or the backup's.
LEMMA MakesFile ==
    ASSUME DurableInv, NEW w \in FileWriters, NEW name \in {Hidden(w), Target, Backup},
           NEW call \in Calls, Does(w, call), Creates(name, 0), UNCHANGED reading,
           synced' = synced \/ synced' = synced \ {0}, ~Doing(w, "ok"), writing[w].made = 0,
           CallIs(w, call), call.kind = writing[w].kind, call.on = writing[w].on,
           call.text = writing[w].text,
           \/ call.step = "fill" /\ call.made = NewFile /\ (call.previous # 0 => name = Hidden(w))
           \/ call.step = "copied" /\ call.made = 0,
           name = Target => call.made = NewFile /\ call.on = "target" /\ entry[Target] = 0,
           name = Backup => call.made = 0 \/ call.on = "bak"
    PROVE  DurableInv'
  <1> DEFINE x == NewFile
  <1>1. /\ contents' = Append(contents, 0) /\ entry' = [entry EXCEPT ![name] = x]
        /\ survivors' = survivors \cup {entry'}
        /\ placed' = IF name = Target THEN Append(placed, x) ELSE placed
    BY DEF Creates, EntryChanges
  <1>2. /\ contents' \in Seq(Nat) /\ Len(contents') \in Nat
        /\ x \in 1..Len(contents') /\ x # 0 /\ x \notin 1..Len(contents)
        /\ x \in Nat /\ x \notin Put
        /\ Len(contents') >= Len(contents) /\ 0..Len(contents) \subseteq 0..Len(contents')
        /\ \A f \in 1..Len(contents) : contents'[f] = contents[f]
        /\ \A f \in 1..Len(contents') : f \in 1..Len(contents) \/ f = x
        /\ contents'[x] = 0 /\ \A v \in FileWriters : writing[v].made # x
        /\ WasThere => x # 1
    BY <1>1, NewFileIs
  <1>3. /\ entry \in [EntryNames -> 0..Len(contents)] /\ Target # Backup
        /\ Target \in EntryNames /\ Backup \in EntryNames /\ name \in EntryNames
        /\ Hidden(w) # Target /\ Hidden(w) # Backup
        /\ \A v \in FileWriters, on \in {"target", "bak"} : v # w =>
                 <<v, on>> # name /\ <<v, on>> \in EntryNames
        /\ writing \in [FileWriters -> Calls] /\ Original # 0
        /\ ~WasThere => writing[w].text # Original
    <2>1. writing \in [FileWriters -> Calls] /\ (~WasThere => writing[w].text # Original)
      BY DEF DurableInv, FileTyped, ThereInv
    <2>2. Original # 0
      BY NamesAre
    <2> HIDE DEF x
    <2>3. /\ entry \in [EntryNames -> 0..Len(contents)] /\ Target # Backup
          /\ Target \in EntryNames /\ Backup \in EntryNames
          /\ Hidden(w) \in EntryNames /\ Hidden(w) # Target /\ Hidden(w) # Backup
          /\ \A v \in FileWriters, on \in {"target", "bak"} : v # w =>
                 <<v, on>> # Hidden(w) /\ <<v, on>> # Target /\ <<v, on>> # Backup
                 /\ <<v, on>> \in EntryNames
      BY CallFacts
    <2> QED
      BY <2>1, <2>2, <2>3
  <1> HIDE DEF x
  <1>4. /\ entry' \in [EntryNames -> 0..Len(contents')] /\ entry'[name] = x
        /\ \A n \in EntryNames : n # name => entry'[n] = entry[n]
    BY <1>1, <1>2, <1>3
  <1>5. \A v \in FileWriters, on \in {"target", "bak"} : v # w =>
            entry'[<<v, on>>] = entry[<<v, on>>]
    BY <1>3, <1>4
  <1>6. \/ UNCHANGED placed /\ entry'[Target] = entry[Target]
        \/ /\ placed' = Append(placed, call.made) /\ entry'[Target] = call.made
           /\ call.made # 0 /\ call.on = "target"
           /\ KeptThen(call.made) \/ entry[Target] = 0
    <2>1. CASE name = Target
      BY <1>1, <1>2, <1>4, <2>1 DEF x
    <2>2. CASE name # Target
      BY <1>1, <1>3, <1>4, <2>2
    <2> QED
      BY <2>1, <2>2
  <1>7. \/ entry'[Backup] = entry[Backup]
        \/ /\ UNCHANGED placed /\ entry'[Backup] \notin Put
           /\ \A v \in FileWriters : v # w /\ writing[v].on = "target" =>
                 writing[v].made # entry'[Backup]
           /\ call.on = "target" => call.made # entry'[Backup]
    <2>1. CASE name = Backup
      <3>1. UNCHANGED placed /\ entry'[Backup] = x
        BY <1>1, <1>3, <1>4, <2>1
      <3>2. call.on = "target" => call.made = 0
        BY <2>1
      <3> QED
        BY <1>2, <3>1, <3>2
    <2>2. CASE name # Backup
      BY <1>3, <1>4, <2>2
    <2> QED
      BY <2>1, <2>2
  <1>8. writing'[w] = call
    BY <1>3 DEF Does
  <1>9. CallInv(w)'
    <2>1. CASE call.step = "fill" /\ call.made = NewFile /\ (call.previous # 0 => name = Hidden(w))
      <3>1. Hidden(w)' = Hidden(w)
        BY <1>8 DEF Hidden
      <3>2. call.previous # 0 => entry'[Hidden(w)'] = call.made
        BY <1>4, <2>1, <3>1 DEF x
      <3> QED
        BY <1>8, <2>1, <3>2 DEF CallInv, Doing
    <2>2. CASE call.step = "copied"
      BY <1>8, <2>2 DEF CallInv, Doing
    <2> QED
      BY <2>1, <2>2
  <1>10. /\ \A f \in 1..Len(contents) : f # x =>
              contents'[f] = contents[f] /\ (f \in synced => f \in synced')
         /\ x \in Put => KeptThen(x)
         /\ \A v \in FileWriters :
              v # w /\ writing[v].on = "target" => writing[v].made # x \/ x = 0
         /\ ~WasThere => contents'[x] # Original \/ x = 0
    BY <1>2, <1>3
  <1>11. /\ call.made = 0 \/ call.made = writing[w].made
              \/ (call.made \in 1..Len(contents') /\ call.made \notin 1..Len(contents))
         /\ ~WasThere => call.text # Original
         /\ call.step # "ok" /\ call.step # "sync"
    <2>1. call.made = 0 \/ call.made = writing[w].made
             \/ (call.made \in 1..Len(contents') /\ call.made \notin 1..Len(contents))
      <3>1. call.made = 0 \/ call.made = x
        BY DEF x
      <3>2. x \in 1..Len(contents') /\ x \notin 1..Len(contents)
        BY <1>2
      <3> QED
        BY <3>1, <3>2
    <2>2. ~WasThere => call.text # Original
      BY <1>3
    <2>3. call.step # "ok" /\ call.step # "sync"
      BY <1>3
    <2> QED
      BY <2>1, <2>2, <2>3
  <1> QED
    BY <1>2, <1>4, <1>5, <1>6, <1>7, <1>9, <1>10, <1>11, <1>1, CallStepKeeps, SMTT(30)

\* The calls that make a file, or find no room for one.
LEMMA FilesMade ==
    ASSUME DurableInv, NEW w \in FileWriters,
           OpenPrevious(w) \/ CreateFinal(w) \/ OpenTemporary(w)
    PROVE  DurableInv'
  <1>1. /\ writing[w] \in Calls /\ CallIs(w, writing[w]) /\ UNCHANGED <<reading, synced>>
        /\ NewFile \in Nat /\ NewFile # 0 /\ entry[On(w)] \in Nat
        /\ On(w) = (IF writing[w].on = "target" THEN Target ELSE Backup)
        /\ writing[w].on \in {"target", "bak"}
        /\ writing[w].made = 0 /\ writing[w].previous = 0
        /\ ~Doing(w, "ok") /\ ~Doing(w, "start") /\ ~Doing(w, "failed")
    <2>1. Len(contents) \in Nat /\ CallIs(w, writing[w]) /\ writing[w] \in Calls
          /\ On(w) = (IF writing[w].on = "target" THEN Target ELSE Backup)
          /\ entry[Target] \in Nat /\ entry[Backup] \in Nat
      BY CallFacts DEF CallInv
    <2>2. NewFile \in Nat /\ NewFile # 0
      BY <2>1 DEF NewFile
    <2>3. writing[w].step \in {"open", "create", "temporary"} /\ UNCHANGED <<reading, synced>>
      BY DEF OpenPrevious, CreateFinal, OpenTemporary, Doing
    <2> QED
      BY <2>1, <2>2, <2>3 DEF CallIs, Doing, Calls
  <1>2. CASE OpenPrevious(w) /\ entry[On(w)] = 0
    <2>1. /\ Does(w, [writing[w] EXCEPT !.step = "create"]) /\ Doing(w, "open")
          /\ UNCHANGED <<entry, survivors, placed, contents>>
      BY <1>2 DEF OpenPrevious, DirectorySame
    <2> QED
      BY <1>1, <2>1, NothingWritten
  <1>3. CASE OpenPrevious(w) /\ entry[On(w)] # 0
    <2> DEFINE call == [writing[w] EXCEPT !.step = "fill", !.previous = entry[On(w)],
                                          !.made = NewFile]
    <2>1. /\ call \in Calls /\ call.step = "fill" /\ call.previous = entry[On(w)]
          /\ call.made = NewFile /\ call.on = writing[w].on /\ call.kind = writing[w].kind
          /\ call.text = writing[w].text
      BY <1>1 DEF Calls, WritingSteps
    <2>2. Does(w, call) /\ Creates(Hidden(w), 0) /\ writing[w].step = "open"
      BY <1>3 DEF OpenPrevious, Doing
    <2> HIDE DEF call
    <2>3. CallIs(w, call)
      BY <1>1, <2>1, <2>2 DEF CallIs
    <2>4. Hidden(w) # Target /\ Hidden(w) # Backup
      BY CallFacts
    <2> QED
      BY <1>1, <2>1, <2>2, <2>3, <2>4, MakesFile
  <1>4. CASE CreateFinal(w) /\ entry[On(w)] # 0
    <2>1. /\ Does(w, [writing[w] EXCEPT !.step = "failed"])
          /\ UNCHANGED <<entry, survivors, placed, contents>>
      BY <1>4 DEF CreateFinal, DirectorySame
    <2> QED
      BY <1>1, <2>1, NothingWritten
  <1>5. CASE (CreateFinal(w) /\ entry[On(w)] = 0) \/ OpenTemporary(w)
    <2> DEFINE call == [writing[w] EXCEPT !.step = "fill", !.made = NewFile]
               name == IF OpenTemporary(w) THEN Hidden(w) ELSE On(w)
    <2>1. /\ call \in Calls /\ call.step = "fill" /\ call.previous = 0
          /\ call.made = NewFile /\ call.on = writing[w].on /\ call.kind = writing[w].kind
          /\ call.text = writing[w].text
      BY <1>1 DEF Calls, WritingSteps
    <2>2. Does(w, call) /\ Creates(name, 0) /\ writing[w].step \in {"create", "temporary"}
      BY <1>5 DEF CreateFinal, OpenTemporary, Doing
    <2>3. /\ name \in {Hidden(w), Target, Backup}
          /\ name = Target => call.on = "target" /\ entry[Target] = 0
          /\ name = Backup => call.on = "bak"
      <3>1. Hidden(w) # Target /\ Hidden(w) # Backup /\ Target # Backup
        BY CallFacts
      <3> QED
        BY <1>1, <1>5, <2>1, <3>1
    <2> HIDE DEF call, name
    <2>4. CallIs(w, call)
      BY <1>1, <2>1, <2>2 DEF CallIs
    <2> QED
      BY <1>1, <2>1, <2>2, <2>3, <2>4, MakesFile
  <1> QED
    BY <1>2, <1>3, <1>4, <1>5

\* A text put into a file: what the file is then.
LEMMA TextPut ==
    ASSUME DurableInv, NEW x \in 1..Len(contents), NEW body \in Nat,
           contents' = [contents EXCEPT ![x] = body]
    PROVE  /\ contents' \in Seq(Nat) /\ Len(contents') = Len(contents) /\ Len(contents) \in Nat
           /\ contents'[x] = body /\ x \in Nat /\ x # 0
           /\ \A f \in 1..Len(contents) : f # x => contents'[f] = contents[f]
           /\ \A f \in 1..Len(contents') : f \in 1..Len(contents)
           /\ entry \in [EntryNames -> 0..Len(contents')] /\ survivors = survivors \cup {entry}
  <1>1. contents \in Seq(Nat) /\ Len(contents) \in Nat /\ x \in Nat /\ x # 0
        /\ entry \in survivors /\ entry \in [EntryNames -> 0..Len(contents)]
    BY DEF DurableInv, FileTyped
  <1>2. DOMAIN contents = 1..Len(contents) /\ \A f \in 1..Len(contents) : contents[f] \in Nat
    BY <1>1, LenProperties, ElementOfSeq
  <1>3. contents' \in Seq(Nat) /\ Len(contents') = Len(contents)
    BY <1>1, ExceptSeq
  <1>4. contents'[x] = body /\ \A f \in 1..Len(contents) : f # x => contents'[f] = contents[f]
    BY <1>2
  <1> QED
    BY <1>1, <1>3, <1>4

\* The text of a call's file written and synced.
LEMMA TextFilledKeeps ==
    ASSUME DurableInv, NEW w \in FileWriters, Fill(w)
    PROVE  DurableInv'
  <1> DEFINE x == writing[w].made
             step == AfterFill(w)
             call == [writing[w] EXCEPT !.step = step]
  <1>1. /\ writing[w] \in Calls /\ CallInv(w) /\ CallIs(w, writing[w]) /\ w # 0 /\ w \in Nat
        /\ writing[w].step = "fill" /\ x # 0 /\ x \in 0..Len(contents) /\ Len(contents) \in Nat
        /\ ~WasThere => writing[w].text # Original
        /\ writing \in [FileWriters -> Calls] /\ writing[w].text \in Nat
    BY CallFacts DEF Fill, Doing, CallInv, CallIs, DurableInv, ThereInv, FileTyped, Calls
  <1>2. /\ contents' = [contents EXCEPT ![x] = writing[w].text] /\ synced' = synced \cup {x}
        /\ Does(w, call) /\ UNCHANGED <<entry, survivors, placed, reading>>
    BY DEF Fill, Synced, DirectorySame
  <1>3. /\ step \in {"replace", "look", "verify"}
        /\ step = "replace" => writing[w].kind = "plain"
        /\ writing[w].kind = "plain" => step = "replace"
        /\ step = "look" => writing[w].previous # 0
    <2>1. CASE writing[w].kind = "plain"
      <3>1. writing[w].previous = 0
        BY <1>1, <2>1 DEF CallIs
      <3> QED
        BY <2>1, <3>1 DEF AfterFill, Is
    <2>2. CASE writing[w].kind # "plain" /\ writing[w].previous # 0
      BY <2>2 DEF AfterFill, Is
    <2>3. CASE writing[w].kind # "plain" /\ writing[w].previous = 0
      BY <2>3 DEF AfterFill, Is
    <2> QED
      BY <2>1, <2>2, <2>3
  <1>4. x \in 1..Len(contents)
    BY <1>1
  <1>5. /\ x \in Put => writing[w].on = "target"
        /\ \A v \in FileWriters : v # w => writing[v].made # x
        /\ WasThere => x # 1
    BY <1>1 DEF DurableInv, ApartInv, ThereInv, Calls
  <1> HIDE DEF step
  <1>6. /\ call \in Calls /\ call.step = step /\ call.on = writing[w].on /\ call.made = x
        /\ call.text = writing[w].text /\ call.kind = writing[w].kind
        /\ call.previous = writing[w].previous
    BY <1>1, <1>3 DEF Calls, WritingSteps
  <1> HIDE DEF call
  <1>7. CallIs(w, call) /\ (call.on = "target" => call.text = w) /\ writing'[w] = call
    BY <1>1, <1>2, <1>3, <1>6 DEF CallIs, Does
  <1> HIDE DEF x
  <1>8. /\ contents' \in Seq(Nat) /\ Len(contents') \in Nat /\ Len(contents') >= Len(contents)
        /\ contents'[x] = writing[w].text /\ x \in Nat /\ x # 0 /\ x \in synced'
        /\ \A f \in 1..Len(contents) : f # x =>
              contents'[f] = contents[f] /\ (f \in synced => f \in synced')
        /\ \A f \in 1..Len(contents') : f \in 1..Len(contents) \/ f = x
        /\ entry' \in [EntryNames -> 0..Len(contents')] /\ survivors' = survivors \cup {entry'}
    <2> DEFINE body == writing[w].text
    <2>1. body \in Nat /\ contents' = [contents EXCEPT ![x] = body]
      BY <1>1, <1>2
    <2> HIDE DEF body
    <2>2. /\ contents' \in Seq(Nat) /\ Len(contents') = Len(contents) /\ Len(contents) \in Nat
          /\ contents'[x] = body /\ x \in Nat /\ x # 0
          /\ \A f \in 1..Len(contents) : f # x => contents'[f] = contents[f]
          /\ \A f \in 1..Len(contents') : f \in 1..Len(contents)
          /\ entry \in [EntryNames -> 0..Len(contents')] /\ survivors = survivors \cup {entry}
      BY <1>4, <2>1, TextPut
    <2> QED
      BY <1>2, <2>2 DEF body
  <1>9. call.on = "target" => KeptThen(x)
    BY <1>1, <1>6, <1>7, <1>8 DEF KeptThen
  <1>10. CallInv(w)'
    <2>1. step = "look" => entry'[<<w, call.on>>] = x
      BY <1>1, <1>2, <1>3, <1>6 DEF CallInv, Doing, Hidden, x
    <2> QED
      BY <1>3, <1>6, <1>7, <1>9, <2>1 DEF CallInv, Doing, Hidden, Kept, KeptThen
  <1>11. /\ x \in Put => KeptThen(x)
         /\ \A v \in FileWriters :
              v # w /\ writing[v].on = "target" => writing[v].made # x \/ x = 0
         /\ ~WasThere => contents'[x] # Original \/ x = 0
         /\ ~WasThere => call.text # Original
         /\ call.step # "ok" /\ call.step # "sync" /\ call.made = writing[w].made
         /\ ~Doing(w, "ok")
    BY <1>1, <1>3, <1>5, <1>6, <1>8, <1>9 DEF x, Doing
  <1>12. /\ \A v \in FileWriters, on \in {"target", "bak"} : v # w =>
               entry'[<<v, on>>] = entry[<<v, on>>]
         /\ UNCHANGED placed /\ entry'[Target] = entry[Target] /\ entry'[Backup] = entry[Backup]
         /\ UNCHANGED reading /\ Does(w, call)
    BY <1>2
  <1>13. WasThere => x # 1
    BY <1>5
  <1>14. call.kind = writing[w].kind /\ call.on = writing[w].on /\ call \in Calls
    BY <1>6
  <1> QED
    BY <1>8, <1>10, <1>11, <1>12, <1>13, <1>14, CallStepKeeps

\* A call that cannot write, or finds the name it must exchange gone.
LEMMA FillFailsKeeps ==
    ASSUME DurableInv, NEW w \in FileWriters, FillFails(w)
    PROVE  DurableInv'
  <1> DEFINE names == IF Is(w, {"plain"}) THEN [entry EXCEPT ![Hidden(w)] = 0] ELSE entry
             x == 0
  <1>1. /\ Does(w, [writing[w] EXCEPT !.step = "failed"]) /\ Doing(w, "fill")
        /\ entry' = names /\ survivors' = survivors \cup {names}
        /\ UNCHANGED <<contents, synced, placed, reading>>
        /\ ~Doing(w, "ok") /\ ~Doing(w, "start") /\ ~Doing(w, "failed")
    BY DEF FillFails, EntryChanges, FilesSame, Doing
  <1>2. PICK call \in Calls :
                /\ call.step = "failed" /\ Does(w, call)
                /\ call.kind = writing[w].kind /\ call.made = writing[w].made
                /\ call.on = writing[w].on /\ (~WasThere => call.text # Original)
    <2> DEFINE step == "failed"
    <2>1. step \in {"create", "failed", "temporary", "copied"} /\ step # "create"
          /\ step # "temporary" /\ step # "copied"
      OBVIOUS
    <2>2. Does(w, [writing[w] EXCEPT !.step = step])
      BY <1>1
    <2> HIDE DEF step
    <2>3. \E call \in Calls :
                /\ call = [writing[w] EXCEPT !.step = step] /\ call.step = step
                /\ writing'[w] = call
                /\ Does(w, call) /\ CallIs(w, call)
                /\ call.kind = writing[w].kind /\ call.made = writing[w].made
                /\ call.on = writing[w].on /\ (~WasThere => call.text # Original)
      BY <1>1, <2>1, <2>2, PassesBy
    <2> QED
      BY <2>3 DEF step
  <1>3. CallInv(w)'
    BY <1>1, PassesBy
  <1>4. /\ contents \in Seq(Nat) /\ Len(contents) \in Nat /\ 0 \notin Put
        /\ entry \in [EntryNames -> 0..Len(contents)] /\ 0 \in 0..Len(contents)
        /\ Hidden(w) \in EntryNames /\ Hidden(w) # Target /\ Hidden(w) # Backup
        /\ Target \in EntryNames /\ Backup \in EntryNames
        /\ \A v \in FileWriters, on \in {"target", "bak"} : v # w =>
                 <<v, on>> # Hidden(w) /\ <<v, on>> \in EntryNames
    BY CallFacts
  <1>5. /\ names \in [EntryNames -> 0..Len(contents)]
        /\ \A n \in EntryNames : n # Hidden(w) => names[n] = entry[n]
    BY <1>4
  <1> HIDE DEF names
  <1>6. /\ entry' \in [EntryNames -> 0..Len(contents')] /\ survivors' = survivors \cup {entry'}
        /\ \A v \in FileWriters, on \in {"target", "bak"} : v # w =>
              entry'[<<v, on>>] = entry[<<v, on>>]
        /\ entry'[Target] = entry[Target] /\ entry'[Backup] = entry[Backup]
    BY <1>1, <1>4, <1>5
  <1>7. /\ contents' \in Seq(Nat) /\ Len(contents') \in Nat /\ Len(contents') >= Len(contents)
        /\ \A f \in 1..Len(contents) : f # x =>
              contents'[f] = contents[f] /\ (f \in synced => f \in synced')
        /\ \A f \in 1..Len(contents') : f \in 1..Len(contents) \/ f = x
        /\ x \notin Put /\ x \in Nat
    BY <1>1, <1>4
  <1>8. (WasThere => x # 1)
        /\ \A v \in FileWriters : v # w /\ writing[v].on = "target" => writing[v].made # x \/ x = 0
    OBVIOUS
  <1>9. call.step # "ok" /\ call.step # "sync"
    BY <1>2
  <1> QED
    BY <1>1, <1>2, <1>3, <1>6, <1>7, <1>8, <1>9, CallStepKeeps

\* The two names swapped: the call's file comes to the name it is for.
LEMMA ExchangeKeeps ==
    ASSUME DurableInv, NEW w \in FileWriters, Exchange(w)
    PROVE  DurableInv'
  <1>1. CASE entry[On(w)] = 0
    <2>1. /\ Does(w, [writing[w] EXCEPT !.step = "failed"])
          /\ UNCHANGED <<entry, survivors, placed, contents, synced, reading>>
          /\ Doing(w, "exchange")
      BY <1>1 DEF Exchange, DirectorySame, FilesSame
    <2>2. ~Doing(w, "ok") /\ ~Doing(w, "start") /\ ~Doing(w, "failed")
      BY <2>1 DEF Doing
    <2> QED
      BY <2>1, <2>2, NothingWritten
  <1>2. CASE entry[On(w)] # 0
    <2> DEFINE x == 0
               call == [writing[w] EXCEPT !.step = "verify"]
               made == writing[w].made
    <2>1. /\ writing[w] \in Calls /\ CallInv(w) /\ CallIs(w, writing[w])
          /\ writing[w].step = "exchange" /\ made # 0 /\ writing[w].kind # "plain"
          /\ entry[Hidden(w)] = made /\ (writing[w].on = "target" => Kept(made))
          /\ ~WasThere => writing[w].text # Original
          /\ writing \in [FileWriters -> Calls]
      BY CallFacts DEF Exchange, Doing, CallInv, CallIs, DurableInv, ThereInv, FileTyped
    <2>2. /\ Does(w, call) /\ entry' = Exchanged(w) /\ survivors' = survivors \cup {entry'}
          /\ placed' = IF On(w) = Target THEN Append(placed, made) ELSE placed
          /\ UNCHANGED <<contents, synced, reading>>
      BY <1>2 DEF Exchange, EntryChanges, FilesSame
    <2>3. /\ call \in Calls /\ call.step = "verify" /\ call.on = writing[w].on
          /\ call.made = made /\ call.text = writing[w].text /\ call.kind = writing[w].kind
          /\ call.previous = writing[w].previous
      BY <2>1 DEF Calls, WritingSteps
    <2> HIDE DEF call
    <2>4. CallIs(w, call) /\ writing'[w] = call
      BY <2>1, <2>2, <2>3 DEF CallIs, Does
    <2>5. /\ contents \in Seq(Nat) /\ Len(contents) \in Nat /\ 0 \notin Put
          /\ entry \in [EntryNames -> 0..Len(contents)]
          /\ Hidden(w) \in EntryNames /\ Hidden(w) # Target /\ Hidden(w) # Backup
          /\ Target \in EntryNames /\ Backup \in EntryNames /\ Target # Backup
          /\ On(w) = (IF writing[w].on = "target" THEN Target ELSE Backup)
          /\ \A v \in FileWriters, on \in {"target", "bak"} : v # w =>
                 <<v, on>> # Hidden(w) /\ <<v, on>> # Target /\ <<v, on>> # Backup
                 /\ <<v, on>> \in EntryNames
      BY CallFacts
    <2>6. On(w) \in {Target, Backup} /\ On(w) # Hidden(w) /\ On(w) \in EntryNames
          /\ (On(w) = Target) = (writing[w].on = "target")
      BY <2>5
    <2>7. /\ entry' \in [EntryNames -> 0..Len(contents)] /\ entry'[On(w)] = made
          /\ \A n \in EntryNames : n # On(w) /\ n # Hidden(w) => entry'[n] = entry[n]
      BY <2>1, <2>2, <2>5, <2>6 DEF Exchanged
    <2> HIDE DEF made
    <2>8. KeptThen(made) = Kept(made)
      BY <2>2 DEF Kept, KeptThen
    <2>9. \/ UNCHANGED placed /\ entry'[Target] = entry[Target]
          \/ /\ placed' = Append(placed, call.made) /\ entry'[Target] = call.made
             /\ call.made # 0 /\ call.on = "target"
             /\ KeptThen(call.made) \/ entry[Target] = 0
      BY <2>1, <2>2, <2>3, <2>5, <2>6, <2>7, <2>8 DEF made
    <2>10. \/ entry'[Backup] = entry[Backup]
           \/ /\ UNCHANGED placed /\ entry'[Backup] \notin Put
              /\ \A v \in FileWriters : v # w /\ writing[v].on = "target" =>
                    writing[v].made # entry'[Backup]
              /\ call.on = "target" => call.made # entry'[Backup]
      <3>1. CASE On(w) = Target
        BY <2>5, <2>7, <3>1
      <3>2. CASE On(w) # Target
        <4>1. On(w) = Backup /\ writing[w].on = "bak" /\ entry'[Backup] = made
          BY <2>1, <2>6, <2>7, <3>2 DEF Calls
        <4>2. made \notin Put /\ \A v \in FileWriters : v # w => writing[v].made # made
          BY <2>1, <4>1 DEF DurableInv, ApartInv, made
        <4>3. UNCHANGED placed
          BY <2>2, <3>2
        <4> QED
          BY <2>3, <4>1, <4>2, <4>3
      <3> QED
        BY <3>1, <3>2
    <2>11. CallInv(w)'
      BY <2>1, <2>3, <2>4, <2>8 DEF CallInv, Doing, Kept, KeptThen
    <2>12. /\ contents' \in Seq(Nat) /\ Len(contents') \in Nat /\ Len(contents') >= Len(contents)
           /\ \A f \in 1..Len(contents) : f # x =>
                 contents'[f] = contents[f] /\ (f \in synced => f \in synced')
           /\ \A f \in 1..Len(contents') : f \in 1..Len(contents) \/ f = x
           /\ x \notin Put /\ x \in Nat
           /\ entry' \in [EntryNames -> 0..Len(contents')]
      BY <2>2, <2>5, <2>7
    <2>13. (WasThere => x # 1)
        /\ \A v \in FileWriters : v # w /\ writing[v].on = "target" => writing[v].made # x \/ x = 0
      OBVIOUS
    <2>14. \A v \in FileWriters, on \in {"target", "bak"} : v # w =>
              entry'[<<v, on>>] = entry[<<v, on>>]
      BY <2>5, <2>6, <2>7
    <2>15. /\ call.step # "ok" /\ call.step # "sync" /\ call.made = writing[w].made
           /\ ~WasThere => call.text # Original
           /\ ~Doing(w, "ok")
      BY <2>1, <2>3 DEF made, Doing
    <2> QED
      BY <2>2, <2>3, <2>9, <2>10, <2>11, <2>12, <2>13, <2>14, <2>15, CallStepKeeps
  <1> QED
    BY <1>1, <1>2

\* The temporary file put in place of what was there.
LEMMA ReplaceKeeps ==
    ASSUME DurableInv, NEW w \in FileWriters, Replace(w)
    PROVE  DurableInv'
  <1> DEFINE x == 0
             call == [writing[w] EXCEPT !.step = "ok"]
             made == writing[w].made
  <1>1. /\ writing[w] \in Calls /\ CallInv(w) /\ CallIs(w, writing[w])
        /\ writing[w].step = "replace" /\ made # 0 /\ made \in 0..Len(contents)
        /\ writing[w].kind = "plain" /\ writing[w].on = "target" /\ Kept(made)
        /\ ~WasThere => writing[w].text # Original
        /\ writing \in [FileWriters -> Calls]
    BY CallFacts DEF Replace, Doing, CallInv, CallIs, DurableInv, ThereInv, FileTyped
  <1>2. /\ Does(w, call) /\ survivors' = survivors \cup {entry'}
        /\ entry' = [entry EXCEPT ![Target] = made, ![Hidden(w)] = 0]
        /\ placed' = Append(placed, made)
        /\ UNCHANGED <<contents, synced, reading>>
    BY DEF Replace, EntryChanges, FilesSame
  <1>3. /\ call \in Calls /\ call.step = "ok" /\ call.on = writing[w].on
        /\ call.made = made /\ call.text = writing[w].text /\ call.kind = writing[w].kind
        /\ call.previous = writing[w].previous
    BY <1>1 DEF Calls, WritingSteps
  <1> HIDE DEF call
  <1>4. CallIs(w, call) /\ writing'[w] = call
    BY <1>1, <1>2, <1>3 DEF CallIs, Does
  <1>5. /\ contents \in Seq(Nat) /\ Len(contents) \in Nat /\ 0 \notin Put /\ 0 \in 0..Len(contents)
        /\ entry \in [EntryNames -> 0..Len(contents)]
        /\ Hidden(w) \in EntryNames /\ Hidden(w) # Target /\ Hidden(w) # Backup
        /\ Target \in EntryNames /\ Backup \in EntryNames /\ Target # Backup
        /\ \A v \in FileWriters, on \in {"target", "bak"} : v # w =>
               <<v, on>> # Hidden(w) /\ <<v, on>> # Target /\ <<v, on>> # Backup
               /\ <<v, on>> \in EntryNames
    BY CallFacts
  <1>6. /\ entry' \in [EntryNames -> 0..Len(contents)] /\ entry'[Target] = made
        /\ \A n \in EntryNames : n # Target /\ n # Hidden(w) => entry'[n] = entry[n]
    BY <1>1, <1>2, <1>5
  <1> HIDE DEF made
  <1>7. KeptThen(made)
    BY <1>1, <1>2 DEF Kept, KeptThen
  <1>8. CallInv(w)'
    BY <1>1, <1>3, <1>4, <1>7 DEF CallInv, Doing, Kept, KeptThen
  <1>9. /\ contents' \in Seq(Nat) /\ Len(contents') \in Nat /\ Len(contents') >= Len(contents)
        /\ \A f \in 1..Len(contents) : f # x =>
              contents'[f] = contents[f] /\ (f \in synced => f \in synced')
        /\ \A f \in 1..Len(contents') : f \in 1..Len(contents) \/ f = x
        /\ x \notin Put /\ x \in Nat
        /\ entry' \in [EntryNames -> 0..Len(contents')]
    <2>1. contents' = contents /\ synced' = synced /\ Len(contents') = Len(contents)
      BY <1>2
    <2>2. contents' \in Seq(Nat) /\ Len(contents') \in Nat /\ Len(contents') >= Len(contents)
      BY <1>5, <2>1
    <2>3. /\ \A f \in 1..Len(contents) : f # x =>
                contents'[f] = contents[f] /\ (f \in synced => f \in synced')
          /\ \A f \in 1..Len(contents') : f \in 1..Len(contents) \/ f = x
      BY <2>1
    <2>4. x \notin Put /\ x \in Nat
      BY <1>5
    <2>5. entry' \in [EntryNames -> 0..Len(contents')]
      BY <1>6, <2>1
    <2> QED
      BY <2>2, <2>3, <2>4, <2>5
  <1>10. (WasThere => x # 1)
      /\ \A v \in FileWriters : v # w /\ writing[v].on = "target" => writing[v].made # x \/ x = 0
    OBVIOUS
  <1>11. /\ \A v \in FileWriters, on \in {"target", "bak"} : v # w =>
               entry'[<<v, on>>] = entry[<<v, on>>]
         /\ entry'[Backup] = entry[Backup]
    BY <1>5, <1>6
  <1>12. /\ call.step # "sync" /\ call.made = writing[w].made /\ call.kind = "plain"
         /\ ~WasThere => call.text # Original
         /\ ~Doing(w, "ok")
    BY <1>1, <1>3 DEF made, Doing
  <1>13. /\ placed' = Append(placed, call.made) /\ entry'[Target] = call.made
         /\ call.made # 0 /\ call.on = "target" /\ KeptThen(call.made)
    BY <1>1, <1>2, <1>3, <1>6, <1>7
  <1>14. call.kind = writing[w].kind /\ call.on = writing[w].on /\ call \in Calls
    BY <1>3
  <1> QED
    BY <1>2, <1>8, <1>9, <1>10, <1>11, <1>12, <1>13, <1>14, CallStepKeeps

\* A text put over the backup's: the file is of no target, and of no call for the target.
LEMMA BackupPut ==
    ASSUME DurableInv, NEW w \in FileWriters, NEW body \in Nat,
           entry[Backup] # 0, contents' = [contents EXCEPT ![entry[Backup]] = body],
           ~WasThere => body # Original,
           synced' = synced \/ synced' = synced \ {entry[Backup]},
           NEW step \in {"copied", "temporary"}, Does(w, [writing[w] EXCEPT !.step = step]),
           step = "temporary" => Doing(w, "copied"), step = "copied" => Doing(w, "copy"),
           Doing(w, "copy") \/ Doing(w, "copied"),
           UNCHANGED <<entry, survivors, placed, reading>>
    PROVE  DurableInv'
  <1> DEFINE x == entry[Backup]
  <1>1. ~Doing(w, "ok") /\ ~Doing(w, "start") /\ ~Doing(w, "failed")
    BY DEF Doing
  <1>2. step \in {"create", "failed", "temporary", "copied"} /\ step # "create"
    OBVIOUS
  <1>3. /\ \E call \in Calls :
                /\ call = [writing[w] EXCEPT !.step = step] /\ call.step = step
                /\ writing'[w] = call
                /\ Does(w, call) /\ CallIs(w, call)
                /\ call.kind = writing[w].kind /\ call.made = writing[w].made
                /\ call.on = writing[w].on /\ (~WasThere => call.text # Original)
        /\ CallInv(w)'
    BY <1>1, <1>2, PassesBy
  <1>4. PICK call \in Calls :
                /\ call.step = step /\ Does(w, call)
                /\ call.kind = writing[w].kind /\ call.made = writing[w].made
                /\ call.on = writing[w].on /\ (~WasThere => call.text # Original)
    BY <1>3
  <1>5. /\ entry \in survivors /\ Backup \in EntryNames /\ Len(contents) \in Nat
        /\ entry \in [EntryNames -> 0..Len(contents)]
    BY CallFacts
  <1>6. x \in 1..Len(contents)
    BY <1>5
  <1>7. /\ x \notin Put /\ \A v \in FileWriters : writing[v].on = "target" => writing[v].made # x
        /\ WasThere => x # 1
    BY <1>5 DEF DurableInv, ApartInv, ThereInv
  <1> HIDE DEF x
  <1>8. /\ contents' \in Seq(Nat) /\ Len(contents') = Len(contents) /\ Len(contents) \in Nat
        /\ contents'[x] = body /\ x \in Nat /\ x # 0
        /\ \A f \in 1..Len(contents) : f # x => contents'[f] = contents[f]
        /\ \A f \in 1..Len(contents') : f \in 1..Len(contents)
        /\ entry \in [EntryNames -> 0..Len(contents')] /\ survivors = survivors \cup {entry}
    <2>1. contents' = [contents EXCEPT ![x] = body]
      BY DEF x
    <2> QED
      BY <1>6, <2>1, TextPut
  <1>9. /\ Len(contents') >= Len(contents) /\ Len(contents') \in Nat
        /\ \A f \in 1..Len(contents) : f # x =>
              contents'[f] = contents[f] /\ (f \in synced => f \in synced')
        /\ \A f \in 1..Len(contents') : f \in 1..Len(contents) \/ f = x
        /\ entry' \in [EntryNames -> 0..Len(contents')] /\ survivors' = survivors \cup {entry'}
        /\ ~WasThere => contents'[x] # Original \/ x = 0
    BY <1>8 DEF x
  <1>10. \A v \in FileWriters : v # w /\ writing[v].on = "target" => writing[v].made # x \/ x = 0
    BY <1>7
  <1>11. /\ \A v \in FileWriters, on \in {"target", "bak"} : v # w =>
               entry'[<<v, on>>] = entry[<<v, on>>]
         /\ UNCHANGED placed /\ entry'[Target] = entry[Target] /\ entry'[Backup] = entry[Backup]
    OBVIOUS
  <1>12. call.step # "ok" /\ call.step # "sync"
    BY <1>4
  <1>13. CallInv(w)'
    BY <1>3
  <1> QED
    BY <1>1, <1>4, <1>7, <1>8, <1>9, <1>10, <1>11, <1>12, <1>13, CallStepKeeps

\* The plain writer's copy of what was there.
LEMMA CopyKeeps ==
    ASSUME DurableInv, NEW w \in FileWriters, CopyBackup(w) \/ FinishCopy(w)
    PROVE  DurableInv'
  <1>1. /\ writing[w] \in Calls /\ CallIs(w, writing[w]) /\ UNCHANGED reading
        /\ Len(contents) \in Nat /\ \A f \in 1..Len(contents) : contents[f] \in Nat
        /\ entry \in [EntryNames -> 0..Len(contents)] /\ Target \in EntryNames
        /\ Backup \in EntryNames /\ Target # Backup /\ Hidden(w) # Backup
    BY CallFacts DEF CallInv, CopyBackup, FinishCopy
  <1>2. /\ Doing(w, "copy") \/ Doing(w, "copied")
        /\ ~Doing(w, "ok") /\ ~Doing(w, "start") /\ ~Doing(w, "failed")
        /\ writing[w].made = 0 /\ writing[w].previous = 0
    BY <1>1 DEF CopyBackup, FinishCopy, Doing, CallIs
  <1>3. 0 # Original
    BY NamesAre
  <1>4. CASE CopyBackup(w) /\ entry[Target] = 0
    <2>1. /\ Does(w, [writing[w] EXCEPT !.step = "temporary"])
          /\ UNCHANGED <<entry, survivors, placed, contents, synced>>
      BY <1>4 DEF CopyBackup, DirectorySame
    <2> QED
      BY <1>1, <1>2, <2>1, NothingWritten
  <1>5. CASE CopyBackup(w) /\ entry[Target] # 0 /\ entry[Backup] = 0
    <2> DEFINE call == [writing[w] EXCEPT !.step = "copied"]
    <2>1. /\ Does(w, call) /\ Creates(Backup, 0) /\ synced' = synced \ {0} /\ Doing(w, "copy")
      BY <1>5 DEF CopyBackup
    <2>2. /\ call \in Calls /\ call.step = "copied" /\ call.on = writing[w].on
          /\ call.made = writing[w].made /\ call.text = writing[w].text
          /\ call.kind = writing[w].kind /\ call.previous = writing[w].previous
      BY <1>1 DEF Calls, WritingSteps
    <2> HIDE DEF call
    <2>3. CallIs(w, call)
      BY <1>1, <2>1, <2>2 DEF CallIs, Doing
    <2> QED
      BY <1>1, <1>2, <2>1, <2>2, <2>3, MakesFile
  <1>6. CASE CopyBackup(w) /\ entry[Target] # 0 /\ entry[Backup] # 0
    <2> DEFINE body == 0
               step == "copied"
    <2>1. /\ Does(w, [writing[w] EXCEPT !.step = step]) /\ Doing(w, "copy")
          /\ contents' = [contents EXCEPT ![entry[Backup]] = body]
          /\ synced' = synced \ {entry[Backup]}
          /\ UNCHANGED <<entry, survivors, placed>>
      BY <1>6 DEF CopyBackup, DirectorySame
    <2>2. body \in Nat /\ body # Original /\ step \in {"copied", "temporary"} /\ step # "temporary"
      BY <1>3
    <2> HIDE DEF body, step
    <2> QED
      BY <1>1, <1>2, <1>6, <2>1, <2>2, BackupPut
  <1>7. CASE FinishCopy(w) /\ UNCHANGED contents
    <2>1. /\ Does(w, [writing[w] EXCEPT !.step = "temporary"])
          /\ UNCHANGED <<entry, survivors, placed, contents, synced>>
      BY <1>7 DEF FinishCopy, DirectorySame
    <2> QED
      BY <1>1, <1>2, <2>1, NothingWritten
  <1>8. CASE FinishCopy(w) /\ ~UNCHANGED contents
    <2> DEFINE body == contents[entry[Target]]
               step == "temporary"
    <2>1. /\ Does(w, [writing[w] EXCEPT !.step = step]) /\ Doing(w, "copied")
          /\ contents' = [contents EXCEPT ![entry[Backup]] = body]
          /\ entry[Target] # 0 /\ entry[Backup] # 0
          /\ UNCHANGED <<entry, survivors, placed, synced>>
      BY <1>8 DEF FinishCopy, DirectorySame
    <2>2. entry[Target] \in 1..Len(contents)
      BY <1>1, <2>1
    <2>3. body \in Nat /\ (~WasThere => body # Original)
      BY <1>1, <2>2 DEF DurableInv, ThereInv
    <2>4. step \in {"copied", "temporary"} /\ step # "copied"
      OBVIOUS
    <2> HIDE DEF body, step
    <2> QED
      BY <1>1, <1>2, <2>1, <2>3, <2>4, BackupPut
  <1> QED
    BY <1>4, <1>5, <1>6, <1>7, <1>8

\* The directory synced: a crash leaves what is there now.
LEMMA SyncKeeps ==
    ASSUME DurableInv, NEW w \in FileWriters, SyncDirectory(w)
    PROVE  DurableInv'
  <1> DEFINE call == IF On(w) = Backup
                     THEN [Idler("backup") EXCEPT !.step = "open", !.text = w]
                     ELSE [writing[w] EXCEPT !.step = "ok"]
  <1>1. /\ writing[w] \in Calls /\ CallInv(w) /\ CallIs(w, writing[w]) /\ w # 0 /\ w \in Nat
        /\ w # Original /\ writing[w].step = "sync" /\ writing[w].kind # "plain"
        /\ writing[w].made \in 0..Len(contents) /\ writing[w].made # 0 /\ Len(contents) \in Nat
        /\ On(w) = (IF writing[w].on = "target" THEN Target ELSE Backup) /\ Target # Backup
        /\ writing[w].on \in {"target", "bak"} /\ writing \in [FileWriters -> Calls]
        /\ writing[w].on = "target" => Kept(writing[w].made)
    BY CallFacts DEF SyncDirectory, Doing, CallInv, CallIs, Calls, DurableInv, FileTyped
  <1>2. /\ Does(w, call) /\ survivors' = {entry} /\ entry \in survivors
        /\ UNCHANGED <<contents, synced, entry, placed, reading>>
    BY DEF SyncDirectory, FilesSame, DurableInv, FileTyped
  <1>3. /\ call \in Calls /\ call.on = "target"
        /\ \/ call.made = 0 /\ call.step = "open" /\ call.text = w /\ call.previous = 0
              /\ call.kind = "backup"
           \/ call.made = writing[w].made /\ call.step = "ok" /\ call.text = writing[w].text
              /\ writing[w].on = "target" /\ call.kind = writing[w].kind
              /\ call.previous = writing[w].previous
    <2>1. CASE On(w) = Backup
      <3>1. writing[w].on = "bak"
        BY <1>1, <2>1
      <3> QED
        BY <1>1, <2>1, <3>1 DEF Calls, WritingSteps, Idler
    <2>2. CASE On(w) # Backup
      <3>1. writing[w].on = "target"
        BY <1>1, <2>2
      <3> QED
        BY <1>1, <2>2, <3>1 DEF Calls, WritingSteps
    <2> QED
      BY <2>1, <2>2
  <1> HIDE DEF call
  <1>4. /\ writing'[w] = call /\ \A v \in FileWriters : v # w => writing'[v] = writing[v]
        /\ writing' \in [FileWriters -> Calls]
    BY <1>1, <1>2, <1>3 DEF Does
  <1>5. CallIs(w, call)
    BY <1>1, <1>3 DEF CallIs
  <1>6. /\ Put' = Put /\ \A f : PlacesThen(f) = Places(f)
        /\ \A f : KeptThen(f) = Kept(f)
    BY <1>2 DEF Put, Places, PlacesThen, Kept, KeptThen
  <1>7. FileTyped'
    <2>1. \A v \in FileWriters : writing'[v].made \in 0..Len(contents)
      BY <1>1, <1>3, <1>4 DEF DurableInv, FileTyped
    <2>2. survivors' \subseteq [EntryNames -> 0..Len(contents)] /\ entry' \in survivors'
      BY <1>2 DEF DurableInv, FileTyped
    <2> QED
      BY <1>2, <1>4, <1>6, <2>1, <2>2 DEF DurableInv, FileTyped
  <1>8. \A v \in FileWriters : CallInv(v)'
    <2> SUFFICES ASSUME NEW v \in FileWriters PROVE CallInv(v)'
      OBVIOUS
    <2>1. CASE v = w
      BY <1>1, <1>3, <1>4, <1>5, <1>6, <2>1 DEF CallInv, Doing, Kept, KeptThen
    <2>2. CASE v # w
      <3>1. CallInv(v) /\ writing'[v] = writing[v]
        BY <1>4, <2>2 DEF DurableInv
      <3> QED
        BY <1>2, <1>6, <3>1 DEF CallInv, Doing, Hidden, Kept, KeptThen
    <2> QED
      BY <2>1, <2>2
  <1>9. \A v \in FileWriters : /\ writing'[v].made = writing[v].made \/ writing'[v].made = 0
                               /\ writing'[v].on = writing[v].on \/ writing'[v].made = 0
                               /\ writing'[v].text = writing[v].text \/ writing'[v].text # Original
    BY <1>1, <1>3, <1>4
  <1>10. ApartInv'
    BY <1>2, <1>6, <1>9 DEF DurableInv, ApartInv
  <1>11. ThereInv'
    BY <1>2, <1>6, <1>9 DEF DurableInv, ThereInv, WasThere
  <1>12. TargetKept'
    BY <1>2, <1>6 DEF DurableInv, TargetKept, WasThere, Kept, KeptThen
  <1>13. AckInv'
    <2>1. ASSUME NEW v \in FileWriters, writing'[v].step = "ok", writing'[v].kind # "plain"
          PROVE  Kept(entry[Target]) /\ Places(writing'[v].made) \subseteq Places(entry[Target])
      <3>1. CASE v = w
        <4>1. writing[w].on = "target" /\ writing'[w].made = writing[w].made
          BY <1>3, <1>4, <2>1, <3>1
        <4> QED
          BY <1>1, <3>1, <4>1 DEF DurableInv, AckInv, Doing
      <3>2. CASE v # w
        <4>1. writing'[v] = writing[v]
          BY <1>4, <3>2
        <4> QED
          BY <1>2, <2>1, <4>1 DEF DurableInv, AckInv, Acknowledged, Doing, Is
      <3> QED
        BY <3>1, <3>2
    <2>2. ASSUME NEW v \in FileWriters, writing'[v].step = "sync", writing'[v].on = "target"
          PROVE  Kept(entry[Target]) /\ Places(writing'[v].made) \subseteq Places(entry[Target])
      <3>1. v # w /\ writing'[v] = writing[v]
        BY <1>3, <1>4, <2>2
      <3> QED
        BY <2>2, <3>1 DEF DurableInv, AckInv, Doing
    <2> QED
      BY <1>2, <1>6, <2>1, <2>2
         DEF AckInv, Acknowledged, Doing, Is, KeptThen, PlacesThen, Kept, Places
  <1>14. ReadersGetWholeTexts'
    BY <1>2 DEF DurableInv, ReadersGetWholeTexts, WasThere
  <1> QED
    BY <1>7, <1>8, <1>10, <1>11, <1>12, <1>13, <1>14 DEF DurableInv

\* A reader: what it returned was whole, or nothing was there before.
LEMMA ReadsKeep ==
    ASSUME DurableInv, OpenToRead \/ ReadText \/ UNCHANGED durableVars
    PROVE  DurableInv'
  <1>1. UNCHANGED <<entry, contents, synced, survivors, writing, placed>>
    BY DEF OpenToRead, ReadText, DirectorySame, FilesSame, durableVars
  <1>2. reading' \in [step : {"none", "open", "returned"}, file : Nat]
    <2>1. reading \in [step : {"none", "open", "returned"}, file : Nat] /\ entry[Target] \in Nat
      BY NamesAre DEF DurableInv, FileTyped
    <2>2. CASE OpenToRead
      BY <2>1, <2>2 DEF OpenToRead
    <2>3. CASE ReadText
      BY <2>1, <2>3 DEF ReadText, NotReading
    <2>4. CASE UNCHANGED durableVars
      BY <2>1, <2>4 DEF durableVars
    <2> QED
      BY <2>2, <2>3, <2>4
  <1>3. ReadersGetWholeTexts'
    <2>1. CASE OpenToRead
      BY <1>1, <2>1 DEF OpenToRead, DurableInv, ReadersGetWholeTexts
    <2>2. CASE ReadText
      <3>1. WasThere => Kept(entry[Target])
        BY DEF DurableInv, FileTyped, TargetKept
      <3>2. ReadText => (reading'.step = "returned" =>
                            entry[Target] = reading.file /\ contents[reading.file] = 0)
        BY DEF ReadText, NotReading
      <3> QED
        BY <1>1, <2>2, <3>1, <3>2 DEF ReadersGetWholeTexts, Kept, WasThere
    <2>3. CASE UNCHANGED durableVars
      BY <2>3 DEF durableVars, DurableInv, ReadersGetWholeTexts, WasThere
    <2> QED
      BY <2>1, <2>2, <2>3
  <1>4. FileTyped'
    BY <1>1, <1>2 DEF DurableInv, FileTyped, Put
  <1>5. (\A w \in FileWriters : CallInv(w))'
    BY <1>1 DEF DurableInv, CallInv, CallIs, Doing, Hidden, Kept
  <1>6. ApartInv' /\ ThereInv'
    BY <1>1 DEF DurableInv, ApartInv, ThereInv, Put, WasThere
  <1>7. TargetKept'
    BY <1>1 DEF DurableInv, TargetKept, WasThere, Kept
  <1>8. AckInv'
    BY <1>1 DEF DurableInv, AckInv, Acknowledged, Doing, Is, Kept, Places
  <1> QED
    BY <1>3, <1>4, <1>5, <1>6, <1>7, <1>8 DEF DurableInv

\* Another program's file comes whole and later than any before it.
LEMMA OtherProgramKeeps ==
    ASSUME DurableInv, ForeignFile
    PROVE  DurableInv'
  <1> DEFINE x == NewFile
             body == Foreigner
  <1>1. /\ contents' = Append(contents, body) /\ synced' = synced \cup {x}
        /\ entry' = [entry EXCEPT ![Target] = x] /\ survivors' = {entry'}
        /\ placed' = Append(placed, x) /\ UNCHANGED <<writing, reading>>
    BY DEF ForeignFile
  <1>2. body \in Nat /\ body # 0 /\ body # Original
    BY NamesAre
  <1> HIDE DEF body
  <1>3. /\ contents' \in Seq(Nat) /\ Len(contents') \in Nat /\ Len(contents') = Len(contents) + 1
        /\ x = Len(contents') /\ x \in 1..Len(contents') /\ x # 0
        /\ x \notin 1..Len(contents) /\ x \in Nat /\ x \notin Put
        /\ 0..Len(contents) \subseteq 0..Len(contents')
        /\ \A f \in 1..Len(contents) : contents'[f] = contents[f]
        /\ \A f \in 1..Len(contents') : f \in 1..Len(contents) \/ f = x
        /\ contents'[x] = body
        /\ \A v \in FileWriters : writing[v].made # x
        /\ \A s \in survivors : s[Target] # x /\ s[Backup] # x
        /\ WasThere => x # 1
    BY <1>1, <1>2, NewFileIs
  <1> HIDE DEF x
  <1>4. /\ contents \in Seq(Nat) /\ Len(contents) \in Nat /\ placed \in Seq(Nat)
        /\ entry \in survivors /\ entry \in [EntryNames -> 0..Len(contents)]
        /\ Put \subseteq 1..Len(contents) /\ Target \in EntryNames /\ Backup \in EntryNames
        /\ Target # Backup /\ writing \in [FileWriters -> Calls]
        /\ \A v \in FileWriters : writing[v].made \in 0..Len(contents)
        /\ reading \in [step : {"none", "open", "returned"}, file : Nat]
    BY NamesAre DEF DurableInv, FileTyped
  <1>5. /\ entry' \in [EntryNames -> 0..Len(contents')] /\ entry'[Target] = x
        /\ \A n \in EntryNames : n # Target => entry'[n] = entry[n]
    BY <1>1, <1>3, <1>4
  <1>6. /\ placed' \in Seq(Nat) /\ Put' = Put \cup {x}
        /\ \A f : PlacesThen(f) \subseteq PlacesThen(x)
    BY <1>1, <1>3, <1>4, PlacesAppend
  <1>7. /\ \A f \in 1..Len(contents) : Kept(f) => KeptThen(f)
        /\ KeptThen(x)
    BY <1>1, <1>2, <1>3 DEF Kept, KeptThen
  <1>8. (WasThere => WasThere') /\ (WasThere' => WasThere)
    <2>1. CASE Len(contents) = 0
      <3>1. x = 1 /\ contents'[1] # Original
        BY <1>2, <1>3, <2>1
      <3> QED
        BY <1>3, <2>1, <3>1 DEF WasThere
    <2>2. CASE Len(contents) # 0
      <3>1. 1 \in 1..Len(contents) /\ Len(contents) > 0 /\ Len(contents') > 0
        BY <1>3, <1>4, <2>2
      <3> QED
        BY <1>3, <3>1 DEF WasThere
    <2> QED
      BY <2>1, <2>2
  <1>9. FileTyped'
    <2>1. \A f \in Put' : f \in 1..Len(contents')
      BY <1>3, <1>4, <1>6
    <2>2. \A v \in FileWriters : writing'[v].made \in 0..Len(contents')
      BY <1>1, <1>3, <1>4
    <2>3. survivors' \subseteq [EntryNames -> 0..Len(contents')] /\ entry' \in survivors'
      BY <1>1, <1>5
    <2> QED
      BY <1>1, <1>3, <1>4, <1>6, <2>1, <2>2, <2>3 DEF FileTyped
  <1>10. (\A v \in FileWriters : CallInv(v))'
    <2> SUFFICES ASSUME NEW v \in FileWriters PROVE CallInv(v)'
      OBVIOUS
    <2>1. /\ CallInv(v) /\ writing'[v] = writing[v] /\ Hidden(v) \in EntryNames
          /\ Hidden(v) # Target /\ Hidden(v)' = Hidden(v)
      BY <1>1, CallFacts DEF Hidden
    <2>2. Kept(writing[v].made) => KeptThen(writing[v].made)
      BY <1>4, <1>7 DEF Kept
    <2>3. entry'[Hidden(v)] = entry[Hidden(v)]
      BY <1>5, <2>1
    <2> QED
      BY <2>1, <2>2, <2>3 DEF CallInv, Doing, Kept, KeptThen
  <1>11. ApartInv'
    <2>1. /\ \A v, w \in FileWriters :
                v # w /\ writing[v].made # 0 => writing[v].made # writing[w].made
          /\ \A w \in FileWriters : writing[w].on = "bak" /\ writing[w].made # 0 =>
                writing[w].made \notin Put
          /\ entry[Backup] # 0 =>
                /\ entry[Backup] \notin Put
                /\ \A w \in FileWriters : writing[w].on = "target" => writing[w].made # entry[Backup]
      BY <1>4 DEF DurableInv, ApartInv
    <2>2. entry'[Backup] = entry[Backup] /\ entry[Backup] # x
      BY <1>3, <1>4, <1>5
    <2> QED
      BY <1>1, <1>3, <1>5, <1>6, <2>1, <2>2 DEF ApartInv
  <1>12. ThereInv'
    <2>1. CASE WasThere
      <3>1. 1 \in synced' /\ 1 \in Put' /\ \A w \in FileWriters : writing'[w].made # 1
        BY <1>1, <1>6, <2>1 DEF DurableInv, ThereInv
      <3> QED
        BY <1>8, <2>1, <3>1 DEF ThereInv
    <2>2. CASE ~WasThere
      <3>1. /\ \A f \in 1..Len(contents) : contents[f] # Original
            /\ \A w \in FileWriters : writing'[w].text # Original
        BY <1>1, <2>2 DEF DurableInv, ThereInv
      <3>2. \A f \in 1..Len(contents') : contents'[f] # Original
        BY <1>2, <1>3, <3>1
      <3> QED
        BY <1>8, <2>2, <3>1, <3>2 DEF ThereInv
    <2> QED
      BY <2>1, <2>2
  <1>13. TargetKept'
    BY <1>1, <1>5, <1>7 DEF TargetKept, Kept, KeptThen
  <1>14. AckInv'
    <2>1. KeptThen(entry'[Target]) /\ \A f : PlacesThen(f) \subseteq PlacesThen(entry'[Target])
      BY <1>5, <1>6, <1>7
    <2> QED
      BY <1>1, <2>1 DEF AckInv, KeptThen, PlacesThen, Kept, Places
  <1>15. ReadersGetWholeTexts'
    BY <1>1, <1>8 DEF DurableInv, ReadersGetWholeTexts
  <1> QED
    BY <1>9, <1>10, <1>11, <1>12, <1>13, <1>14, <1>15 DEF DurableInv

\* A crash: the names as one of the survivors has them, and only what was synced.
LEMMA FileCrashKeeps ==
    ASSUME DurableInv, FileCrash
    PROVE  DurableInv'
  <1>1. /\ contents \in Seq(Nat) /\ Len(contents) \in Nat
        /\ survivors \subseteq [EntryNames -> 0..Len(contents)]
        /\ writing \in [FileWriters -> Calls]
        /\ \A v \in FileWriters : writing[v].made \in 0..Len(contents)
        /\ reading \in [step : {"none", "open", "returned"}, file : Nat]
        /\ DOMAIN contents = 1..Len(contents)
        /\ \A f \in 1..Len(contents) : contents[f] \in Nat
        /\ Put \subseteq 1..Len(contents)
    <2>1. contents \in Seq(Nat)
      BY DEF DurableInv, FileTyped
    <2>2. DOMAIN contents = 1..Len(contents) /\ \A f \in 1..Len(contents) : contents[f] \in Nat
      BY <2>1, LenProperties, ElementOfSeq
    <2> QED
      BY <2>1, <2>2 DEF DurableInv, FileTyped
  <1>2. /\ entry' \in survivors /\ survivors' = {entry'} /\ UNCHANGED placed
        /\ contents' = [f \in 1..Len(contents) |-> IF f \in synced THEN contents[f] ELSE 0]
        /\ synced' = 1..Len(contents)
        /\ reading' = IF reading.step = "returned" THEN reading ELSE NotReading
    BY <1>1 DEF FileCrash
  <1>3. /\ contents' \in Seq(Nat) /\ Len(contents') = Len(contents)
        /\ \A f \in 1..Len(contents) : contents'[f] = IF f \in synced THEN contents[f] ELSE 0
    <2> DEFINE n == Len(contents)
               then == [f \in 1..n |-> IF f \in synced THEN contents[f] ELSE 0]
    <2>1. \A f \in 1..n : contents[f] \in Nat
      BY <1>1
    <2>2. n \in Nat /\ contents' = then
      BY <1>1, <1>2
    <2> HIDE DEF n
    <2>3. then \in Seq(Nat) /\ DOMAIN then = 1..n
      BY <2>1, <2>2
    <2> HIDE DEF then
    <2>4. Len(then) = n
      BY <2>2, <2>3, LenProperties
    <2>5. contents' \in Seq(Nat) /\ Len(contents') = Len(contents)
      BY <2>2, <2>3, <2>4 DEF n
    <2> QED
      BY <1>2, <2>5
  <1>4. \A v \in FileWriters :
           /\ writing'[v] = IF Doing(v, "ok") THEN writing[v]
                                              ELSE [writing[v] EXCEPT !.step = "failed"]
           /\ writing[v] \in Calls
    BY <1>1 DEF FileCrash
  <1>5. \A v \in FileWriters :
           /\ writing'[v] \in Calls
           /\ writing'[v].made = writing[v].made /\ writing'[v].on = writing[v].on
           /\ writing'[v].text = writing[v].text /\ writing'[v].kind = writing[v].kind
           /\ writing'[v].previous = writing[v].previous
           /\ writing'[v].step \in {"ok", "failed"}
           /\ writing'[v].step = "ok" => writing[v].step = "ok"
    <2> SUFFICES ASSUME NEW v \in FileWriters
                 PROVE  /\ writing'[v] \in Calls
                        /\ writing'[v].made = writing[v].made /\ writing'[v].on = writing[v].on
                        /\ writing'[v].text = writing[v].text /\ writing'[v].kind = writing[v].kind
                        /\ writing'[v].previous = writing[v].previous
                        /\ writing'[v].step \in {"ok", "failed"}
                        /\ writing'[v].step = "ok" => writing[v].step = "ok"
      OBVIOUS
    <2>1. CASE Doing(v, "ok")
      BY <1>4, <2>1 DEF Doing
    <2>2. CASE ~Doing(v, "ok")
      <3> DEFINE call == [writing[v] EXCEPT !.step = "failed"]
      <3>1. writing[v] \in Calls /\ writing'[v] = call
        BY <1>4, <2>2
      <3>2. /\ call \in Calls /\ call.step = "failed" /\ call.on = writing[v].on
            /\ call.made = writing[v].made /\ call.text = writing[v].text
            /\ call.kind = writing[v].kind /\ call.previous = writing[v].previous
        BY <3>1 DEF Calls, WritingSteps
      <3> HIDE DEF call
      <3> QED
        BY <3>1, <3>2
    <2> QED
      BY <2>1, <2>2
  <1>6. Put' = Put /\ \A f : PlacesThen(f) = Places(f)
    BY <1>2 DEF Put, Places, PlacesThen
  <1>7. \A f \in 1..Len(contents) : Kept(f) => KeptThen(f)
    BY <1>2, <1>3 DEF Kept, KeptThen
  <1>8. (WasThere => WasThere') /\ (WasThere' => WasThere)
    <2>1. WasThere => 1 \in synced
      BY DEF DurableInv, ThereInv
    <2>2. Original # 0
      BY NamesAre
    <2>3. Len(contents) > 0 => 1 \in 1..Len(contents)
      BY <1>1
    <2> QED
      BY <1>3, <2>1, <2>2, <2>3 DEF WasThere
  <1>9. FileTyped'
    <2>1. writing' \in [FileWriters -> Calls]
      <3>1. writing' = [w \in FileWriters |->
                     IF Doing(w, "ok") THEN writing[w] ELSE [writing[w] EXCEPT !.step = "failed"]]
        BY DEF FileCrash
      <3> QED
        BY <1>5, <3>1
    <2>2. reading' \in [step : {"none", "open", "returned"}, file : Nat]
      BY <1>1, <1>2 DEF NotReading
    <2>3. \A v \in FileWriters : writing'[v].made \in 0..Len(contents')
      BY <1>1, <1>3, <1>5
    <2>4. survivors' \subseteq [EntryNames -> 0..Len(contents')] /\ entry' \in survivors'
      BY <1>1, <1>2, <1>3
    <2>5. placed' \in Seq(Nat) /\ \A f \in Put' : f \in 1..Len(contents')
      BY <1>1, <1>2, <1>3, <1>6 DEF DurableInv, FileTyped
    <2> QED
      BY <1>1, <1>3, <2>1, <2>2, <2>3, <2>4, <2>5 DEF FileTyped
  <1>10. (\A v \in FileWriters : CallInv(v))'
    <2> SUFFICES ASSUME NEW v \in FileWriters PROVE CallInv(v)'
      OBVIOUS
    <2>1. CallIs(v, writing[v]) /\ CallInv(v)
      BY DEF DurableInv, CallInv
    <2>2. CallIs(v, writing'[v])
      BY <1>5, <2>1 DEF CallIs
    <2>3. writing'[v].step = "ok" /\ writing'[v].on = "target" => KeptThen(writing[v].made)
      <3>1. writing'[v].step = "ok" /\ writing'[v].on = "target" => Kept(writing[v].made)
        BY <1>5, <2>1 DEF CallInv
      <3> QED
        BY <1>1, <1>7, <3>1 DEF Kept
    <2> QED
      BY <1>5, <2>2, <2>3 DEF CallInv, Doing, Kept, KeptThen
  <1>11. ApartInv'
    BY <1>2, <1>5, <1>6 DEF DurableInv, ApartInv
  <1>12. ThereInv'
    <2>1. CASE WasThere
      <3>1. 1 \in synced' /\ 1 \in Put' /\ \A w \in FileWriters : writing'[w].made # 1
        BY <1>1, <1>2, <1>5, <1>6, <2>1 DEF DurableInv, ThereInv
      <3> QED
        BY <1>8, <2>1, <3>1 DEF ThereInv
    <2>2. CASE ~WasThere
      <3>1. /\ \A f \in 1..Len(contents) : contents[f] # Original
            /\ \A w \in FileWriters : writing'[w].text # Original
        BY <1>5, <2>2 DEF DurableInv, ThereInv
      <3>2. \A f \in 1..Len(contents') : contents'[f] # Original
        BY <1>3, <3>1, NamesAre
      <3> QED
        BY <1>8, <2>2, <3>1, <3>2 DEF ThereInv
    <2> QED
      BY <2>1, <2>2
  <1>13. ASSUME Kept(entry'[Target]) PROVE KeptThen(entry'[Target])
    <2>1. entry'[Target] \in 0..Len(contents)
      BY <1>1, <1>2, NamesAre
    <2> QED
      BY <1>1, <1>7, <1>13, <2>1 DEF Kept
  <1>14. TargetKept'
    BY <1>2, <1>8, <1>13 DEF DurableInv, TargetKept, Kept, KeptThen
  <1>15. AckInv'
    <2>1. ASSUME NEW v \in FileWriters, writing'[v].step = "ok", writing'[v].kind # "plain"
          PROVE  /\ KeptThen(entry'[Target])
                 /\ PlacesThen(writing'[v].made) \subseteq PlacesThen(entry'[Target])
      <3>1. v \in Acknowledged
        BY <1>5, <2>1 DEF Acknowledged, Doing, Is
      <3>2. Kept(entry'[Target]) /\ Places(writing[v].made) \subseteq Places(entry'[Target])
        BY <1>2, <3>1 DEF DurableInv, AckInv
      <3> QED
        BY <1>5, <1>6, <1>13, <3>2
    <2>2. \A v \in FileWriters : writing'[v].step # "sync"
      BY <1>5
    <2> QED
      BY <1>2, <2>1, <2>2 DEF AckInv, Acknowledged, Doing, Is, KeptThen, PlacesThen, Kept, Places
  <1>16. ReadersGetWholeTexts'
    BY <1>1, <1>2, <1>8 DEF DurableInv, ReadersGetWholeTexts, NotReading
  <1> QED
    BY <1>9, <1>10, <1>11, <1>12, <1>14, <1>15, <1>16 DEF DurableInv

\* Every step of the calls, of another program and of a crash keeps the invariant
\* (io_utils.py).
LEMMA DurableStep == DurableInv /\ [DurableNext]_durableVars => DurableInv'
  <1> SUFFICES ASSUME DurableInv, [DurableNext]_durableVars PROVE DurableInv'
    OBVIOUS
  <1>1. ASSUME NEW w \in FileWriters, StartWrite(w) \/ LookAgain(w) \/ VerifyEntry(w)
        PROVE  DurableInv'
    BY <1>1, LooksAtNames
  <1>2. ASSUME NEW w \in FileWriters, OpenPrevious(w) \/ CreateFinal(w) \/ OpenTemporary(w)
        PROVE  DurableInv'
    BY <1>2, FilesMade
  <1>3. ASSUME NEW w \in FileWriters, Fill(w) PROVE DurableInv'
    BY <1>3, TextFilledKeeps
  <1>4. ASSUME NEW w \in FileWriters, FillFails(w) PROVE DurableInv'
    BY <1>4, FillFailsKeeps
  <1>5. ASSUME NEW w \in FileWriters, Exchange(w) PROVE DurableInv'
    BY <1>5, ExchangeKeeps
  <1>6. ASSUME NEW w \in FileWriters, SyncDirectory(w) PROVE DurableInv'
    BY <1>6, SyncKeeps
  <1>7. ASSUME NEW w \in FileWriters, CopyBackup(w) \/ FinishCopy(w) PROVE DurableInv'
    BY <1>7, CopyKeeps
  <1>8. ASSUME NEW w \in FileWriters, Replace(w) PROVE DurableInv'
    BY <1>8, ReplaceKeeps
  <1>9. CASE OpenToRead \/ ReadText \/ UNCHANGED durableVars
    BY <1>9, ReadsKeep
  <1>10. CASE ForeignFile
    BY <1>10, OtherProgramKeeps
  <1>11. CASE FileCrash
    BY <1>11, FileCrashKeeps
  <1> QED
    BY <1>1, <1>2, <1>3, <1>4, <1>5, <1>6, <1>7, <1>8, <1>9, <1>10, <1>11 DEF DurableNext

\* It holds before the first call, whether the file is there or not.
LEMMA DurableInitInv == DurableInit => DurableInv
  <1> SUFFICES ASSUME DurableInit PROVE DurableInv
    OBVIOUS
  <1>1. PICK there \in BOOLEAN :
          /\ entry = [n \in EntryNames |-> IF n = Target /\ there THEN 1 ELSE 0]
          /\ contents = IF there THEN <<Original>> ELSE <<>>
          /\ placed = IF there THEN <<1>> ELSE <<>>
          /\ synced = IF there THEN {1} ELSE {}
    BY DEF DurableInit
  <1>2. survivors = {entry} /\ reading = NotReading
    BY DEF DurableInit
  <1>3. PICK kinds \in [FileWriters -> DOMAIN WritingKinds] :
           writing = [w \in FileWriters |-> Idler(WritingKinds[kinds[w]])]
    BY DEF DurableInit
  <1>4. \A w \in FileWriters :
           /\ WritingKinds[kinds[w]] \in {"pinned", "backup", "publish", "plain"}
           /\ writing[w] = Idler(WritingKinds[kinds[w]])
    BY <1>3 DEF WritingKinds
  <1>5. \A w \in FileWriters :
           /\ writing[w] \in Calls /\ writing[w].step = "start" /\ writing[w].on = "target"
           /\ writing[w].previous = 0 /\ writing[w].made = 0 /\ writing[w].text = 0
    <2> SUFFICES ASSUME NEW w \in FileWriters, NEW kind \in {"pinned", "backup", "publish", "plain"},
                        writing[w] = Idler(kind)
                 PROVE  /\ writing[w] \in Calls /\ writing[w].step = "start"
                        /\ writing[w].on = "target" /\ writing[w].previous = 0
                        /\ writing[w].made = 0 /\ writing[w].text = 0
      BY <1>4
    <2> QED
      BY DEF Idler, Calls, WritingSteps
  <1>6. Target \in EntryNames /\ Backup \in EntryNames /\ Target # Backup /\ Original \in Nat \ {0}
    BY NamesAre
  <1>7. /\ contents \in Seq(Nat) /\ Len(contents) = (IF there THEN 1 ELSE 0)
        /\ placed \in Seq(Nat) /\ Put = (IF there THEN {1} ELSE {})
        /\ there => contents[1] = Original
    BY <1>1, <1>6 DEF Put
  <1>8. /\ entry \in [EntryNames -> 0..Len(contents)] /\ entry[Backup] = 0
        /\ entry[Target] = (IF there THEN 1 ELSE 0)
    BY <1>1, <1>6, <1>7
  <1>9. WasThere = there
    BY <1>7 DEF WasThere
  <1>10. FileTyped
    <2>1. writing \in [FileWriters -> Calls]
      BY <1>3, <1>5
    <2>2. reading \in [step : {"none", "open", "returned"}, file : Nat]
      BY <1>2 DEF NotReading
    <2>3. \A f \in Put : f \in 1..Len(contents)
      BY <1>7
    <2> QED
      BY <1>2, <1>5, <1>7, <1>8, <2>1, <2>2, <2>3 DEF FileTyped
  <1>11. \A w \in FileWriters : CallInv(w)
    BY <1>5 DEF CallInv, CallIs, Doing
  <1>12. ApartInv
    BY <1>2, <1>5, <1>7, <1>8 DEF ApartInv
  <1>13. ThereInv
    BY <1>1, <1>5, <1>6, <1>7, <1>9 DEF ThereInv
  <1>14. TargetKept
    BY <1>1, <1>2, <1>6, <1>7, <1>8, <1>9 DEF TargetKept, Kept
  <1>15. AckInv
    BY <1>5 DEF AckInv, Acknowledged, Doing
  <1>16. ReadersGetWholeTexts
    BY <1>2 DEF ReadersGetWholeTexts, NotReading
  <1> QED
    BY <1>10, <1>11, <1>12, <1>13, <1>14, <1>15, <1>16 DEF DurableInv

\* The invariant is enough: the file is whole in every directory a crash may leave,
\* and what was acknowledged is not gone.
LEMMA DurableHolds == DurableInv => FilesKept
  <1> SUFFICES ASSUME DurableInv PROVE FilesKept
    OBVIOUS
  <1>1. entry \in survivors /\ placed \in Seq(Nat) /\ Len(placed) \in Nat
    BY LenProperties DEF DurableInv, FileTyped
  <1>2. NeverCut
    BY <1>1 DEF DurableInv, TargetKept, Kept, NeverCut, WholeText
  <1>3. \A f : PlaceOf(f) = Cardinality(Places(f)) /\ IsFiniteSet(Places(f))
    <2> SUFFICES ASSUME NEW f PROVE PlaceOf(f) = Cardinality(Places(f)) /\ IsFiniteSet(Places(f))
      OBVIOUS
    <2>1. DOMAIN placed = 1..Len(placed) /\ Places(f) \subseteq DOMAIN placed
      BY <1>1, LenProperties DEF Places
    <2>2. IsFiniteSet(1..Len(placed))
      BY <1>1, FS_Interval
    <2> QED
      BY <2>1, <2>2, FS_Subset DEF PlaceOf, Places
  <1>4. ASSUME NEW w \in Acknowledged
        PROVE  WholeText(Target) /\ PlaceOf(entry[Target]) >= PlaceOf(writing[w].made)
    <2>1. Kept(entry[Target]) /\ Places(writing[w].made) \subseteq Places(entry[Target])
      BY <1>1 DEF DurableInv, AckInv
    <2>2. Cardinality(Places(writing[w].made)) <= Cardinality(Places(entry[Target]))
      BY <1>3, <2>1, FS_Subset
    <2>3. /\ Cardinality(Places(writing[w].made)) \in Nat
          /\ Cardinality(Places(entry[Target])) \in Nat
      BY <1>3, FS_CardinalityType
    <2> QED
      BY <1>3, <2>1, <2>2, <2>3 DEF Kept, WholeText
  <1>5. AcknowledgedStays
    BY <1>4 DEF AcknowledgedStays
  <1> QED
    BY <1>2, <1>5 DEF DurableInv, FilesKept

------------------------------------------------------------------------------
(* The wiki: no item is lost and no view is forgotten. *)

Citations == [meeting : WikiMeetings, version : Nat]

WikiPhases ==
    {"rest", "extract", "detect", "verify", "write", "written", "indexed", "digested"}

CompilationsTyped ==
    [phase : WikiPhases, meeting : WikiMeetings, version : Nat, new : SUBSET Citations,
     parsed : BOOLEAN, open : SUBSET Citations, closed : SUBSET Citations,
     verdict : {"none", "skipped", "phantom_citation", "passed", "low_confidence", "write_failed"},
     stale : BOOLEAN]

FillStatuses == {"none", "running", "completed", "failed", "cancelled"}

FillsTyped ==
    [memory : FillStatuses, row : FillStatuses, event : BOOLEAN, todo : SUBSET WikiMeetings,
     failed : BOOLEAN, succeeded : BOOLEAN]

WikiTyped ==
    /\ page \in [canonical : BOOLEAN, open : SUBSET Citations, closed : SUBSET Citations]
    /\ wikiSource \in [WikiMeetings -> Nat]
    /\ derived \in [Views -> SUBSET Citations]
    /\ compilation \in [Compilers -> CompilationsTyped]
    /\ fill \in [Fills -> FillsTyped]
    /\ recorded \in [open : SUBSET Citations, closed : SUBSET Citations]
    /\ behind \subseteq Views
    /\ wikiOverlapped \in BOOLEAN

\* What a compilation that is going to write has gathered holds all of a page no other
\* one has written since.
GatheredAll(c) ==
    /\ Reads(c) /\ compilation[c].parsed /\ ~compilation[c].stale =>
          /\ ItemsShown \subseteq compilation[c].open \cup compilation[c].closed
          /\ page.closed \subseteq compilation[c].closed
    /\ Compiling(c, "write") /\ compilation[c].verdict = "passed" => compilation[c].parsed

\* A view that does not show the page has a compilation that will come to it: for the
\* index, one that wrote the page.
Owed(v) ==
    \E c \in Compilers :
        \/ Compiling(c, "written") /\ (v = "index" => compilation[c].verdict = "passed")
        \/ Compiling(c, "indexed") /\ v # "index"
        \/ Compiling(c, "digested") /\ v = "history"

ViewsOwed == \A v \in Views : v \in behind \/ derived[v] = ItemsShown \/ Owed(v)

\* A backfill that compiles runs; one that has ended as completed is through.
FillThrough(f) == fill[f].todo = {} /\ (fill[f].failed => fill[f].succeeded)

FillInv(f) ==
    /\ ~Compiling(f, "rest") => fill[f].memory = "running"
    /\ fill[f].memory = "running" => fill[f].row # "completed"
    /\ fill[f].memory = "completed" \/ fill[f].row = "completed" => FillThrough(f)

WikiInv ==
    /\ WikiTyped
    /\ ItemsSurvive
    /\ \A c \in Compilers : GatheredAll(c)
    /\ ViewsOwed
    /\ \A f \in Fills : FillInv(f)

\* Nothing is compiled at rest.
LEMMA RestingIs ==
    /\ Resting \in CompilationsTyped /\ Resting.phase = "rest" /\ ~Resting.parsed
    /\ \A m \in WikiMeetings, version \in Nat :
          LET begun == [Resting EXCEPT !.phase = "extract", !.meeting = m, !.version = version]
          IN  begun \in CompilationsTyped /\ begun.phase = "extract"
  <1>1. (CHOOSE m \in WikiMeetings : TRUE) \in WikiMeetings
    BY WikiAssumption
  <1>2. /\ Resting \in CompilationsTyped /\ Resting.phase = "rest" /\ Resting.parsed = FALSE
    BY <1>1 DEF Resting, CompilationsTyped, WikiPhases
  <1>3. ASSUME NEW m \in WikiMeetings, NEW version \in Nat
        PROVE  /\ [Resting EXCEPT !.phase = "extract", !.meeting = m, !.version = version]
                     \in CompilationsTyped
               /\ [Resting EXCEPT !.phase = "extract", !.meeting = m, !.version = version].phase
                     = "extract"
    BY <1>2 DEF CompilationsTyped, WikiPhases
  <1> QED
    BY <1>2, <1>3

\* A compiler takes another step.
LEMMA GoesIs ==
    ASSUME WikiTyped, NEW c \in Compilers, NEW onward \in CompilationsTyped, Goes(c, onward)
    PROVE  /\ compilation' \in [Compilers -> CompilationsTyped] /\ compilation'[c] = onward
           /\ \A d \in Compilers \ {c} : compilation'[d] = compilation[d]
  BY DEF WikiTyped, Goes

\* A step of one compiler that leaves the page, the views and the backfills alone.
LEMMA CompilerKeeps ==
    ASSUME WikiInv, NEW c \in Compilers, NEW onward \in CompilationsTyped, Goes(c, onward),
           UNCHANGED <<page, wikiSource, derived, fill, recorded, wikiOverlapped, behind>>,
           ~Compiling(c, "rest"),
           ~Compiling(c, "written") /\ ~Compiling(c, "indexed") /\ ~Compiling(c, "digested"),
           onward.phase # "rest",
           onward.phase \in {"detect", "verify", "write"} /\ onward.parsed /\ ~onward.stale =>
              /\ ItemsShown \subseteq onward.open \cup onward.closed
              /\ page.closed \subseteq onward.closed,
           onward.phase = "write" /\ onward.verdict = "passed" => onward.parsed
    PROVE  WikiInv'
  <1>1. /\ compilation' \in [Compilers -> CompilationsTyped] /\ compilation'[c] = onward
        /\ \A d \in Compilers \ {c} : compilation'[d] = compilation[d]
    BY GoesIs DEF WikiInv
  <1>2. WikiTyped' /\ ItemsSurvive'
    BY <1>1 DEF WikiInv, WikiTyped, ItemsSurvive, ItemsShown
  <1>3. \A d \in Compilers : GatheredAll(d)'
    BY <1>1 DEF WikiInv, GatheredAll, Reads, Compiling, ItemsShown
  <1>4. ViewsOwed'
    BY <1>1 DEF WikiInv, ViewsOwed, Owed, Compiling, ItemsShown
  <1>5. \A f \in Fills : FillInv(f)'
    BY <1>1 DEF WikiInv, FillInv, FillThrough, Compiling, Compilers
  <1> QED
    BY <1>2, <1>3, <1>4, <1>5 DEF WikiInv

\* The steps before the page is written.
LEMMA GatherKeeps ==
    ASSUME WikiInv, NEW c \in Compilers,
           ExtractAndParse(c) \/ DetectAndRender(c) \/ VerifyCitations(c)
    PROVE  WikiInv'
  <1>1. /\ compilation[c] \in CompilationsTyped
        /\ page \in [canonical : BOOLEAN, open : SUBSET Citations, closed : SUBSET Citations]
        /\ UNCHANGED <<page, wikiSource, derived, fill, recorded, wikiOverlapped, behind>>
    BY DEF WikiInv, WikiTyped, ExtractAndParse, DetectAndRender, VerifyCitations
  <1>2. CASE ExtractAndParse(c)
    <2>1. Item(c) \in Citations
      BY <1>1 DEF Item, Citations, CompilationsTyped
    <2>2. PICK new \in {{}, {Item(c)}} :
             Goes(c, [compilation[c] EXCEPT
                     !.phase = "detect", !.new = new, !.parsed = ParsesWell,
                     !.open = Existing(page.open), !.closed = Existing(page.closed)])
      BY <1>2 DEF ExtractAndParse
    <2> DEFINE onward == [compilation[c] EXCEPT
                     !.phase = "detect", !.new = new, !.parsed = ParsesWell,
                     !.open = Existing(page.open), !.closed = Existing(page.closed)]
    <2>3. /\ onward \in CompilationsTyped /\ onward.phase = "detect"
          /\ onward.parsed => page.canonical /\ onward.open = Existing(page.open)
                               /\ onward.closed = Existing(page.closed)
      <3>1. /\ new \in SUBSET Citations /\ ParsesWell \in BOOLEAN
            /\ Existing(page.open) \in SUBSET Citations
            /\ Existing(page.closed) \in SUBSET Citations
        BY <1>1, <2>1 DEF ParsesWell, Existing
      <3>2. onward \in CompilationsTyped
        BY <1>1, <3>1 DEF CompilationsTyped, WikiPhases
      <3>3. /\ onward.phase = "detect" /\ onward.open = Existing(page.open)
            /\ onward.closed = Existing(page.closed) /\ onward.parsed = ParsesWell
        BY <1>1 DEF CompilationsTyped
      <3> QED
        BY <3>2, <3>3 DEF ParsesWell
    <2>4. onward.parsed => onward.open = page.open /\ onward.closed = page.closed
      BY <2>3 DEF Existing
    <2>5. Goes(c, onward) /\ Compiling(c, "extract")
      BY <1>2, <2>2 DEF ExtractAndParse
    <2> HIDE DEF onward
    <2> QED
      BY <1>1, <2>3, <2>4, <2>5, CompilerKeeps DEF Compiling, ItemsShown
  <1>3. CASE DetectAndRender(c)
    <2>1. PICK done \in NewlyClosed(c) : Goes(c, [Rendered(c, done) EXCEPT !.phase = "verify"])
      BY <1>3 DEF DetectAndRender
    <2> DEFINE onward == [Rendered(c, done) EXCEPT !.phase = "verify"]
    <2>2. /\ (compilation[c].open \ done) \cup compilation[c].new \in SUBSET Citations
          /\ compilation[c].closed \cup done \in SUBSET Citations
      BY <1>1, <2>1 DEF NewlyClosed, CompilationsTyped
    <2>3. /\ Rendered(c, done) \in CompilationsTyped
          /\ Rendered(c, done).open = (compilation[c].open \ done) \cup compilation[c].new
          /\ Rendered(c, done).closed = compilation[c].closed \cup done
          /\ Rendered(c, done).parsed = compilation[c].parsed
          /\ Rendered(c, done).stale = compilation[c].stale
      BY <1>1, <2>2 DEF Rendered, CompilationsTyped
    <2>4. /\ onward \in CompilationsTyped /\ onward.phase = "verify"
          /\ onward.open = (compilation[c].open \ done) \cup compilation[c].new
          /\ onward.closed = compilation[c].closed \cup done
          /\ onward.parsed = compilation[c].parsed
          /\ onward.stale = compilation[c].stale
      BY <2>3 DEF CompilationsTyped, WikiPhases
    <2>5. Goes(c, onward) /\ Compiling(c, "detect")
      BY <1>3, <2>1 DEF DetectAndRender
    <2> HIDE DEF onward
    <2>6. onward.parsed /\ ~onward.stale =>
             /\ ItemsShown \subseteq onward.open \cup onward.closed
             /\ page.closed \subseteq onward.closed
      BY <2>4, <2>5 DEF WikiInv, GatheredAll, Reads, Compiling
    <2> QED
      BY <1>1, <2>4, <2>5, <2>6, CompilerKeeps DEF Compiling
  <1>4. CASE VerifyCitations(c)
    <2>1. PICK verdict \in Verdicts(c) :
             Goes(c, [compilation[c] EXCEPT !.phase = "write", !.verdict = verdict])
      BY <1>4 DEF VerifyCitations
    <2> DEFINE onward == [compilation[c] EXCEPT !.phase = "write", !.verdict = verdict]
    <2>2. /\ verdict \in {"skipped", "phantom_citation", "passed", "low_confidence"}
          /\ verdict = "passed" => compilation[c].parsed
      BY DEF Verdicts
    <2>3. /\ onward \in CompilationsTyped /\ onward.phase = "write"
          /\ onward.verdict = verdict
          /\ onward.open = compilation[c].open /\ onward.closed = compilation[c].closed
          /\ onward.parsed = compilation[c].parsed
          /\ onward.stale = compilation[c].stale
      BY <1>1, <2>2 DEF CompilationsTyped, WikiPhases
    <2>4. Goes(c, onward) /\ Compiling(c, "verify")
      BY <1>4, <2>1 DEF VerifyCitations
    <2> HIDE DEF onward
    <2>5. onward.parsed /\ ~onward.stale =>
             /\ ItemsShown \subseteq onward.open \cup onward.closed
             /\ page.closed \subseteq onward.closed
      BY <2>3, <2>4 DEF WikiInv, GatheredAll, Reads, Compiling
    <2> QED
      BY <1>1, <2>2, <2>3, <2>4, <2>5, CompilerKeeps DEF Compiling
  <1> QED
    BY <1>2, <1>3, <1>4

\* A page that is kept: nothing is due for what was not written.
LEMMA KeepPageKeeps ==
    ASSUME WikiInv, NEW c \in Compilers, KeepPage(c)
    PROVE  WikiInv'
  <1>1. /\ compilation[c] \in CompilationsTyped /\ Compiling(c, "write")
        /\ UNCHANGED <<page, wikiSource, derived, fill, recorded, wikiOverlapped, behind>>
    BY DEF WikiInv, WikiTyped, KeepPage
  <1> DEFINE onward == [compilation[c] EXCEPT !.phase = "written",
                  !.verdict = IF @ = "passed" THEN "write_failed" ELSE @]
  <1>2. onward \in CompilationsTyped /\ onward.phase = "written"
    BY <1>1 DEF CompilationsTyped, WikiPhases
  <1>3. Goes(c, onward)
    BY DEF KeepPage
  <1> HIDE DEF onward
  <1> QED
    BY <1>1, <1>2, <1>3, CompilerKeeps DEF Compiling

\* The page is written: with all it had, unless another one was written meanwhile.
LEMMA WritePageKeeps ==
    ASSUME WikiInv, NEW c \in Compilers, WritePage(c)
    PROVE  WikiInv'
  <1>1. /\ compilation \in [Compilers -> CompilationsTyped]
        /\ Compiling(c, "write") /\ compilation[c].verdict = "passed"
        /\ compilation[c].parsed
        /\ page \in [canonical : BOOLEAN, open : SUBSET Citations, closed : SUBSET Citations]
        /\ recorded \in [open : SUBSET Citations, closed : SUBSET Citations]
        /\ UNCHANGED <<wikiSource, derived, fill, behind>>
        /\ wikiOverlapped' = (wikiOverlapped \/ compilation[c].stale)
    BY DEF WikiInv, WikiTyped, WritePage, GatheredAll
  <1>2. /\ page' = [canonical |-> TRUE, open |-> compilation[c].open,
                    closed |-> compilation[c].closed]
        /\ recorded' = [open |-> recorded.open \cup page'.open,
                        closed |-> recorded.closed \cup page'.closed]
    BY DEF WritePage, PageOf
  <1>3. /\ page' \in [canonical : BOOLEAN, open : SUBSET Citations, closed : SUBSET Citations]
        /\ page'.open = compilation[c].open /\ page'.closed = compilation[c].closed
    BY <1>1, <1>2 DEF CompilationsTyped
  <1>4. /\ recorded' \in [open : SUBSET Citations, closed : SUBSET Citations]
        /\ recorded'.open = recorded.open \cup page'.open
        /\ recorded'.closed = recorded.closed \cup page'.closed
    BY <1>1, <1>2, <1>3
  <1>5. \A d \in Compilers :
           /\ compilation'[d] \in CompilationsTyped
           /\ d # c => /\ compilation'[d].phase = compilation[d].phase
                       /\ compilation'[d].verdict = compilation[d].verdict
                       /\ compilation'[d].parsed = compilation[d].parsed
           /\ d = c => compilation'[d].phase = "written" /\ compilation'[d].verdict = "passed"
           /\ Reads(d)' => compilation'[d].stale
    <2> TAKE d \in Compilers
    <2>1. compilation'[d] = IF d = c THEN [compilation[c] EXCEPT !.phase = "written"]
                            ELSE IF Reads(d) THEN [compilation[d] EXCEPT !.stale = TRUE]
                                 ELSE compilation[d]
      BY DEF WritePage
    <2>2. compilation[d] \in CompilationsTyped /\ compilation[c] \in CompilationsTyped
      BY <1>1
    <2>3. CASE d = c
      <3>1. compilation'[d] = [compilation[c] EXCEPT !.phase = "written"]
        BY <2>1, <2>3
      <3>2. /\ compilation'[d] \in CompilationsTyped /\ compilation'[d].phase = "written"
            /\ compilation'[d].verdict = compilation[c].verdict
        BY <2>2, <3>1 DEF CompilationsTyped, WikiPhases
      <3> QED
        BY <1>1, <2>3, <3>2 DEF Reads
    <2>4. CASE d # c /\ Reads(d)
      <3>1. compilation'[d] = [compilation[d] EXCEPT !.stale = TRUE]
        BY <2>1, <2>4
      <3>2. /\ compilation'[d] \in CompilationsTyped
            /\ compilation'[d].phase = compilation[d].phase
            /\ compilation'[d].verdict = compilation[d].verdict
            /\ compilation'[d].parsed = compilation[d].parsed
        BY <2>2, <3>1 DEF CompilationsTyped
      <3>3. compilation'[d].stale = TRUE
        BY <2>2, <3>1 DEF CompilationsTyped
      <3>4. compilation'[d].stale
        BY <3>3
      <3> QED
        BY <2>4, <3>2, <3>4
    <2>5. CASE d # c /\ ~Reads(d)
      <3>1. compilation'[d] = compilation[d]
        BY <2>1, <2>5
      <3> QED
        BY <2>2, <2>5, <3>1 DEF Reads
    <2> QED
      BY <2>3, <2>4, <2>5
  <1>6. WikiTyped'
    <2>1. compilation' \in [Compilers -> CompilationsTyped]
      BY <1>5 DEF WritePage
    <2>2. wikiOverlapped' \in BOOLEAN
      BY <1>1
    <2> QED
      BY <1>1, <1>3, <1>4, <2>1, <2>2 DEF WikiInv, WikiTyped
  <1>7. ItemsSurvive'
    <2> SUFFICES ASSUME ~wikiOverlapped'
                 PROVE  /\ recorded'.open \subseteq page'.open \cup page'.closed
                        /\ recorded'.closed \subseteq page'.closed
      BY DEF ItemsSurvive, ItemsShown
    <2>1. ~wikiOverlapped /\ ~compilation[c].stale
      BY <1>1
    <2>2. /\ recorded.open \subseteq page.open \cup page.closed
          /\ recorded.closed \subseteq page.closed
      BY <2>1 DEF WikiInv, ItemsSurvive, ItemsShown
    <2>3. /\ page.open \cup page.closed \subseteq compilation[c].open \cup compilation[c].closed
          /\ page.closed \subseteq compilation[c].closed
      BY <1>1, <2>1 DEF WikiInv, GatheredAll, Reads, Compiling, ItemsShown
    <2> QED
      BY <1>3, <1>4, <2>2, <2>3
  <1>8. \A d \in Compilers : GatheredAll(d)'
    <2> TAKE d \in Compilers
    <2>1. CASE d = c
      BY <1>5, <2>1 DEF GatheredAll, Reads, Compiling
    <2>2. CASE d # c
      <3>1. GatheredAll(d)
        BY DEF WikiInv
      <3> QED
        BY <1>5, <2>2, <3>1 DEF GatheredAll, Reads, Compiling
    <2> QED
      BY <2>1, <2>2
  <1>9. ViewsOwed'
    <2>1. Compiling(c, "written")' /\ compilation'[c].verdict = "passed"
      BY <1>5 DEF Compiling
    <2> QED
      BY <2>1 DEF ViewsOwed, Owed
  <1>10. \A f \in Fills : FillInv(f)'
    <2> TAKE f \in Fills
    <2>1. f \in Compilers /\ FillInv(f)
      BY DEF WikiInv, Compilers
    <2>2. ~Compiling(f, "rest")' => ~Compiling(f, "rest")
      BY <1>1, <1>5, <2>1 DEF Compiling
    <2> QED
      BY <1>1, <2>1, <2>2 DEF FillInv, FillThrough
  <1> QED
    BY <1>6, <1>7, <1>8, <1>9, <1>10 DEF WikiInv

\* The views are refreshed after the page, or left behind.
LEMMA RefreshKeeps ==
    ASSUME WikiInv, NEW c \in Compilers, RefreshIndex(c) \/ RefreshDigest(c) \/ Commit(c)
    PROVE  WikiInv'
  <1>1. /\ compilation[c] \in CompilationsTyped
        /\ UNCHANGED <<page, wikiSource, fill, recorded, wikiOverlapped>>
    BY DEF WikiInv, WikiTyped, RefreshIndex, RefreshDigest, Commit
  <1> DEFINE view == IF Compiling(c, "written") THEN "index"
                     ELSE IF Compiling(c, "indexed") THEN "digest" ELSE "history"
             onward == IF Compiling(c, "written")
                        THEN [compilation[c] EXCEPT !.phase = "indexed"]
                        ELSE IF Compiling(c, "indexed")
                             THEN [compilation[c] EXCEPT !.phase = "digested"] ELSE Resting
  <1>2. /\ view \in Views /\ onward \in CompilationsTyped
        /\ onward.phase \in {"indexed", "digested", "rest"}
        /\ Compiling(c, "written") => onward.phase = "indexed"
        /\ Compiling(c, "indexed") => onward.phase = "digested"
    BY <1>1, RestingIs DEF Views, CompilationsTyped, WikiPhases, Compiling
  <1>3. /\ Goes(c, onward)
        /\ \/ RefreshedView(view)
           \/ /\ Compiling(c, "written") /\ compilation[c].verdict # "passed"
              /\ UNCHANGED <<derived, behind>>
    BY DEF RefreshIndex, RefreshDigest, Commit, IndexRebuilt, Digests, Committed, Compiling
  <1>4. Compiling(c, "written") \/ Compiling(c, "indexed") \/ Compiling(c, "digested")
    BY DEF RefreshIndex, RefreshDigest, Commit
  <1>5. /\ derived' \in [Views -> SUBSET Citations] /\ behind' \subseteq Views
        /\ \A v \in Views : v # view =>
              derived'[v] = derived[v] /\ (v \in behind' <=> v \in behind)
        /\ \/ view \in behind' \/ derived'[view] = ItemsShown
           \/ /\ Compiling(c, "written") /\ compilation[c].verdict # "passed"
              /\ UNCHANGED <<derived, behind>>
    <2>1. ItemsShown \in SUBSET Citations /\ derived \in [Views -> SUBSET Citations]
          /\ behind \subseteq Views
      BY DEF WikiInv, WikiTyped, ItemsShown
    <2> HIDE DEF view
    <2>2. CASE RefreshedView(view)
      BY <1>2, <2>1, <2>2 DEF RefreshedView
    <2> QED
      BY <1>3, <2>1, <2>2
  <1> HIDE DEF onward
  <1>6. /\ compilation' \in [Compilers -> CompilationsTyped] /\ compilation'[c] = onward
        /\ \A d \in Compilers \ {c} : compilation'[d] = compilation[d]
    BY <1>2, <1>3, GoesIs DEF WikiInv
  <1>7. WikiTyped' /\ ItemsSurvive'
    BY <1>1, <1>5, <1>6 DEF WikiInv, WikiTyped, ItemsSurvive, ItemsShown
  <1>8. \A d \in Compilers : GatheredAll(d)'
    <2> TAKE d \in Compilers
    <2>1. GatheredAll(d)
      BY DEF WikiInv
    <2> QED
      BY <1>1, <1>2, <1>6, <2>1 DEF GatheredAll, Reads, Compiling, ItemsShown
  <1>9. ViewsOwed'
    <2> SUFFICES ASSUME NEW v \in Views
                 PROVE  v \in behind' \/ derived'[v] = ItemsShown' \/ Owed(v)'
      BY DEF ViewsOwed
    <2>1. ItemsShown' = ItemsShown
      BY <1>1 DEF ItemsShown
    <2>2. v \in behind \/ derived[v] = ItemsShown \/ Owed(v)
      BY DEF WikiInv, ViewsOwed
    <2>3. CASE v = view /\ (view \in behind' \/ derived'[view] = ItemsShown)
      BY <2>1, <2>3
    <2>4. CASE v # view \/ ~(view \in behind' \/ derived'[view] = ItemsShown)
      <3>1. /\ derived'[v] = derived[v] /\ (v \in behind' <=> v \in behind)
            /\ v = view => /\ Compiling(c, "written") /\ compilation[c].verdict # "passed"
                           /\ v = "index"
        BY <1>5, <2>4
      <3>2. CASE Owed(v)
        <4>1. PICK d \in Compilers :
                 \/ Compiling(d, "written") /\ (v = "index" => compilation[d].verdict = "passed")
                 \/ Compiling(d, "indexed") /\ v # "index"
                 \/ Compiling(d, "digested") /\ v = "history"
          BY <3>2 DEF Owed
        <4>2. CASE d # c
          <5>1. compilation'[d] = compilation[d]
            BY <1>6, <4>2
          <5> QED
            BY <4>1, <5>1 DEF Owed, Compiling
        <4>3. CASE d = c
          <5>1. v # view
            BY <3>1, <4>1, <4>3 DEF Compiling
          <5>2. /\ Compiling(c, "written") => v # "index" /\ onward.phase = "indexed"
                /\ Compiling(c, "indexed") => v = "history" /\ onward.phase = "digested"
                /\ ~Compiling(c, "digested")
            BY <1>2, <4>1, <4>3, <5>1 DEF Views, Compiling
          <5> QED
            BY <1>4, <1>6, <5>2 DEF Owed, Compiling
        <4> QED
          BY <4>2, <4>3
      <3> QED
        BY <2>1, <2>2, <3>1, <3>2
    <2> QED
      BY <2>3, <2>4
  <1>10. \A f \in Fills : FillInv(f)'
    <2> TAKE f \in Fills
    <2>1. f \in Compilers /\ FillInv(f)
      BY DEF WikiInv, Compilers
    <2>2. ~Compiling(f, "rest")' => ~Compiling(f, "rest")
      BY <1>4, <1>6, <2>1 DEF Compiling
    <2> QED
      BY <1>1, <2>1, <2>2 DEF FillInv, FillThrough
  <1> QED
    BY <1>7, <1>8, <1>9, <1>10 DEF WikiInv

\* A compilation begins, of a meeting that has its transcript.
LEMMA BeginKeeps ==
    ASSUME WikiInv, NEW c \in Compilers, NEW m \in WikiMeetings, Begins(c, m),
           Compiling(c, "rest"),
           UNCHANGED <<page, wikiSource, derived, recorded, wikiOverlapped, behind>>
    PROVE  /\ compilation' \in [Compilers -> CompilationsTyped]
           /\ \A d \in Compilers \ {c} : compilation'[d] = compilation[d]
           /\ ItemsSurvive' /\ ViewsOwed'
           /\ \A d \in Compilers : GatheredAll(d)'
  <1> DEFINE begun == [Resting EXCEPT !.phase = "extract", !.meeting = m,
                                      !.version = wikiSource[m]]
  <1>1. begun \in CompilationsTyped /\ begun.phase = "extract"
    <2>1. wikiSource[m] \in Nat
      BY DEF WikiInv, WikiTyped
    <2> QED
      BY <2>1, RestingIs
  <1>2. Goes(c, begun)
    BY DEF Begins
  <1> HIDE DEF begun
  <1>3. /\ compilation' \in [Compilers -> CompilationsTyped] /\ compilation'[c] = begun
        /\ \A d \in Compilers \ {c} : compilation'[d] = compilation[d]
    BY <1>1, <1>2, GoesIs DEF WikiInv
  <1>4. ItemsSurvive' /\ ItemsShown' = ItemsShown
    BY DEF WikiInv, ItemsSurvive, ItemsShown
  <1>5. \A d \in Compilers : GatheredAll(d)'
    <2> TAKE d \in Compilers
    <2>1. GatheredAll(d)
      BY DEF WikiInv
    <2> QED
      BY <1>1, <1>3, <1>4, <2>1 DEF GatheredAll, Reads, Compiling
  <1>6. ViewsOwed'
    BY <1>3, <1>4 DEF WikiInv, ViewsOwed, Owed, Compiling
  <1> QED
    BY <1>3, <1>4, <1>5, <1>6

\* The pipeline's compilation begins with the meeting that has completed.
LEMMA PipelineBeginKeeps ==
    ASSUME WikiInv, PipelineCompiles
    PROVE  WikiInv'
  <1>1. PICK m \in WikiMeetings : Begins(Pipeline, m)
    BY DEF PipelineCompiles
  <1>2. /\ Compiling(Pipeline, "rest") /\ Pipeline \in Compilers
        /\ UNCHANGED <<page, wikiSource, derived, fill, recorded, wikiOverlapped, behind>>
    BY DEF PipelineCompiles, Compilers
  <1>3. /\ compilation' \in [Compilers -> CompilationsTyped]
        /\ \A d \in Compilers \ {Pipeline} : compilation'[d] = compilation[d]
        /\ ItemsSurvive' /\ ViewsOwed'
        /\ \A d \in Compilers : GatheredAll(d)'
    BY <1>1, <1>2, BeginKeeps
  <1>4. WikiTyped'
    BY <1>2, <1>3 DEF WikiInv, WikiTyped
  <1>5. \A f \in Fills : FillInv(f)'
    <2> TAKE f \in Fills
    <2>1. f \in Compilers /\ f # Pipeline /\ FillInv(f)
      BY WikiAssumption DEF WikiInv, Compilers
    <2> QED
      BY <1>2, <1>3, <2>1 DEF FillInv, FillThrough, Compiling
  <1> QED
    BY <1>3, <1>4, <1>5 DEF WikiInv

\* The backfill comes to its next meeting.
LEMMA NextMeetingKeeps ==
    ASSUME WikiInv, NEW f \in Fills, NextMeeting(f)
    PROVE  WikiInv'
  <1>1. /\ fill[f] \in FillsTyped /\ fill[f].memory = "running" /\ Compiling(f, "rest")
        /\ f \in Compilers /\ fill[f].row # "completed"
        /\ UNCHANGED <<page, wikiSource, derived, recorded, wikiOverlapped, behind>>
    BY DEF WikiInv, WikiTyped, NextMeeting, InLoop, FillInv, Compilers
  <1>2. PICK m \in fill[f].todo :
          \/ /\ Begins(f, m)
             /\ \E empty \in BOOLEAN :
                   fill' = [fill EXCEPT ![f].todo = @ \ {m}, ![f].failed = @ \/ empty,
                                        ![f].succeeded = @ \/ ~empty]
          \/ /\ fill' = [fill EXCEPT ![f].todo = @ \ {m}, ![f].failed = TRUE]
             /\ UNCHANGED <<compilation, compilations>>
    BY DEF NextMeeting
  <1>3. m \in WikiMeetings
    BY <1>1 DEF FillsTyped
  <1>4. /\ fill' \in [Fills -> FillsTyped]
        /\ fill'[f].memory = "running" /\ fill'[f].row # "completed"
        /\ \A g \in Fills \ {f} : fill'[g] = fill[g]
    <2>1. fill \in [Fills -> FillsTyped]
      BY DEF WikiInv, WikiTyped
    <2>2. PICK failed \in BOOLEAN, succeeded \in BOOLEAN :
             fill' = [fill EXCEPT ![f] = [fill[f] EXCEPT !.todo = fill[f].todo \ {m},
                                            !.failed = failed, !.succeeded = succeeded]]
      <3>1. fill[f].failed \in BOOLEAN /\ fill[f].succeeded \in BOOLEAN
        BY <1>1 DEF FillsTyped
      <3>2. CASE \E empty \in BOOLEAN :
                   fill' = [fill EXCEPT ![f].todo = @ \ {m}, ![f].failed = @ \/ empty,
                                        ![f].succeeded = @ \/ ~empty]
        <4>1. PICK empty \in BOOLEAN :
                   fill' = [fill EXCEPT ![f] = [fill[f] EXCEPT !.todo = fill[f].todo \ {m},
                              !.failed = fill[f].failed \/ empty,
                              !.succeeded = fill[f].succeeded \/ ~empty]]
          BY <2>1, <3>2
        <4>2. (fill[f].failed \/ empty) \in BOOLEAN /\ (fill[f].succeeded \/ ~empty) \in BOOLEAN
          OBVIOUS
        <4> QED
          BY <4>1, <4>2
      <3>3. CASE fill' = [fill EXCEPT ![f].todo = @ \ {m}, ![f].failed = TRUE]
        <4>1. fill' = [fill EXCEPT ![f] = [fill[f] EXCEPT !.todo = fill[f].todo \ {m},
                              !.failed = TRUE]]
          BY <2>1, <3>3
        <4>2. [fill[f] EXCEPT !.todo = fill[f].todo \ {m}, !.failed = TRUE]
                = [fill[f] EXCEPT !.todo = fill[f].todo \ {m}, !.failed = TRUE,
                                  !.succeeded = fill[f].succeeded]
          BY <1>1 DEF FillsTyped
        <4>3. TRUE \in BOOLEAN
          OBVIOUS
        <4> QED
          BY <3>1, <4>1, <4>2, <4>3
      <3> QED
        BY <1>2, <3>2, <3>3
    <2> DEFINE next == [fill[f] EXCEPT !.todo = fill[f].todo \ {m},
                                       !.failed = failed, !.succeeded = succeeded]
    <2>3. next \in FillsTyped /\ next.memory = fill[f].memory /\ next.row = fill[f].row
      <3>1. fill[f].todo \ {m} \in SUBSET WikiMeetings
        BY <1>1 DEF FillsTyped
      <3> QED
        BY <1>1, <3>1 DEF FillsTyped
    <2>4. fill' = [fill EXCEPT ![f] = next]
      BY <2>2
    <2> HIDE DEF next
    <2> QED
      BY <1>1, <2>1, <2>3, <2>4
  <1>5. /\ compilation' \in [Compilers -> CompilationsTyped]
        /\ \A d \in Compilers \ {f} : compilation'[d] = compilation[d]
        /\ ItemsSurvive' /\ ViewsOwed'
        /\ \A d \in Compilers : GatheredAll(d)'
    <2>1. CASE Begins(f, m)
      BY <1>1, <1>3, <2>1, BeginKeeps
    <2>2. CASE UNCHANGED compilation
      BY <1>1, <2>2 DEF WikiInv, WikiTyped, ItemsSurvive, ViewsOwed, Owed, GatheredAll, Reads,
                        Compiling, ItemsShown
    <2> QED
      BY <1>2, <2>1, <2>2
  <1>6. WikiTyped'
    BY <1>1, <1>4, <1>5 DEF WikiInv, WikiTyped
  <1>7. \A g \in Fills : FillInv(g)'
    <2> TAKE g \in Fills
    <2>1. CASE g = f
      <3>1. fill'[g].memory = "running" /\ fill'[g].row # "completed"
        BY <1>4, <2>1
      <3> QED
        BY <3>1 DEF FillInv
    <2>2. CASE g # f
      <3>1. g \in Compilers \ {f} /\ FillInv(g)
        BY <2>2 DEF WikiInv, Compilers
      <3>2. fill'[g] = fill[g] /\ compilation'[g] = compilation[g]
        BY <1>4, <1>5, <2>2, <3>1
      <3> QED
        BY <3>1, <3>2 DEF FillInv, FillThrough, Compiling
    <2> QED
      BY <2>1, <2>2
  <1> QED
    BY <1>5, <1>6, <1>7 DEF WikiInv

\* A backfill is started, ends or is cancelled: the compilations do not notice.
LEMMA FillKeeps ==
    ASSUME WikiInv, NEW f \in Fills,
           (\E targets \in Targets, listed \in BOOLEAN : StartFill(f, targets, listed))
              \/ EndFill(f) \/ CancelFill(f)
    PROVE  WikiInv'
  <1>1. /\ fill \in [Fills -> FillsTyped] /\ fill[f] \in FillsTyped /\ FillInv(f)
        /\ UNCHANGED <<page, wikiSource, derived, compilation, recorded, wikiOverlapped, behind>>
    BY DEF WikiInv, WikiTyped, StartFill, EndFill, CancelFill
  <1>2. PICK next \in FillsTyped :
           /\ fill' = [fill EXCEPT ![f] = next]
           /\ ~Compiling(f, "rest") => next.memory = "running"
           /\ next.memory = "running" => next.row # "completed"
           /\ next.memory = "completed" \/ next.row = "completed" =>
                 next.todo = {} /\ (next.failed => next.succeeded)
    <2>1. CASE \E targets \in Targets, listed \in BOOLEAN : StartFill(f, targets, listed)
      <3>1. PICK targets \in Targets, listed \in BOOLEAN : StartFill(f, targets, listed)
        BY <2>1
      <3> DEFINE todo == IF listed THEN targets ELSE {}
                 next == [NoFill EXCEPT !.memory = "running", !.row = "running", !.todo = todo]
      <3>2. todo \in SUBSET WikiMeetings
        BY DEF Targets
      <3>3. fill' = [fill EXCEPT ![f] = next]
        BY <3>1 DEF StartFill
      <3> HIDE DEF todo
      <3>4. NoFill \in FillsTyped
        BY DEF NoFill, FillsTyped, FillStatuses
      <3>5. next \in FillsTyped /\ next.memory = "running" /\ next.row = "running"
        BY <3>2, <3>4 DEF FillsTyped, FillStatuses
      <3> HIDE DEF next
      <3> QED
        BY <3>3, <3>5
    <2>2. CASE EndFill(f)
      <3>1. PICK row \in EndRows(f) :
               fill' = [fill EXCEPT ![f].row = row,
                     ![f].memory = IF row = Outcome(f) THEN Outcome(f) ELSE "failed"]
        BY <2>2 DEF EndFill
      <3> DEFINE memory == IF row = Outcome(f) THEN Outcome(f) ELSE "failed"
                 next == [fill[f] EXCEPT !.row = row, !.memory = memory]
      <3>2. /\ Compiling(f, "rest") /\ fill[f].memory = "running" /\ fill[f].row # "completed"
            /\ fill[f].event \/ fill[f].todo = {}
        BY <1>1, <2>2 DEF EndFill, InLoop, FillInv
      <3>3. /\ Outcome(f) \in {"cancelled", "failed", "completed"}
            /\ Outcome(f) = "completed" => FillThrough(f)
        BY <3>2 DEF Outcome, FillThrough
      <3>4. /\ row \in FillStatuses /\ memory \in {"cancelled", "failed", "completed"}
            /\ memory = "completed" \/ row = "completed" => FillThrough(f)
        BY <1>1, <3>1, <3>2, <3>3 DEF EndRows, FillsTyped, FillStatuses
      <3>5. fill' = [fill EXCEPT ![f] = next]
        BY <1>1, <3>1
      <3> HIDE DEF memory
      <3>6. /\ next \in FillsTyped /\ next.memory = memory /\ next.row = row
            /\ next.todo = fill[f].todo /\ next.failed = fill[f].failed
            /\ next.succeeded = fill[f].succeeded
        BY <1>1, <3>4 DEF FillsTyped, FillStatuses
      <3> HIDE DEF next
      <3> QED
        BY <3>2, <3>4, <3>5, <3>6 DEF FillThrough
    <2>3. CASE CancelFill(f)
      <3> DEFINE event == fill[f].memory # "none"
                 next == [fill[f] EXCEPT !.event = event, !.row = "cancelled"]
      <3>1. fill' = [fill EXCEPT ![f] = next]
        BY <1>1, <2>3 DEF CancelFill
      <3>2. event \in BOOLEAN
        OBVIOUS
      <3> HIDE DEF event
      <3>3. /\ next \in FillsTyped /\ next.memory = fill[f].memory /\ next.row = "cancelled"
            /\ next.todo = fill[f].todo /\ next.failed = fill[f].failed
            /\ next.succeeded = fill[f].succeeded
        BY <1>1, <3>2 DEF FillsTyped, FillStatuses
      <3> HIDE DEF next
      <3> QED
        BY <1>1, <3>1, <3>3 DEF FillInv, FillThrough
    <2> QED
      BY <2>1, <2>2, <2>3
  <1>3. /\ fill' \in [Fills -> FillsTyped] /\ fill'[f] = next
        /\ \A g \in Fills \ {f} : fill'[g] = fill[g]
    BY <1>1, <1>2
  <1>4. \A g \in Fills : FillInv(g)'
    <2> TAKE g \in Fills
    <2>1. CASE g = f
      <3>1. fill'[g] = next /\ compilation'[g] = compilation[f]
        BY <1>1, <1>3, <2>1
      <3> QED
        BY <1>2, <2>1, <3>1 DEF FillInv, FillThrough, Compiling
    <2>2. CASE g # f
      <3>1. FillInv(g) /\ fill'[g] = fill[g] /\ compilation'[g] = compilation[g]
        BY <1>1, <1>3, <2>2 DEF WikiInv
      <3> QED
        BY <3>1 DEF FillInv, FillThrough, Compiling
    <2> QED
      BY <2>1, <2>2
  <1>5. WikiTyped'
    BY <1>1, <1>3 DEF WikiInv, WikiTyped
  <1>6. ItemsSurvive' /\ ViewsOwed' /\ \A c \in Compilers : GatheredAll(c)'
    BY <1>1 DEF WikiInv, ItemsSurvive, ViewsOwed, Owed, GatheredAll, Reads, Compiling, ItemsShown
  <1> QED
    BY <1>4, <1>5, <1>6 DEF WikiInv

\* A page edited by hand has the items it had, and a transcript is not on it.
LEMMA EditsKeep ==
    ASSUME WikiInv, EditPage \/ \E m \in WikiMeetings : ChangeTranscript(m)
    PROVE  WikiInv'
  <1>1. /\ UNCHANGED <<derived, compilation, fill, recorded, wikiOverlapped, behind>>
        /\ page \in [canonical : BOOLEAN, open : SUBSET Citations, closed : SUBSET Citations]
        /\ wikiSource \in [WikiMeetings -> Nat]
    BY DEF WikiInv, WikiTyped, EditPage, ChangeTranscript
  <1>2. /\ page' \in [canonical : BOOLEAN, open : SUBSET Citations, closed : SUBSET Citations]
        /\ page'.open = page.open /\ page'.closed = page.closed
    BY <1>1 DEF EditPage, ChangeTranscript
  <1>3. wikiSource' \in [WikiMeetings -> Nat]
    BY <1>1 DEF EditPage, ChangeTranscript
  <1>4. WikiTyped'
    BY <1>1, <1>2, <1>3 DEF WikiInv, WikiTyped
  <1>5. ItemsSurvive' /\ ViewsOwed' /\ \A c \in Compilers : GatheredAll(c)'
    BY <1>1, <1>2
       DEF WikiInv, ItemsSurvive, ViewsOwed, Owed, GatheredAll, Reads, Compiling, ItemsShown
  <1>6. \A f \in Fills : FillInv(f)'
    BY <1>1 DEF WikiInv, FillInv, FillThrough, Compiling
  <1> QED
    BY <1>4, <1>5, <1>6 DEF WikiInv

\* After a crash nothing compiles, and the views it had not come to are behind.
LEMMA CrashWikiKeeps ==
    ASSUME WikiInv, CrashWiki
    PROVE  WikiInv'
  <1>1. /\ UNCHANGED <<page, wikiSource, derived, recorded, wikiOverlapped>>
        /\ \A c \in Compilers : compilation'[c] = Resting
        /\ compilation' \in [Compilers -> CompilationsTyped]
        /\ Resting.phase = "rest"
    BY RestingIs DEF CrashWiki
  <1>2. behind' \subseteq Views /\ \A v \in Views : v \in behind \/ Owed(v) => v \in behind'
    BY DEF CrashWiki, WikiInv, WikiTyped, Owed
  <1>3. \A f \in Fills :
           /\ fill'[f] \in FillsTyped /\ fill'[f].memory = "none"
           /\ fill'[f].row = fill[f].row /\ fill'[f].todo = fill[f].todo
           /\ fill'[f].failed = fill[f].failed /\ fill'[f].succeeded = fill[f].succeeded
    <2> TAKE f \in Fills
    <2>1. fill'[f] = [fill[f] EXCEPT !.memory = "none", !.event = FALSE]
      BY DEF CrashWiki
    <2>2. fill[f] \in FillsTyped /\ FALSE \in BOOLEAN
      BY DEF WikiInv, WikiTyped
    <2> QED
      BY <2>1, <2>2 DEF FillsTyped, FillStatuses
  <1>4. WikiTyped'
    <2>1. fill' \in [Fills -> FillsTyped]
      BY <1>3 DEF CrashWiki
    <2> QED
      BY <1>1, <1>2, <2>1 DEF WikiInv, WikiTyped
  <1>5. ItemsSurvive' /\ ItemsShown' = ItemsShown
    BY <1>1 DEF WikiInv, ItemsSurvive, ItemsShown
  <1>6. \A c \in Compilers : GatheredAll(c)'
    BY <1>1 DEF GatheredAll, Reads, Compiling
  <1>7. ViewsOwed'
    BY <1>1, <1>2, <1>5 DEF WikiInv, ViewsOwed
  <1>8. \A f \in Fills : FillInv(f)'
    <2> TAKE f \in Fills
    <2>1. FillInv(f) /\ compilation'[f].phase = "rest"
      BY <1>1 DEF WikiInv, Compilers
    <2> QED
      BY <1>3, <2>1 DEF FillInv, FillThrough, Compiling
  <1> QED
    BY <1>4, <1>5, <1>6, <1>7, <1>8 DEF WikiInv

\* Every step of compilations, backfills, edits and crashes keeps the invariant
\* (wiki/compiler.py, wiki/backfill.py).
LEMMA WikiStep ==
    ASSUME WikiInv, [WikiNext]_wikiVars
    PROVE  WikiInv'
  <1>1. CASE UNCHANGED wikiVars
    BY <1>1 DEF wikiVars, WikiInv, WikiTyped, ItemsSurvive, ViewsOwed, Owed, GatheredAll, Reads,
                Compiling, ItemsShown, FillInv, FillThrough
  <1>2. CASE PipelineCompiles
    BY <1>2, PipelineBeginKeeps
  <1>3. ASSUME NEW c \in Compilers, Compile(c) PROVE WikiInv'
    BY <1>3, GatherKeeps, WritePageKeeps, KeepPageKeeps, RefreshKeeps DEF Compile
  <1>4. ASSUME NEW f \in Fills,
               (\E targets \in Targets, listed \in BOOLEAN : StartFill(f, targets, listed))
                  \/ NextMeeting(f) \/ EndFill(f) \/ CancelFill(f)
        PROVE  WikiInv'
    BY <1>4, FillKeeps, NextMeetingKeeps
  <1>5. CASE EditPage \/ CrashWiki \/ \E m \in WikiMeetings : ChangeTranscript(m)
    BY <1>5, EditsKeep, CrashWikiKeeps
  <1> QED
    BY <1>1, <1>2, <1>3, <1>4, <1>5 DEF WikiNext

\* It holds of the empty wiki.
LEMMA WikiInitInv == WikiInit => WikiInv
  <1> SUFFICES ASSUME WikiInit PROVE WikiInv
    OBVIOUS
  <1>1. NoFill \in FillsTyped /\ NoFill.memory = "none" /\ NoFill.row = "none"
    BY DEF NoFill, FillsTyped, FillStatuses
  <1>2. \A c \in Compilers : compilation[c] = Resting
    BY DEF WikiInit
  <1>3. /\ page \in [canonical : BOOLEAN, open : SUBSET Citations, closed : SUBSET Citations]
        /\ ItemsShown = {} /\ recorded.open = {} /\ recorded.closed = {}
        /\ recorded \in [open : SUBSET Citations, closed : SUBSET Citations]
    BY DEF WikiInit, EmptyPage, ItemsShown
  <1>4. WikiTyped
    <2>1. /\ derived \in [Views -> SUBSET Citations] /\ wikiSource \in [WikiMeetings -> Nat]
          /\ compilation \in [Compilers -> CompilationsTyped]
          /\ fill \in [Fills -> FillsTyped]
      BY <1>1, RestingIs DEF WikiInit
    <2>2. wikiOverlapped \in BOOLEAN /\ behind \subseteq Views
      BY DEF WikiInit
    <2> QED
      BY <1>3, <2>1, <2>2 DEF WikiTyped
  <1>5. \A f \in Fills : FillInv(f)
    <2> TAKE f \in Fills
    <2>1. fill[f] = NoFill /\ compilation[f] = Resting
      BY <1>2 DEF WikiInit, Compilers
    <2> QED
      BY <1>1, <2>1, RestingIs DEF FillInv, Compiling
  <1>6. \A c \in Compilers : GatheredAll(c)
    BY <1>2, RestingIs DEF GatheredAll, Reads, Compiling
  <1>7. ViewsOwed
    BY <1>3 DEF WikiInit, ViewsOwed
  <1> QED
    BY <1>3, <1>4, <1>5, <1>6, <1>7 DEF WikiInv, ItemsSurvive

\* The invariant is enough: no item of a meeting is lost, and a view is behind only
\* while somebody owes it.
LEMMA WikiHolds == WikiInv => WikiKept
  <1> SUFFICES ASSUME WikiInv PROVE WikiKept
    OBVIOUS
  <1>1. ItemsSurvive
    BY DEF WikiInv
  <1>2. ViewsFollow
    BY DEF WikiInv, ViewsOwed, ViewsFollow, Owed, Ahead
  <1>3. FillsTellTheTruth
    <2> SUFFICES ASSUME NEW f \in Fills
                 PROVE  /\ Told(f) = "completed" =>
                              fill[f].todo = {} /\ (fill[f].failed => fill[f].succeeded)
                        /\ Told(f) # "running" => Compiling(f, "rest")
      BY DEF FillsTellTheTruth
    <2>1. FillInv(f)
      BY DEF WikiInv
    <2> QED
      BY <2>1 DEF FillInv, FillThrough, Told
  <1> QED
    BY <1>1, <1>2, <1>3 DEF WikiKept

------------------------------------------------------------------------------
(* The cloud transcription: a recording is sent once and taken whole. *)

CloudSteps ==
    {"none", "accepted", "quality", "open", "encode", "chunk", "request", "answered",
     "whole", "store", "clear", "leave"}

CloudRuns ==
    [step : CloudSteps, held : Nat, encoded : Nat, next : Nat \ {0}, parts : Seq(ChunkIds),
     touched : SUBSET (1..ChunkCount), asked : BOOLEAN, cancelled : BOOLEAN]

CloudTyped ==
    /\ recording \in 1..MaxRecordings
    /\ cloudRun \in CloudRuns
    /\ answers \in [ChunkIds -> {"none", "whole", "damaged"}]
    /\ paid \in [ChunkIds -> Nat] /\ lost \subseteq ChunkIds
    /\ text \in Seq(ChunkIds) /\ dropped \in BOOLEAN /\ cloudFaults \in Nat

Cutting == {"accepted", "quality", "open", "encode"}
Sending == {"chunk", "request", "answered"}
Complete == {"whole", "store", "clear"}

\* A run has the chunks of the recording it accepted, in order, up to the next; what
\* it sends nobody touched.
RunInv ==
    /\ cloudRun.held <= recording
    /\ InStep(Cutting \cup Sending \cup Complete) => cloudRun.held # 0
    /\ InStep(Sending \cup Complete \cup {"encode"}) => cloudRun.encoded = cloudRun.held
    /\ Len(cloudRun.parts) = cloudRun.next - 1
    /\ \A i \in 1..Len(cloudRun.parts) : cloudRun.parts[i] = <<i, cloudRun.held>>
    /\ InStep(Cutting) => cloudRun.next = 1
    /\ InStep(Sending) => cloudRun.next <= ChunkCount
    /\ InStep(Complete) => cloudRun.next = ChunkCount + 1
    /\ InStep({"request", "answered"}) => ChunkUntouched

\* While the meeting is without a transcript, what was paid for is kept or about to
\* be; what is sent has no answer yet.
BillInv ==
    /\ text = <<>> /\ ~dropped =>
          \A c \in ChunkIds \ lost :
              paid[c] = 0 \/ answers[c] = "whole" \/ (InStep({"answered"}) /\ Chunk = c)
    /\ InStep({"request"}) => answers[Chunk] = "none"
    /\ ~InStep({"none", "clear"}) => text = <<>> /\ ~dropped
    /\ InStep({"clear"}) => text # <<>>
    /\ dropped => InStep({"none"}) /\ answers = NoAnswers

\* A folder is the run's own until the run ends, unless something failed.
FolderInv ==
    /\ folders \subseteq {"mine", "orphan", "old"}
    /\ cloudFaults = 0 =>
          /\ "old" \notin folders
          /\ "mine" \in folders => InStep(Sending \cup {"encode", "whole", "leave"})

CloudInv ==
    CloudTyped /\ RunInv /\ BillInv /\ FolderInv /\ TextIsOfOneRecording /\ PaidOnce

\* The chunk a run is about to send, in the recording it accepted.
LEMMA ChunkIs ==
    ASSUME CloudTyped, RunInv, InStep(Sending)
    PROVE  /\ Chunk \in ChunkIds
           /\ ChunkUntouched => Chunk = <<cloudRun.next, cloudRun.held>>
  <1>1. /\ cloudRun.next \in 1..ChunkCount /\ cloudRun.encoded = cloudRun.held
        /\ cloudRun.held \in 0..MaxRecordings
    BY CloudAssumption DEF CloudTyped, RunInv, CloudRuns, InStep, Sending
  <1>2. 0 \in 0..MaxRecordings
    BY CloudAssumption
  <1> QED
    BY <1>1, <1>2 DEF Chunk, ChunkIds, ChunkUntouched

\* The run goes on to another step of its own.
LEMMA ProceedsIs ==
    ASSUME CloudTyped, NEW step \in CloudSteps, Proceeds(step)
    PROVE  /\ cloudRun' \in CloudRuns /\ cloudRun'.step = step
           /\ cloudRun'.held = cloudRun.held /\ cloudRun'.encoded = cloudRun.encoded
           /\ cloudRun'.next = cloudRun.next /\ cloudRun'.parts = cloudRun.parts
           /\ cloudRun'.touched = cloudRun.touched
           /\ cloudRun'.asked = cloudRun.asked /\ cloudRun'.cancelled = cloudRun.cancelled
  BY DEF CloudTyped, CloudRuns, Proceeds

\* No run, or one that leaves.
LEMMA NoRunIs ==
    ASSUME NEW step \in CloudSteps, NEW held \in Nat
    PROVE  /\ [NoRun EXCEPT !.step = step, !.held = held] \in CloudRuns
           /\ [NoRun EXCEPT !.step = step] \in CloudRuns
           /\ NoRun \in CloudRuns
           /\ NoRun.step = "none" /\ NoRun.held = 0 /\ NoRun.next = 1 /\ NoRun.parts = <<>>
  <1>1. NoRun \in CloudRuns
    BY DEF NoRun, CloudRuns, CloudSteps
  <1> QED
    BY <1>1 DEF CloudRuns, NoRun

\* A run that ended or leaves after a failure claims nothing about its chunks.
LEMMA EndedRuns ==
    ASSUME CloudTyped, RunInv, recording' \in Nat, recording <= recording',
           \/ cloudRun' = NoRun
           \/ cloudRun' = [NoRun EXCEPT !.step = "leave"]
           \/ Fails
    PROVE  RunInv' /\ cloudRun' \in CloudRuns /\ cloudRun'.step \in {"none", "leave"}
  <1>0. recording \in Nat
    BY CloudAssumption DEF CloudTyped
  <1>1. CASE Fails
    <2>1. /\ cloudRun' \in CloudRuns /\ cloudRun'.step = "leave"
          /\ cloudRun'.held = cloudRun.held /\ cloudRun'.next = cloudRun.next
          /\ cloudRun'.parts = cloudRun.parts
      BY <1>1, ProceedsIs DEF Fails, CloudSteps
    <2>2. cloudRun'.held <= recording'
      BY <1>0, <2>1 DEF RunInv, CloudTyped, CloudRuns
    <2> QED
      BY <2>1, <2>2 DEF RunInv, InStep, Cutting, Sending, Complete
  <1>2. CASE cloudRun' = NoRun \/ cloudRun' = [NoRun EXCEPT !.step = "leave"]
    <2>1. /\ cloudRun' \in CloudRuns /\ cloudRun'.step \in {"none", "leave"}
          /\ cloudRun'.held = 0 /\ cloudRun'.next = 1 /\ cloudRun'.parts = <<>>
      <3>1. NoRun \in CloudRuns /\ "none" \in CloudSteps /\ "leave" \in CloudSteps
        BY NoRunIs DEF CloudSteps
      <3>2. CASE cloudRun' = NoRun
        BY <3>1, <3>2, NoRunIs
      <3>3. CASE cloudRun' = [NoRun EXCEPT !.step = "leave"]
        <4>1. cloudRun' \in CloudRuns /\ cloudRun'.step = "leave"
              /\ cloudRun'.held = NoRun.held /\ cloudRun'.next = NoRun.next
              /\ cloudRun'.parts = NoRun.parts
          BY <3>1, <3>3 DEF CloudRuns
        <4> QED
          BY <4>1, <3>1, NoRunIs
      <3> QED
        BY <1>2, <3>2, <3>3
    <2>2. Len(<<>>) = 0 /\ 1..0 = {}
      OBVIOUS
    <2> QED
      BY <2>1, <2>2 DEF RunInv, InStep, Cutting, Sending, Complete
  <1> QED
    BY <1>1, <1>2

\* What the run does that bears on neither the answers nor the bill.
LEMMA BillRests ==
    ASSUME BillInv, PaidOnce, UNCHANGED <<answers, text, dropped, paid, lost>>,
           \/ InStep({"none"}) /\ cloudRun'.step = "none"
           \/ InStep({"clear"}) /\ cloudRun'.step = "none"
           \/ UNCHANGED cloudRun.step /\ (InStep({"request", "answered"}) => UNCHANGED Chunk)
           \/ /\ ~InStep({"none", "clear", "answered"})
              /\ cloudRun'.step \notin {"clear", "request", "answered"}
           \/ InStep({"answered"}) /\ cloudRun'.step \notin {"clear", "request", "answered"}
              /\ Chunk \in lost
    PROVE  BillInv' /\ PaidOnce'
  <1>1. PaidOnce'
    BY DEF PaidOnce
  <1>2. BillInv'
    BY DEF BillInv, InStep, NoAnswers
  <1> QED
    BY <1>1, <1>2

\* The same, all parts of the invariant together.
LEMMA QuietKeeps ==
    ASSUME CloudInv, UNCHANGED <<recording, answers, text, dropped, paid>>,
           lost \subseteq lost', lost' \subseteq ChunkIds,
           cloudRun' \in CloudRuns, cloudFaults' \in Nat, RunInv', BillInv', FolderInv'
    PROVE  CloudInv'
  <1>1. CloudTyped'
    BY DEF CloudInv, CloudTyped
  <1>2. TextIsOfOneRecording' /\ PaidOnce'
    BY DEF CloudInv, TextIsOfOneRecording, PaidOnce
  <1> QED
    BY <1>1, <1>2 DEF CloudInv

\* A transcription begins where there is none yet.
LEMMA AcceptKeeps ==
    ASSUME CloudInv, AcceptRecording
    PROVE  CloudInv'
  <1> DEFINE new == [NoRun EXCEPT !.step = "accepted", !.held = recording]
  <1>1. recording \in Nat \ {0}
    BY CloudAssumption DEF CloudInv, CloudTyped
  <1>2. /\ new \in CloudRuns /\ new.step = "accepted" /\ new.held = recording
        /\ new.next = NoRun.next /\ new.parts = NoRun.parts
    <2>1. NoRun \in CloudRuns /\ "accepted" \in CloudSteps /\ "none" \in CloudSteps
      BY <1>1, NoRunIs DEF CloudSteps
    <2>2. new \in CloudRuns
      BY <1>1, <2>1, NoRunIs
    <2> QED
      BY <2>1, <2>2 DEF CloudRuns
  <1>3. NoRun.next = 1 /\ NoRun.parts = <<>> /\ Len(<<>>) = 0
    BY DEF NoRun
  <1>4. /\ cloudRun' = new /\ text = <<>> /\ ~dropped /\ InStep({"none"})
        /\ UNCHANGED <<recording, answers, text, dropped, folders, paid, lost, cloudFaults>>
    BY DEF AcceptRecording, KeepsBill
  <1>5. RunInv'
    BY <1>1, <1>2, <1>3, <1>4 DEF RunInv, InStep, Cutting, Sending, Complete
  <1>6. BillInv'
    BY <1>2, <1>4 DEF CloudInv, BillInv, InStep
  <1>7. FolderInv'
    BY <1>2, <1>4 DEF CloudInv, FolderInv, InStep, Sending
  <1> QED
    BY <1>2, <1>4, <1>5, <1>6, <1>7, QuietKeeps DEF CloudInv, CloudTyped

\* The looks at the recording before it is encoded and after.
LEMMA LooksKeepRun ==
    ASSUME CloudInv, BeginUpload \/ QualityMeasured \/ Encode
    PROVE  CloudInv'
  <1>1. /\ UNCHANGED <<recording, answers, text, dropped, folders, paid, lost, cloudFaults>>
        /\ InStep({"accepted", "quality", "encode"})
    BY DEF BeginUpload, QualityMeasured, Encode, KeepsDisk, KeepsBill, InStep
  <1>2. \/ InStep({"accepted"}) /\ Proceeds("quality")
        \/ InStep({"quality"}) /\ Proceeds("open")
        \/ InStep({"encode"}) /\ Proceeds("chunk")
        \/ Fails
    BY DEF BeginUpload, QualityMeasured, Encode, Fails
  <1>3. PICK step \in {"quality", "open", "chunk", "leave"} :
            /\ Proceeds(step)
            /\ step \in {"quality", "open"} => InStep({"accepted", "quality"})
            /\ step = "chunk" => InStep({"encode"})
    BY <1>2 DEF Fails, InStep
  <1>4. /\ cloudRun' \in CloudRuns /\ cloudRun'.step = step
        /\ cloudRun'.held = cloudRun.held /\ cloudRun'.encoded = cloudRun.encoded
        /\ cloudRun'.next = cloudRun.next /\ cloudRun'.parts = cloudRun.parts
        /\ cloudRun'.touched = cloudRun.touched
    BY <1>3, ProceedsIs DEF CloudInv, CloudSteps
  <1>5. RunInv'
    BY <1>1, <1>3, <1>4, CloudAssumption
       DEF CloudInv, RunInv, InStep, Cutting, Sending, Complete
  <1>6. BillInv'
    BY <1>1, <1>4, BillRests DEF CloudInv, InStep
  <1>7. FolderInv'
    BY <1>1, <1>3, <1>4 DEF CloudInv, FolderInv, InStep, Sending
  <1> QED
    BY <1>1, <1>4, <1>5, <1>6, <1>7, QuietKeeps DEF CloudInv, CloudTyped

\* The recording is opened where it is still the one accepted.
LEMMA OpenKeeps ==
    ASSUME CloudInv, OpenRecording
    PROVE  CloudInv'
  <1>1. /\ UNCHANGED <<recording, answers, text, dropped, paid, lost, cloudFaults>>
        /\ InStep({"open"})
    BY DEF OpenRecording, KeepsDisk, KeepsBill
  <1>2. CASE Fails /\ UNCHANGED folders
    <2>1. RunInv' /\ cloudRun' \in CloudRuns /\ cloudRun'.step \in {"none", "leave"}
      BY <1>1, <1>2, CloudAssumption, EndedRuns DEF CloudInv, CloudTyped
    <2>2. BillInv'
      BY <1>1, <2>1, BillRests DEF CloudInv, InStep
    <2>3. FolderInv'
      BY <1>1, <1>2, <2>1 DEF CloudInv, FolderInv, InStep, Sending
    <2> QED
      BY <1>1, <2>1, <2>2, <2>3, QuietKeeps DEF CloudInv, CloudTyped
  <1>3. CASE /\ SameRecording
             /\ cloudRun' = [cloudRun EXCEPT !.step = "encode", !.encoded = recording]
             /\ folders' = folders \cup {"mine"}
    <2>1. /\ cloudRun' \in CloudRuns /\ cloudRun'.step = "encode"
          /\ cloudRun'.held = cloudRun.held /\ cloudRun'.encoded = recording
          /\ cloudRun'.next = cloudRun.next /\ cloudRun'.parts = cloudRun.parts
      <3>1. recording \in Nat /\ cloudRun \in CloudRuns
        BY CloudAssumption DEF CloudInv, CloudTyped
      <3> QED
        BY <1>3, <3>1 DEF CloudRuns, CloudSteps
    <2>2. RunInv'
      BY <1>1, <1>3, <2>1 DEF CloudInv, RunInv, InStep, Cutting, Sending, Complete, SameRecording
    <2>3. BillInv'
      BY <1>1, <2>1, BillRests DEF CloudInv, InStep
    <2>4. FolderInv'
      BY <1>1, <1>3, <2>1 DEF CloudInv, FolderInv, InStep, Sending
    <2> QED
      BY <1>1, <2>1, <2>2, <2>3, <2>4, QuietKeeps DEF CloudInv, CloudTyped
  <1> QED
    BY <1>2, <1>3 DEF OpenRecording

\* A run whose task was cancelled leaves, the thread that encodes stays behind.
LEMMA CancelsKeep ==
    ASSUME CloudInv, LeaveThread \/ EncodingEnds \/ ClearOldFolders
    PROVE  CloudInv'
  <1>1. UNCHANGED <<recording, answers, text, dropped, paid, lost, cloudFaults>>
    BY DEF LeaveThread, EncodingEnds, ClearOldFolders, KeepsDisk, KeepsBill
  <1>2. CASE LeaveThread
    <2>1. InStep({"encode"}) /\ cloudRun' = [NoRun EXCEPT !.step = "leave"]
          /\ folders' = (folders \ {"mine"}) \cup {"orphan"}
      BY <1>2 DEF LeaveThread
    <2>2. RunInv' /\ cloudRun' \in CloudRuns /\ cloudRun'.step \in {"none", "leave"}
      BY <1>1, <2>1, CloudAssumption, EndedRuns DEF CloudInv, CloudTyped
    <2>3. BillInv'
      BY <1>1, <2>1, <2>2, BillRests DEF CloudInv, InStep
    <2>4. FolderInv'
      BY <1>1, <2>1, <2>2 DEF CloudInv, FolderInv, InStep, Sending
    <2> QED
      BY <1>1, <2>2, <2>3, <2>4, QuietKeeps DEF CloudInv, CloudTyped
  <1>3. CASE EncodingEnds \/ ClearOldFolders
    <2>1. UNCHANGED cloudRun /\ folders' \subseteq folders
      BY <1>3 DEF EncodingEnds, ClearOldFolders
    <2>2. RunInv' /\ BillInv' /\ FolderInv'
      BY <1>1, <2>1 DEF CloudInv, RunInv, BillInv, FolderInv, InStep, ChunkUntouched, Chunk,
                        NoAnswers
    <2> QED
      BY <1>1, <2>1, <2>2, QuietKeeps DEF CloudInv, CloudTyped
  <1> QED
    BY <1>2, <1>3

\* A chunk with an answer joins the text.
LEMMA ExtendedIs ==
    ASSUME CloudTyped, RunInv, InStep(Sending), ChunkUntouched, UNCHANGED recording,
           cloudRun' = Extended(cloudRun)
    PROVE  /\ cloudRun' \in CloudRuns /\ cloudRun'.step \in {"whole", "chunk"}
           /\ RunInv'
  <1>1. Chunk \in ChunkIds /\ Chunk = <<cloudRun.next, cloudRun.held>>
    BY ChunkIs
  <1>2. cloudRun \in CloudRuns
    BY DEF CloudTyped
  <1>3. /\ cloudRun.parts \in Seq(ChunkIds) /\ cloudRun.next \in Nat \ {0}
        /\ cloudRun.next <= ChunkCount /\ Len(cloudRun.parts) = cloudRun.next - 1
        /\ \A i \in 1..Len(cloudRun.parts) : cloudRun.parts[i] = <<i, cloudRun.held>>
    BY <1>2 DEF CloudRuns, RunInv, InStep, Sending
  <1> DEFINE parts == Append(cloudRun.parts, Chunk)
             next == cloudRun.next + 1
             step == IF cloudRun.next = ChunkCount THEN "whole" ELSE "chunk"
  <1>4. /\ parts \in Seq(ChunkIds) /\ Len(parts) = next - 1 /\ next \in Nat \ {0}
        /\ \A i \in 1..Len(parts) : parts[i] = <<i, cloudRun.held>>
    <2>1. /\ parts \in Seq(ChunkIds) /\ Len(parts) = Len(cloudRun.parts) + 1
          /\ \A i \in 1..Len(cloudRun.parts) : parts[i] = cloudRun.parts[i]
          /\ parts[Len(cloudRun.parts) + 1] = Chunk
      <3>1. cloudRun.parts \in Seq(ChunkIds) /\ Chunk \in ChunkIds
        BY <1>1, <1>3
      <3> QED
        BY <3>1, AppendProperties
    <2>2. Len(parts) = cloudRun.next /\ next \in Nat \ {0} /\ Len(parts) = next - 1
      BY <1>3, <2>1
    <2>3. \A i \in 1..Len(parts) : parts[i] = <<i, cloudRun.held>>
      <3> SUFFICES ASSUME NEW i \in 1..Len(parts) PROVE parts[i] = <<i, cloudRun.held>>
        OBVIOUS
      <3>1. CASE i = cloudRun.next
        <4>1. i = Len(cloudRun.parts) + 1
          BY <1>3, <3>1
        <4> QED
          BY <1>1, <2>1, <3>1, <4>1
      <3>2. CASE i # cloudRun.next
        <4>1. i \in 1..Len(cloudRun.parts)
          BY <1>3, <2>2, <3>2
        <4> QED
          BY <1>3, <2>1, <4>1
      <3> QED
        BY <3>1, <3>2
    <2> QED
      BY <2>1, <2>2, <2>3
  <1>5. /\ cloudRun' \in CloudRuns /\ cloudRun'.step = step
        /\ cloudRun'.parts = parts /\ cloudRun'.next = next
        /\ cloudRun'.held = cloudRun.held /\ cloudRun'.encoded = cloudRun.encoded
    <2> HIDE DEF parts, next, step
    <2>1. cloudRun' = [cloudRun EXCEPT !.parts = parts, !.next = next, !.step = step]
      BY DEF Extended, parts, next, step
    <2>2. step \in CloudSteps
      BY DEF step, CloudSteps
    <2>3. parts \in Seq(ChunkIds) /\ next \in Nat \ {0}
      BY <1>4
    <2> QED
      BY <1>2, <2>1, <2>2, <2>3 DEF CloudRuns
  <1>6. RunInv'
    <2>1. step = "chunk" => next <= ChunkCount
      BY <1>3, CloudAssumption
    <2>2. step = "whole" => next = ChunkCount + 1
      BY <1>3
    <2>3. step \in {"whole", "chunk"}
      OBVIOUS
    <2> HIDE DEF parts, next, step
    <2> QED
      BY <1>4, <1>5, <2>1, <2>2, <2>3 DEF RunInv, InStep, Cutting, Sending, Complete
  <1> QED
    BY <1>5, <1>6

\* The head of the loop: a kept answer is used, a damaged one dropped, and what has
\* none is asked for.
LEMMA TakeChunkKeeps ==
    ASSUME CloudInv, TakeChunk
    PROVE  CloudInv'
  <1>1. /\ UNCHANGED <<recording, text, dropped, folders, paid, lost, cloudFaults>>
        /\ InStep({"chunk"}) /\ recording \in Nat
    BY CloudAssumption DEF TakeChunk, KeepsBill, CloudInv, CloudTyped
  <1>2. Chunk \in ChunkIds
    BY <1>1, ChunkIs DEF CloudInv, InStep, Sending
  <1>3. CASE Fails /\ UNCHANGED answers
    <2>1. RunInv' /\ cloudRun' \in CloudRuns /\ cloudRun'.step \in {"none", "leave"}
      BY <1>1, <1>3, EndedRuns DEF CloudInv, CloudTyped
    <2>2. cloudRun'.step = "leave"
      BY <1>3, ProceedsIs DEF Fails, CloudSteps, CloudInv
    <2>3. BillInv' /\ FolderInv'
      BY <1>1, <1>3, <2>2, BillRests DEF CloudInv, InStep, FolderInv, Sending
    <2> QED
      BY <1>1, <1>3, <2>1, <2>3, QuietKeeps DEF CloudInv, CloudTyped
  <1>4. CASE ChunkUntouched /\ cloudRun' = Extended(cloudRun) /\ UNCHANGED answers
    <2>1. cloudRun' \in CloudRuns /\ cloudRun'.step \in {"whole", "chunk"} /\ RunInv'
      BY <1>1, <1>4, ExtendedIs DEF CloudInv, InStep, Sending
    <2>2. BillInv' /\ FolderInv'
      BY <1>1, <1>4, <2>1, BillRests DEF CloudInv, InStep, FolderInv, Sending
    <2> QED
      BY <1>1, <1>4, <2>1, <2>2, QuietKeeps DEF CloudInv, CloudTyped
  <1>5. CASE /\ ChunkUntouched /\ answers[Chunk] = "none" /\ Proceeds("request")
             /\ UNCHANGED answers
    <2>1. /\ cloudRun' \in CloudRuns /\ cloudRun'.step = "request"
          /\ cloudRun'.held = cloudRun.held /\ cloudRun'.encoded = cloudRun.encoded
          /\ cloudRun'.next = cloudRun.next /\ cloudRun'.parts = cloudRun.parts
          /\ cloudRun'.touched = cloudRun.touched
      BY <1>5, ProceedsIs DEF CloudInv, CloudSteps
    <2>2. RunInv'
      BY <1>1, <1>5, <2>1
         DEF CloudInv, RunInv, InStep, Cutting, Sending, Complete, ChunkUntouched
    <2>3. Chunk' = Chunk
      BY <2>1 DEF Chunk
    <2>4. BillInv'
      BY <1>1, <1>5, <2>1, <2>3 DEF CloudInv, BillInv, InStep
    <2>5. FolderInv'
      BY <1>1, <2>1 DEF CloudInv, FolderInv, InStep, Sending
    <2> QED
      BY <1>1, <1>5, <2>1, <2>2, <2>4, <2>5, QuietKeeps DEF CloudInv, CloudTyped
  <1>6. CASE answers[Chunk] = "damaged" /\ Fails /\ answers' = Discarded
    <2>1. RunInv' /\ cloudRun' \in CloudRuns /\ cloudRun'.step = "leave"
      BY <1>1, <1>6, EndedRuns, ProceedsIs DEF CloudInv, CloudTyped, Fails, CloudSteps
    <2>2. /\ answers' \in [ChunkIds -> {"none", "whole", "damaged"}]
          /\ \A c \in ChunkIds : answers[c] = "whole" => answers'[c] = "whole"
      BY <1>2, <1>6 DEF Discarded, CloudInv, CloudTyped
    <2>3. BillInv'
      BY <1>1, <2>1, <2>2 DEF CloudInv, BillInv, InStep
    <2>4. FolderInv'
      BY <1>1, <2>1 DEF CloudInv, FolderInv, InStep, Sending
    <2>5. CloudTyped'
      BY <1>1, <2>1, <2>2 DEF CloudInv, CloudTyped
    <2>6. TextIsOfOneRecording' /\ PaidOnce'
      BY <1>1 DEF CloudInv, TextIsOfOneRecording, PaidOnce
    <2> QED
      BY <2>1, <2>3, <2>4, <2>5, <2>6 DEF CloudInv
  <1>7. answers[Chunk] \in {"none", "whole", "damaged"}
    BY <1>2 DEF CloudInv, CloudTyped
  <1> QED
    BY <1>3, <1>4, <1>5, <1>6, <1>7 DEF TakeChunk

\* The service answers and bills, once for a chunk without an answer.
LEMMA AnswerKeeps ==
    ASSUME CloudInv, Answer
    PROVE  CloudInv'
  <1>1. /\ UNCHANGED <<recording, answers, text, dropped, folders, lost, cloudFaults>>
        /\ InStep({"request"}) /\ Proceeds("answered")
        /\ paid' = [paid EXCEPT ![Chunk] = @ + 1]
    BY DEF Answer, KeepsDisk
  <1>2. Chunk \in ChunkIds
    BY <1>1, ChunkIs DEF CloudInv, InStep, Sending
  <1>3. /\ cloudRun' \in CloudRuns /\ cloudRun'.step = "answered"
        /\ cloudRun'.held = cloudRun.held /\ cloudRun'.encoded = cloudRun.encoded
        /\ cloudRun'.next = cloudRun.next /\ cloudRun'.parts = cloudRun.parts
        /\ cloudRun'.touched = cloudRun.touched
    BY <1>1, ProceedsIs DEF CloudInv, CloudSteps
  <1>4. Chunk' = Chunk
    BY <1>3 DEF Chunk
  <1>5. /\ paid' \in [ChunkIds -> Nat]
        /\ \A c \in ChunkIds \ {Chunk} : paid'[c] = paid[c]
        /\ Chunk \notin lost => paid'[Chunk] = 1
    <2>1. paid \in [ChunkIds -> Nat]
      BY DEF CloudInv, CloudTyped
    <2>2. Chunk \notin lost => paid[Chunk] = 0
      BY <1>1, <1>2 DEF CloudInv, BillInv, InStep
    <2> HIDE DEF Chunk
    <2> QED
      BY <1>1, <1>2, <2>1, <2>2
  <1>6. RunInv'
    BY <1>1, <1>3 DEF CloudInv, RunInv, InStep, Cutting, Sending, Complete, ChunkUntouched
  <1>7. BillInv'
    BY <1>1, <1>3, <1>4, <1>5 DEF CloudInv, BillInv, InStep
  <1>8. FolderInv'
    BY <1>1, <1>3 DEF CloudInv, FolderInv, InStep, Sending
  <1>9. PaidOnce'
    BY <1>1, <1>5 DEF CloudInv, PaidOnce
  <1>10. CloudTyped'
    BY <1>1, <1>3, <1>5 DEF CloudInv, CloudTyped
  <1>11. TextIsOfOneRecording'
    BY <1>1 DEF CloudInv, TextIsOfOneRecording
  <1> QED
    BY <1>6, <1>7, <1>8, <1>9, <1>10, <1>11 DEF CloudInv

\* A request or an answer that fails: the chunk may have been paid for in vain.
LEMMA LostKeeps ==
    ASSUME CloudInv, RequestFails \/ AnswerOdd \/ AnswerNotWritten
    PROVE  CloudInv'
  <1>1. /\ UNCHANGED <<recording, answers, text, dropped, folders>>
        /\ InStep({"request", "answered"}) /\ Fails
        /\ lost' = lost \cup {Chunk} /\ cloudFaults' = cloudFaults + 1
        /\ paid' \in {paid, [paid EXCEPT ![Chunk] = @ + 1]}
    BY DEF RequestFails, AnswerOdd, AnswerNotWritten, KeepsDisk, Faulted, InStep
  <1>2. Chunk \in ChunkIds
    BY <1>1, ChunkIs DEF CloudInv, InStep, Sending
  <1>3. RunInv' /\ cloudRun' \in CloudRuns /\ cloudRun'.step = "leave"
    BY <1>1, CloudAssumption, EndedRuns, ProceedsIs DEF CloudInv, CloudTyped, Fails, CloudSteps
  <1>4. /\ paid' \in [ChunkIds -> Nat]
        /\ \A c \in ChunkIds \ {Chunk} : paid'[c] = paid[c]
    <2>1. paid \in [ChunkIds -> Nat]
      BY DEF CloudInv, CloudTyped
    <2> QED
      BY <1>1, <1>2, <2>1
  <1>5. BillInv'
    BY <1>1, <1>3, <1>4 DEF CloudInv, BillInv, InStep
  <1>6. FolderInv'
    BY <1>1, <1>3 DEF CloudInv, CloudTyped, FolderInv, InStep, Sending
  <1>7. PaidOnce'
    BY <1>1, <1>4 DEF CloudInv, PaidOnce
  <1>8. CloudTyped'
    BY <1>1, <1>2, <1>3, <1>4 DEF CloudInv, CloudTyped
  <1>9. TextIsOfOneRecording'
    BY <1>1 DEF CloudInv, TextIsOfOneRecording
  <1> QED
    BY <1>3, <1>5, <1>6, <1>7, <1>8, <1>9 DEF CloudInv

\* An answer is kept before a cancellation is heeded.
LEMMA KeepAnswerKeeps ==
    ASSUME CloudInv, KeepAnswer
    PROVE  CloudInv'
  <1>1. /\ UNCHANGED <<recording, text, dropped, folders, paid, lost, cloudFaults>>
        /\ InStep({"answered"})
        /\ answers' = [answers EXCEPT ![Chunk] = "whole"]
    BY DEF KeepAnswer, KeepsBill, Unkept
  <1>2. Chunk \in ChunkIds
    BY <1>1, ChunkIs DEF CloudInv, InStep, Sending
  <1>3. cloudRun' \in CloudRuns /\ cloudRun'.step \in {"leave", "chunk", "whole"} /\ RunInv'
    <2>1. CASE Fails
      BY <1>1, <2>1, CloudAssumption, EndedRuns, ProceedsIs
         DEF CloudInv, CloudTyped, Fails, CloudSteps
    <2>2. CASE cloudRun' = Extended(cloudRun)
      <3>1. ChunkUntouched
        BY <1>1 DEF CloudInv, RunInv, InStep
      <3> QED
        BY <1>1, <2>2, <3>1, ExtendedIs DEF CloudInv, InStep, Sending
    <2> QED
      BY <2>1, <2>2 DEF KeepAnswer
  <1>4. /\ answers' \in [ChunkIds -> {"none", "whole", "damaged"}]
        /\ answers'[Chunk] = "whole"
        /\ \A c \in ChunkIds : answers[c] = "whole" => answers'[c] = "whole"
    BY <1>1, <1>2 DEF CloudInv, CloudTyped
  <1>5. BillInv'
    BY <1>1, <1>3, <1>4 DEF CloudInv, BillInv, InStep
  <1>6. FolderInv'
    BY <1>1, <1>3 DEF CloudInv, FolderInv, InStep, Sending
  <1>7. CloudTyped'
    BY <1>1, <1>3, <1>4 DEF CloudInv, CloudTyped
  <1>8. TextIsOfOneRecording' /\ PaidOnce'
    BY <1>1 DEF CloudInv, TextIsOfOneRecording, PaidOnce
  <1> QED
    BY <1>3, <1>5, <1>6, <1>7, <1>8 DEF CloudInv

\* The folder is removed, or that fails and is a fault.
LEMMA RemovesFolderIs ==
    ASSUME CloudInv, RemovesFolder
    PROVE  /\ cloudFaults' \in Nat
           /\ folders' \subseteq {"mine", "orphan", "old"}
           /\ cloudFaults' = 0 => "old" \notin folders' /\ "mine" \notin folders'
  <1>1. cloudFaults \in Nat /\ FolderInv
    BY DEF CloudInv, CloudTyped
  <1>2. CASE folders' = folders \ {"mine"} /\ UNCHANGED cloudFaults
    BY <1>1, <1>2 DEF FolderInv
  <1>3. CASE folders' = folders /\ cloudFaults' = cloudFaults + 1
    <2>1. cloudFaults' # 0 /\ cloudFaults' \in Nat
      BY <1>1, <1>3
    <2> QED
      BY <1>1, <1>3, <2>1 DEF FolderInv
  <1> QED
    BY <1>2, <1>3 DEF RemovesFolder, Faulted

\* The run leaves its chunks, complete or not.
LEMMA LeaveKeeps ==
    ASSUME CloudInv, LeaveFailed \/ LeaveWhole
    PROVE  CloudInv'
  <1>1. /\ UNCHANGED <<recording, answers, text, dropped, paid, lost>>
        /\ RemovesFolder
    BY DEF LeaveFailed, LeaveWhole, KeepsDisk
  <1>2. FolderInv' /\ cloudFaults' \in Nat
    BY <1>1, RemovesFolderIs DEF FolderInv
  <1>3. CASE cloudRun' = NoRun /\ InStep({"leave", "whole"})
    <2>1. RunInv' /\ cloudRun' \in CloudRuns /\ cloudRun'.step = "none"
      BY <1>1, <1>3, CloudAssumption, EndedRuns DEF CloudInv, CloudTyped, NoRun
    <2>2. BillInv'
      BY <1>1, <1>3, <2>1, BillRests DEF CloudInv, InStep
    <2> QED
      BY <1>1, <1>2, <2>1, <2>2, QuietKeeps DEF CloudInv, CloudTyped
  <1>4. CASE cloudRun' = [cloudRun EXCEPT !.step = "store"] /\ InStep({"whole"})
    <2>1. /\ cloudRun' \in CloudRuns /\ cloudRun'.step = "store"
          /\ cloudRun'.held = cloudRun.held /\ cloudRun'.encoded = cloudRun.encoded
          /\ cloudRun'.next = cloudRun.next /\ cloudRun'.parts = cloudRun.parts
      BY <1>4, ProceedsIs DEF CloudInv, CloudSteps, Proceeds
    <2>2. RunInv'
      BY <1>1, <1>4, <2>1 DEF CloudInv, RunInv, InStep, Cutting, Sending, Complete
    <2>3. BillInv'
      BY <1>1, <1>4, <2>1, BillRests DEF CloudInv, InStep
    <2> QED
      BY <1>1, <1>2, <2>1, <2>2, <2>3, QuietKeeps DEF CloudInv, CloudTyped
  <1> QED
    BY <1>3, <1>4 DEF LeaveFailed, LeaveWhole, InStep

\* The stored transcript is the parts of a run that has them all.
LEMMA StoreKeeps ==
    ASSUME CloudInv, StoreText
    PROVE  CloudInv'
  <1>1. /\ UNCHANGED <<recording, answers, dropped, folders, paid, lost, cloudFaults>>
        /\ InStep({"store"}) /\ Proceeds("clear") /\ text' = cloudRun.parts
    BY DEF StoreText, KeepsBill
  <1>2. /\ cloudRun' \in CloudRuns /\ cloudRun'.step = "clear"
        /\ cloudRun'.held = cloudRun.held /\ cloudRun'.encoded = cloudRun.encoded
        /\ cloudRun'.next = cloudRun.next /\ cloudRun'.parts = cloudRun.parts
    BY <1>1, ProceedsIs DEF CloudInv, CloudSteps
  <1>3. /\ text' \in Seq(ChunkIds) /\ Len(text') = ChunkCount
        /\ \A i \in 1..ChunkCount : text'[i] = <<i, cloudRun.held>>
        /\ cloudRun.held \in 1..recording
    <2>1. cloudRun.next = ChunkCount + 1 /\ Len(cloudRun.parts) = cloudRun.next - 1
      BY <1>1 DEF CloudInv, RunInv, InStep, Complete
    <2>2. Len(cloudRun.parts) = ChunkCount
      BY <2>1, CloudAssumption
    <2>3. cloudRun.held # 0 /\ cloudRun.held <= recording /\ cloudRun.held \in Nat
          /\ recording \in Nat
      BY <1>1, CloudAssumption DEF CloudInv, CloudTyped, RunInv, InStep, Complete, CloudRuns
    <2>4. cloudRun.parts \in Seq(ChunkIds)
      BY DEF CloudInv, CloudTyped, CloudRuns
    <2>5. \A i \in 1..ChunkCount : cloudRun.parts[i] = <<i, cloudRun.held>>
      BY <2>2 DEF CloudInv, RunInv
    <2> QED
      BY <1>1, <2>2, <2>3, <2>4, <2>5
  <1>4. text' # <<>>
    BY <1>3, CloudAssumption
  <1>5. TextIsOfOneRecording'
    <2>1. text' = [i \in 1..ChunkCount |-> text'[i]]
      BY <1>3, LenProperties
    <2>2. text' = [i \in 1..ChunkCount |-> <<i, cloudRun.held>>]
      BY <1>3, <2>1
    <2> QED
      BY <1>1, <1>3, <2>2 DEF TextIsOfOneRecording
  <1>6. RunInv'
    BY <1>1, <1>2 DEF CloudInv, RunInv, InStep, Cutting, Sending, Complete
  <1>7. BillInv'
    BY <1>1, <1>2, <1>4 DEF CloudInv, BillInv, InStep
  <1>8. FolderInv'
    BY <1>1, <1>2 DEF CloudInv, FolderInv, InStep, Sending
  <1>9. CloudTyped' /\ PaidOnce'
    BY <1>1, <1>2, <1>3 DEF CloudInv, CloudTyped, PaidOnce
  <1> QED
    BY <1>5, <1>6, <1>7, <1>8, <1>9 DEF CloudInv

\* The answers go when the transcript is there, or with the meeting.
LEMMA AnswersGoKeep ==
    ASSUME CloudInv, ClearAnswers \/ DeleteWithAnswers
    PROVE  CloudInv'
  <1>1. /\ UNCHANGED <<recording, folders, paid, lost>>
        /\ answers' \in {answers, NoAnswers} /\ cloudFaults' \in Nat
        /\ cloudFaults' = 0 => cloudFaults = 0
    BY DEF ClearAnswers, DeleteWithAnswers, KeepsBill, Faulted, CloudInv, CloudTyped
  <1>2. /\ answers' \in [ChunkIds -> {"none", "whole", "damaged"}]
        /\ PaidOnce'
    BY <1>1 DEF NoAnswers, CloudInv, CloudTyped, PaidOnce
  <1>3. CASE ClearAnswers
    <2>1. cloudRun' = NoRun /\ UNCHANGED <<text, dropped>> /\ InStep({"clear"})
      BY <1>3 DEF ClearAnswers
    <2>2. RunInv' /\ cloudRun' \in CloudRuns /\ cloudRun'.step = "none"
      BY <1>1, <2>1, CloudAssumption, EndedRuns DEF CloudInv, CloudTyped, NoRun
    <2>3. BillInv'
      BY <2>1, <2>2 DEF CloudInv, BillInv, InStep
    <2>4. FolderInv'
      BY <1>1, <2>1 DEF CloudInv, FolderInv, InStep, Sending
    <2>5. CloudTyped' /\ TextIsOfOneRecording'
      BY <1>1, <1>2, <2>1, <2>2 DEF CloudInv, CloudTyped, TextIsOfOneRecording
    <2> QED
      BY <1>2, <2>2, <2>3, <2>4, <2>5 DEF CloudInv
  <1>4. CASE DeleteWithAnswers
    <2>1. /\ UNCHANGED cloudRun /\ text' = <<>> /\ dropped' = TRUE /\ answers' = NoAnswers
          /\ InStep({"none"}) /\ UNCHANGED cloudFaults
      BY <1>4 DEF DeleteWithAnswers, KeepsBill
    <2>2. RunInv'
      BY <1>1, <2>1 DEF CloudInv, RunInv, InStep, ChunkUntouched
    <2>3. BillInv'
      BY <2>1 DEF BillInv, InStep, NoAnswers
    <2>4. FolderInv' /\ TextIsOfOneRecording'
      BY <1>1, <2>1 DEF CloudInv, FolderInv, InStep, TextIsOfOneRecording
    <2>5. CloudTyped'
      BY <1>1, <1>2, <2>1 DEF CloudInv, CloudTyped
    <2> QED
      BY <1>2, <2>2, <2>3, <2>4, <2>5 DEF CloudInv
  <1> QED
    BY <1>3, <1>4

\* A cancellation is noted, or ends a run that waits for a thread.
LEMMA AskedKeeps ==
    ASSUME CloudInv, AskToCancel \/ CancelTask
    PROVE  CloudInv'
  <1>1. UNCHANGED <<recording, answers, text, dropped, folders, paid, lost, cloudFaults>>
    BY DEF AskToCancel, CancelTask, KeepsDisk, KeepsBill
  <1>2. CASE \/ cloudRun' = [cloudRun EXCEPT !.asked = TRUE]
             \/ cloudRun' = [cloudRun EXCEPT !.cancelled = TRUE]
    <2>1. /\ cloudRun' \in CloudRuns /\ cloudRun'.step = cloudRun.step
          /\ cloudRun'.held = cloudRun.held /\ cloudRun'.encoded = cloudRun.encoded
          /\ cloudRun'.next = cloudRun.next /\ cloudRun'.parts = cloudRun.parts
          /\ cloudRun'.touched = cloudRun.touched
      <3>1. cloudRun \in CloudRuns
        BY DEF CloudInv, CloudTyped
      <3>2. CASE cloudRun' = [cloudRun EXCEPT !.asked = TRUE]
        BY <3>1, <3>2 DEF CloudRuns
      <3>3. CASE cloudRun' = [cloudRun EXCEPT !.cancelled = TRUE]
        BY <3>1, <3>3 DEF CloudRuns
      <3> QED
        BY <1>2, <3>2, <3>3
    <2>2. Chunk' = Chunk
      BY <2>1 DEF Chunk
    <2>3. RunInv'
      BY <1>1, <2>1 DEF CloudInv, RunInv, InStep, ChunkUntouched
    <2>4. BillInv' /\ FolderInv'
      BY <1>1, <2>1, <2>2 DEF CloudInv, BillInv, FolderInv, InStep, NoAnswers
    <2> QED
      BY <1>1, <2>1, <2>3, <2>4, QuietKeeps DEF CloudInv, CloudTyped
  <1>3. CASE cloudRun' = [NoRun EXCEPT !.step = "leave"] /\ InStep({"quality", "open"})
    <2>1. RunInv' /\ cloudRun' \in CloudRuns /\ cloudRun'.step \in {"none", "leave"}
      BY <1>1, <1>3, CloudAssumption, EndedRuns DEF CloudInv, CloudTyped
    <2>2. BillInv' /\ FolderInv'
      BY <1>1, <1>3, <2>1, BillRests DEF CloudInv, InStep, FolderInv, Sending
    <2> QED
      BY <1>1, <2>1, <2>2, QuietKeeps DEF CloudInv, CloudTyped
  <1> QED
    BY <1>2, <1>3 DEF AskToCancel, CancelTask, InStep

\* A crash: what was asked for may be paid and is lost.
LEMMA CrashKeeps ==
    ASSUME CloudInv, CloudCrash
    PROVE  CloudInv'
  <1>1. /\ UNCHANGED <<recording, answers, text, dropped>>
        /\ cloudRun' = NoRun /\ folders' \subseteq {"old"}
        /\ cloudFaults' \in Nat \ {0}
    BY DEF CloudCrash, KeepsDisk, Faulted, CloudInv, CloudTyped
  <1>2. RunInv' /\ cloudRun' \in CloudRuns /\ cloudRun'.step = "none"
    BY <1>1, CloudAssumption, EndedRuns DEF CloudInv, CloudTyped, NoRun
  <1>3. FolderInv'
    BY <1>1 DEF FolderInv
  <1>4. /\ paid' \in [ChunkIds -> Nat] /\ lost' \subseteq ChunkIds /\ lost \subseteq lost'
        /\ \A c \in ChunkIds \ lost' : paid'[c] = paid[c]
        /\ InStep({"answered"}) => Chunk \in lost'
    <2>1. paid \in [ChunkIds -> Nat] /\ lost \subseteq ChunkIds
      BY DEF CloudInv, CloudTyped
    <2>2. CASE InStep({"request", "answered"})
      <3>1. /\ Chunk \in ChunkIds /\ lost' = lost \cup {Chunk}
            /\ paid' \in {paid, [paid EXCEPT ![Chunk] = @ + 1]}
        BY <2>2, ChunkIs DEF CloudCrash, CloudInv, InStep, Sending
      <3> HIDE DEF Chunk
      <3> QED
        BY <2>1, <3>1
    <2>3. CASE ~InStep({"request", "answered"})
      BY <2>1, <2>3 DEF CloudCrash, InStep
    <2> QED
      BY <2>2, <2>3
  <1>5. BillInv'
    BY <1>1, <1>2, <1>4 DEF CloudInv, BillInv, InStep, NoAnswers
  <1>6. PaidOnce'
    BY <1>4 DEF CloudInv, PaidOnce
  <1>7. CloudTyped' /\ TextIsOfOneRecording'
    BY <1>1, <1>2, <1>4 DEF CloudInv, CloudTyped, TextIsOfOneRecording
  <1> QED
    BY <1>2, <1>3, <1>5, <1>6, <1>7 DEF CloudInv

\* Another process brings another recording, writes to a chunk or spoils an answer.
LEMMA MeddlingKeeps ==
    ASSUME CloudInv,
           \/ ReplaceRecording
           \/ \E i \in 1..ChunkCount : TouchChunk(i)
           \/ \E c \in ChunkIds : SpoilAnswer(c)
    PROVE  CloudInv'
  <1>1. CASE ReplaceRecording
    <2>1. /\ recording' = recording + 1 /\ recording' \in 1..MaxRecordings
          /\ recording \in Nat
          /\ UNCHANGED <<cloudRun, answers, text, dropped, folders, paid, lost, cloudFaults>>
      BY <1>1, CloudAssumption DEF ReplaceRecording, KeepsBill, CloudInv, CloudTyped
    <2>2. RunInv'
      <3>1. cloudRun'.held <= recording'
        BY <2>1 DEF CloudInv, CloudTyped, CloudRuns, RunInv
      <3> QED
        BY <2>1, <3>1 DEF CloudInv, RunInv, InStep, ChunkUntouched
    <2>3. BillInv' /\ FolderInv' /\ PaidOnce'
      BY <2>1 DEF CloudInv, BillInv, FolderInv, PaidOnce, InStep, Chunk, NoAnswers
    <2>4. CloudTyped' /\ TextIsOfOneRecording'
      BY <2>1 DEF CloudInv, CloudTyped, TextIsOfOneRecording
    <2> QED
      BY <2>2, <2>3, <2>4 DEF CloudInv
  <1>2. ASSUME NEW i \in 1..ChunkCount, TouchChunk(i) PROVE CloudInv'
    <2>1. /\ UNCHANGED <<recording, answers, text, dropped, folders, paid, lost>>
          /\ cloudFaults' = cloudFaults + 1 /\ InStep(Sending)
          /\ InStep({"request", "answered"}) => i # cloudRun.next
          /\ cloudRun' = [cloudRun EXCEPT !.touched = @ \cup {i}]
      BY <1>2 DEF TouchChunk, KeepsDisk, Faulted, Sending, InStep
    <2>2. /\ cloudRun' \in CloudRuns /\ cloudRun'.step = cloudRun.step
          /\ cloudRun'.held = cloudRun.held /\ cloudRun'.encoded = cloudRun.encoded
          /\ cloudRun'.next = cloudRun.next /\ cloudRun'.parts = cloudRun.parts
          /\ cloudRun'.touched = cloudRun.touched \cup {i}
      <3>1. cloudRun \in CloudRuns
        BY DEF CloudInv, CloudTyped
      <3>2. cloudRun.touched \cup {i} \in SUBSET (1..ChunkCount)
        BY <3>1 DEF CloudRuns
      <3> QED
        BY <2>1, <3>1, <3>2 DEF CloudRuns
    <2>3. RunInv'
      BY <2>1, <2>2 DEF CloudInv, RunInv, InStep, ChunkUntouched
    <2>4. InStep({"request", "answered"}) => Chunk' = Chunk
      BY <2>1, <2>2 DEF Chunk
    <2>5. BillInv'
      BY <2>1, <2>2, <2>4 DEF CloudInv, BillInv, InStep, NoAnswers
    <2>6. FolderInv' /\ cloudFaults' \in Nat
      BY <2>1, <2>2 DEF CloudInv, CloudTyped, FolderInv, InStep
    <2> QED
      BY <2>1, <2>2, <2>3, <2>5, <2>6, QuietKeeps DEF CloudInv, CloudTyped
  <1>3. ASSUME NEW c \in ChunkIds, SpoilAnswer(c) PROVE CloudInv'
    <2>1. /\ UNCHANGED <<recording, cloudRun, text, dropped, folders, paid>>
          /\ cloudFaults' = cloudFaults + 1 /\ answers[c] = "whole"
          /\ answers' = [answers EXCEPT ![c] = "damaged"] /\ lost' = lost \cup {c}
      BY <1>3 DEF SpoilAnswer, Faulted
    <2>2. /\ answers' \in [ChunkIds -> {"none", "whole", "damaged"}]
          /\ \A other \in ChunkIds \ {c} : answers'[other] = answers[other]
      BY <2>1 DEF CloudInv, CloudTyped
    <2>3. RunInv' /\ FolderInv' /\ PaidOnce'
      BY <2>1 DEF CloudInv, CloudTyped, RunInv, FolderInv, PaidOnce, InStep, ChunkUntouched
    <2>4. Chunk' = Chunk
      BY <2>1 DEF Chunk
    <2>5. answers # NoAnswers
      BY <2>1 DEF NoAnswers
    <2>6. InStep({"request"}) => Chunk # c /\ Chunk \in ChunkIds
      BY <2>1, ChunkIs DEF CloudInv, BillInv, InStep, Sending
    <2>7. BillInv'
      BY <2>1, <2>2, <2>4, <2>5, <2>6 DEF CloudInv, BillInv, InStep
    <2>8. CloudTyped' /\ TextIsOfOneRecording'
      BY <2>1, <2>2 DEF CloudInv, CloudTyped, TextIsOfOneRecording
    <2> QED
      BY <2>3, <2>7, <2>8 DEF CloudInv
  <1> QED
    BY <1>1, <1>2, <1>3

\* A service that has just started.
LEMMA CloudInitInv == CloudInit => CloudInv
  <1> SUFFICES ASSUME CloudInit PROVE CloudInv
    OBVIOUS
  <1>1. cloudRun \in CloudRuns /\ cloudRun.step = "none" /\ cloudRun.held = 0
        /\ cloudRun.next = 1 /\ cloudRun.parts = <<>>
    BY NoRunIs DEF CloudInit, CloudSteps
  <1>2. CloudTyped
    <2>1. text \in Seq(ChunkIds)
      BY DEF CloudInit
    <2>2. dropped \in BOOLEAN
      BY DEF CloudInit
    <2>3. recording \in 1..MaxRecordings
      BY CloudAssumption DEF CloudInit
    <2>4. /\ answers \in [ChunkIds -> {"none", "whole", "damaged"}]
          /\ paid \in [ChunkIds -> Nat] /\ lost \subseteq ChunkIds /\ cloudFaults \in Nat
      BY DEF CloudInit
    <2> QED
      BY <1>1, <2>1, <2>2, <2>3, <2>4 DEF CloudTyped
  <1>3. RunInv
    BY <1>1 DEF CloudInit, RunInv, InStep, Cutting, Sending, Complete
  <1>4. BillInv /\ FolderInv
    BY <1>1 DEF CloudInit, BillInv, FolderInv, InStep, NoAnswers
  <1>5. TextIsOfOneRecording /\ PaidOnce
    BY DEF CloudInit, TextIsOfOneRecording, PaidOnce
  <1> QED
    BY <1>2, <1>3, <1>4, <1>5 DEF CloudInv

\* Every step of the run, the service, the user and whoever meddles.
LEMMA CloudStep ==
    ASSUME CloudInv, [CloudNext]_cloudVars
    PROVE  CloudInv'
  <1>1. CASE UNCHANGED cloudVars
    BY <1>1 DEF cloudVars, CloudInv, CloudTyped, RunInv, BillInv, FolderInv, InStep, Chunk,
                ChunkUntouched, NoAnswers, TextIsOfOneRecording, PaidOnce
  <1> QED
    BY <1>1, AcceptKeeps, LooksKeepRun, OpenKeeps, CancelsKeep, TakeChunkKeeps, AnswerKeeps,
       LostKeeps, KeepAnswerKeeps, LeaveKeeps, StoreKeeps, AnswersGoKeep, AskedKeeps,
       CrashKeeps, MeddlingKeeps DEF CloudNext

\* What the invariant says of what is sent, stored, paid and left.
LEMMA CloudHolds ==
    ASSUME CloudInv
    PROVE  CloudKept
  <1>1. SendsWhatWasAccepted
    BY ChunkIs DEF CloudInv, RunInv, InStep, Sending, SendsWhatWasAccepted
  <1>2. NothingLeftBehind
    BY DEF CloudInv, BillInv, FolderInv, InStep, Sending, NothingLeftBehind
  <1> QED
    BY <1>1, <1>2 DEF CloudInv, CloudKept

------------------------------------------------------------------------------
(* The maintenance of old recordings: sound goes only where a copy stays. *)

Entries == [object : Nat, stamp : Nat, sound : Nat]

UpkeepSteps ==
    {"none", "create", "open", "convert", "decode", "decoded", "unlink", "cleanup",
     "list", "delete", "remove"}

Upkeeps ==
    [step : UpkeepSteps, seen : [AudioNames -> Entries], made : Nat, input : Nat,
     inherited : BOOLEAN, directory : Nat, left : SUBSET AudioNames, target : AudioNames]

LifecycleTyped ==
    /\ entries \in [AudioNames -> Entries]
    /\ directory \in Nat /\ objects \in Nat
    /\ upkeep \in Upkeeps /\ upkeep.made <= objects
    /\ exposed \in BOOLEAN

\* A compression that made its FLAC knows the sound it put there, and which WAV had
\* it; nobody else writes into that file.
FlacIsOfWav ==
    ~upkeep.inherited =>
        /\ upkeep.step \in {"open", "convert", "decode", "decoded", "unlink"} => upkeep.made # 0
        /\ upkeep.step \in {"convert", "decode", "decoded", "unlink"} =>
              upkeep.seen[Wav].sound = upkeep.input
        /\ upkeep.step = "decode" /\ SameObject(Flac, upkeep.made) =>
              entries[Flac].sound = upkeep.input
        /\ upkeep.step \in {"decoded", "unlink"} => upkeep.seen[Flac].sound = upkeep.input

\* What the last look saw is still there, unless it was exposed since.
LookedAt ==
    ~exposed =>
        /\ upkeep.step = "unlink" /\ ~upkeep.inherited => SameFile(Wav) /\ SameFile(Flac)
        /\ upkeep.step = "remove" => SameFile(upkeep.target)

LifecycleInv == LifecycleTyped /\ FlacIsOfWav /\ LookedAt /\ SoundIsKept

\* A file that is written to is another state of the same file.
LEMMA Rerecorded ==
    ASSUME NEW e \in Entries, NEW sound \in Nat
    PROVE  /\ [e EXCEPT !.sound = sound, !.stamp = @ + 1] \in Entries
           /\ [e EXCEPT !.sound = sound, !.stamp = @ + 1].sound = sound
           /\ [e EXCEPT !.stamp = @ + 1, !.sound = sound] \in Entries
  <1>1. e.stamp + 1 \in Nat
    BY DEF Entries
  <1>2. [e EXCEPT !.sound = sound] \in Entries
    BY DEF Entries
  <1>3. [e EXCEPT !.stamp = e.stamp + 1] \in Entries
    BY <1>1 DEF Entries
  <1>4. [e EXCEPT !.sound = sound, !.stamp = @ + 1] \in Entries
    BY <1>1, <1>2 DEF Entries
  <1>5. [e EXCEPT !.stamp = @ + 1, !.sound = sound] \in Entries
    BY <1>3 DEF Entries
  <1>6. [e EXCEPT !.sound = sound, !.stamp = @ + 1].sound = sound
    BY DEF Entries
  <1> QED
    BY <1>4, <1>5, <1>6

\* A maintenance that has done nothing yet.
LEMMA LifecycleInitInv == LifecycleInit => LifecycleInv
  <1> SUFFICES ASSUME LifecycleInit PROVE LifecycleInv
    OBVIOUS
  <1>1. NoAudio \in Entries
    BY DEF NoAudio, Entries
  <1>2. upkeep \in Upkeeps /\ upkeep.step = "none" /\ upkeep.made = 0
    BY <1>1, LifecycleAssumption DEF LifecycleInit, NoUpkeep, Upkeeps, UpkeepSteps
  <1>3. entries \in [AudioNames -> Entries]
    BY <1>1 DEF LifecycleInit, Entries, Cut
  <1>4. LifecycleTyped
    <2>1. exposed \in BOOLEAN
      BY DEF LifecycleInit
    <2>2. directory \in Nat /\ objects \in Nat /\ upkeep.made <= objects
      BY <1>2 DEF LifecycleInit
    <2> QED
      BY <1>2, <1>3, <2>1, <2>2 DEF LifecycleTyped
  <1>5. FlacIsOfWav /\ LookedAt
    BY <1>2 DEF FlacIsOfWav, LookedAt
  <1>6. SoundIsKept
    BY DEF LifecycleInit, SoundIsKept
  <1> QED
    BY <1>4, <1>5, <1>6 DEF LifecycleInv

\* A call that stops or crashes claims nothing.
LEMMA StopsKeeps ==
    ASSUME LifecycleInv, Stops, UNCHANGED exposed, UNCHANGED directory,
           objects' \in Nat, entries' \in [AudioNames -> Entries], SoundIsKept'
    PROVE  LifecycleInv'
  <1>1. NoAudio \in Entries
    BY DEF NoAudio, Entries
  <1>2. upkeep' \in Upkeeps /\ upkeep'.step = "none" /\ upkeep'.made = 0
    BY <1>1, LifecycleAssumption DEF Stops, NoUpkeep, Upkeeps, UpkeepSteps
  <1>3. LifecycleTyped'
    BY <1>2 DEF LifecycleInv, LifecycleTyped
  <1>4. FlacIsOfWav' /\ LookedAt'
    BY <1>2 DEF FlacIsOfWav, LookedAt
  <1> QED
    BY <1>3, <1>4 DEF LifecycleInv

\* What a call does that changes no file.
LEMMA LooksKeep ==
    ASSUME LifecycleInv, NEW to \in Upkeeps, Steps(to), UNCHANGED <<entries, objects, gone>>,
           UNCHANGED directory, exposed' \in BOOLEAN,
           to.made <= objects,
           FlacIsOfWav', LookedAt'
    PROVE  LifecycleInv'
  <1>1. SoundIsKept'
    BY DEF LifecycleInv, SoundIsKept
  <1>2. LifecycleTyped'
    BY DEF LifecycleInv, LifecycleTyped, Steps
  <1> QED
    BY <1>1, <1>2 DEF LifecycleInv

\* The compression up to its last look.
LEMMA CompressKeeps ==
    ASSUME LifecycleInv, StartCompress \/ OpenWav \/ DecodeFlac \/ LastLook
    PROVE  LifecycleInv'
  <1>1. LifecycleTyped /\ FlacIsOfWav
    BY DEF LifecycleInv
  <1>2. NoAudio \in Entries /\ Wav \in AudioNames /\ Flac \in AudioNames /\ Wav # Flac
    BY LifecycleAssumption DEF NoAudio, Entries
  <1>3. CASE StartCompress
    <2>1. NoUpkeep \in Upkeeps
      BY <1>2 DEF NoUpkeep, Upkeeps, UpkeepSteps
    <2>2. UNCHANGED <<entries, objects, gone, directory>> /\ exposed' = FALSE
      BY <1>3 DEF StartCompress, Begun
    <2>3. PICK to : /\ Steps(to)
                    /\ \/ to = [NoUpkeep EXCEPT !.step = "decode", !.inherited = TRUE]
                       \/ to = [NoUpkeep EXCEPT !.step = "create",
                                                !.seen = [@ EXCEPT ![Wav] = entries[Wav]]]
      BY <1>3 DEF StartCompress
    <2>4. /\ to \in Upkeeps /\ to.made = 0 /\ to.step \in {"decode", "create"}
          /\ to.step = "decode" => to.inherited
      <3>1. CASE to = [NoUpkeep EXCEPT !.step = "decode", !.inherited = TRUE]
        <4>1. to \in Upkeeps /\ to.made = NoUpkeep.made /\ to.step = "decode"
          BY <2>1, <3>1 DEF Upkeeps, UpkeepSteps
        <4>2. to.inherited = TRUE
          BY <2>1, <3>1 DEF Upkeeps
        <4>3. to.inherited
          BY <4>2
        <4> QED
          BY <4>1, <4>3 DEF NoUpkeep
      <3>2. CASE to = [NoUpkeep EXCEPT !.step = "create",
                                       !.seen = [@ EXCEPT ![Wav] = entries[Wav]]]
        <4>1. [NoUpkeep.seen EXCEPT ![Wav] = entries[Wav]] \in [AudioNames -> Entries]
          BY <1>1, <1>2, <2>1 DEF LifecycleTyped, Upkeeps
        <4>2. to \in Upkeeps /\ to.made = NoUpkeep.made /\ to.step = "create"
          BY <2>1, <3>2, <4>1 DEF Upkeeps, UpkeepSteps
        <4> QED
          BY <4>2 DEF NoUpkeep
      <3> QED
        BY <2>3, <3>1, <3>2
    <2>5. FlacIsOfWav' /\ LookedAt'
      BY <2>3, <2>4 DEF FlacIsOfWav, LookedAt, Steps
    <2>6. exposed' \in BOOLEAN /\ to.made <= objects
      <3>1. exposed' \in BOOLEAN
        BY <2>2
      <3>2. to.made <= objects
        BY <1>1, <2>4 DEF LifecycleTyped
      <3> QED
        BY <3>1, <3>2
    <2> QED
      BY <2>2, <2>3, <2>4, <2>5, <2>6, LooksKeep
  <1>4. CASE OpenWav
    <2>1. UNCHANGED <<entries, objects, gone, directory, exposed>> /\ upkeep.step = "open"
      BY <1>4 DEF OpenWav, Unmoved, Upkeep
    <2>2. PICK to : /\ Steps(to)
                    /\ \/ /\ SameFile(Wav)
                          /\ to = [upkeep EXCEPT !.step = "convert",
                                                 !.input = entries[Wav].sound]
                       \/ to = [upkeep EXCEPT !.step = "cleanup"]
      BY <1>4 DEF OpenWav
    <2>3. /\ to \in Upkeeps /\ to.made = upkeep.made /\ to.step \in {"convert", "cleanup"}
          /\ to.seen = upkeep.seen /\ to.inherited = upkeep.inherited
          /\ to.step = "convert" => to.input = upkeep.seen[Wav].sound
      <3>1. upkeep \in Upkeeps /\ entries[Wav].sound \in Nat
        BY <1>1, <1>2 DEF LifecycleTyped, Entries
      <3>2. CASE SameFile(Wav) /\ to = [upkeep EXCEPT !.step = "convert",
                                                     !.input = entries[Wav].sound]
        BY <3>1, <3>2 DEF Upkeeps, UpkeepSteps, SameFile
      <3>3. CASE to = [upkeep EXCEPT !.step = "cleanup"]
        BY <3>1, <3>3 DEF Upkeeps, UpkeepSteps
      <3> QED
        BY <2>2, <3>2, <3>3
    <2>4. FlacIsOfWav' /\ LookedAt'
      BY <1>1, <2>1, <2>2, <2>3 DEF FlacIsOfWav, LookedAt, Steps
    <2> QED
      BY <1>1, <2>1, <2>2, <2>3, <2>4, LooksKeep DEF LifecycleTyped
  <1>5. CASE DecodeFlac
    <2>1. UNCHANGED <<entries, objects, gone, directory, exposed>> /\ upkeep.step = "decode"
      BY <1>5 DEF DecodeFlac, Unmoved, Upkeep
    <2>2. PICK to : /\ Steps(to)
                    /\ \/ RightFlac /\ to = [upkeep EXCEPT !.step = "decoded", !.seen = Sees(Flac)]
                       \/ to = [upkeep EXCEPT !.step = "cleanup"]
      BY <1>5 DEF DecodeFlac
    <2>3. Sees(Flac) \in [AudioNames -> Entries] /\ Sees(Flac)[Wav] = upkeep.seen[Wav]
          /\ Sees(Flac)[Flac] = entries[Flac]
      BY <1>1, <1>2 DEF Sees, LifecycleTyped, Upkeeps
    <2>4. /\ to \in Upkeeps /\ to.made = upkeep.made /\ to.step \in {"decoded", "cleanup"}
          /\ to.inherited = upkeep.inherited /\ to.input = upkeep.input
          /\ to.step = "decoded" => RightFlac /\ to.seen = Sees(Flac)
      BY <1>1, <2>2, <2>3 DEF LifecycleTyped, Upkeeps, UpkeepSteps
    <2>5. FlacIsOfWav' /\ LookedAt'
      BY <1>1, <2>1, <2>2, <2>3, <2>4 DEF FlacIsOfWav, LookedAt, Steps, RightFlac
    <2> QED
      BY <1>1, <2>1, <2>2, <2>4, <2>5, LooksKeep DEF LifecycleTyped
  <1>6. CASE LastLook
    <2>1. UNCHANGED <<entries, objects, gone, directory, exposed>> /\ upkeep.step = "decoded"
      BY <1>6 DEF LastLook, Unmoved, Upkeep
    <2>2. PICK to : /\ Steps(to)
                    /\ \/ BothUnchanged /\ to = [upkeep EXCEPT !.step = "unlink"]
                       \/ to = [upkeep EXCEPT !.step = "cleanup"]
      BY <1>6 DEF LastLook
    <2>3. /\ to \in Upkeeps /\ to.made = upkeep.made /\ to.step \in {"unlink", "cleanup"}
          /\ to.inherited = upkeep.inherited /\ to.input = upkeep.input
          /\ to.seen = upkeep.seen
          /\ to.step = "unlink" => BothUnchanged
      BY <1>1, <2>2 DEF LifecycleTyped, Upkeeps, UpkeepSteps
    <2>4. FlacIsOfWav' /\ LookedAt'
      BY <1>1, <2>1, <2>2, <2>3 DEF FlacIsOfWav, LookedAt, Steps, BothUnchanged, SameFile
    <2> QED
      BY <1>1, <2>1, <2>2, <2>3, <2>4, LooksKeep DEF LifecycleTyped
  <1> QED
    BY <1>3, <1>4, <1>5, <1>6

\* The call makes its FLAC, a file that was not there before.
LEMMA CreateFlacKeeps ==
    ASSUME LifecycleInv, CreateFlac
    PROVE  LifecycleInv'
  <1>1. LifecycleTyped
    BY DEF LifecycleInv
  <1>2. UNCHANGED <<gone, directory, exposed>> /\ upkeep.step = "create"
    BY DEF CreateFlac, Unmoved, Upkeep
  <1>3. SoundIsKept'
    BY <1>2 DEF LifecycleInv, SoundIsKept
  <1>4. CASE Stops /\ UNCHANGED <<entries, objects>>
    BY <1>1, <1>2, <1>3, <1>4, StopsKeeps DEF LifecycleTyped
  <1>5. CASE /\ objects' = objects + 1
             /\ entries' = [entries EXCEPT ![Flac] =
                               [object |-> objects + 1, stamp |-> 1, sound |-> 0]]
             /\ Steps([upkeep EXCEPT !.step = "open", !.made = objects + 1])
    <2>1. /\ upkeep' \in Upkeeps /\ upkeep'.step = "open" /\ upkeep'.made = objects + 1
      <3>1. upkeep \in Upkeeps /\ objects + 1 \in Nat
        BY <1>1 DEF LifecycleTyped
      <3> QED
        BY <1>5, <3>1 DEF Upkeeps, UpkeepSteps, Steps
    <2>2. entries' \in [AudioNames -> Entries]
      <3>1. [object |-> objects + 1, stamp |-> 1, sound |-> 0] \in Entries
        BY <1>1 DEF LifecycleTyped, Entries
      <3> QED
        BY <1>1, <1>5, <3>1 DEF LifecycleTyped
    <2>3. LifecycleTyped'
      BY <1>1, <1>2, <1>5, <2>1, <2>2 DEF LifecycleTyped
    <2>4. FlacIsOfWav' /\ LookedAt'
      BY <1>1, <2>1 DEF FlacIsOfWav, LookedAt, LifecycleTyped
    <2> QED
      BY <1>3, <2>3, <2>4 DEF LifecycleInv
  <1> QED
    BY <1>4, <1>5 DEF CreateFlac

\* ffmpeg writes the sound of the WAV, or a beginning of it, into that file.
LEMMA ConvertKeeps ==
    ASSUME LifecycleInv, Convert
    PROVE  LifecycleInv'
  <1>1. LifecycleTyped /\ FlacIsOfWav
    BY DEF LifecycleInv
  <1>2. UNCHANGED <<gone, directory, exposed, objects>> /\ upkeep.step = "convert"
    BY DEF Convert, Unmoved, Upkeep
  <1>3. SoundIsKept'
    BY <1>2 DEF LifecycleInv, SoundIsKept
  <1>4. PICK sound \in Nat, step \in {"decode", "cleanup"} :
            /\ Written(sound) /\ Steps([upkeep EXCEPT !.step = step])
            /\ step = "decode" => sound = upkeep.input
    BY <1>1 DEF Convert, Cut, LifecycleTyped, Upkeeps
  <1>5. /\ upkeep' \in Upkeeps /\ upkeep'.step = step /\ upkeep'.made = upkeep.made
        /\ upkeep'.seen = upkeep.seen /\ upkeep'.input = upkeep.input
        /\ upkeep'.inherited = upkeep.inherited
    BY <1>1, <1>4 DEF LifecycleTyped, Upkeeps, UpkeepSteps, Steps
  <1>6. /\ entries' \in [AudioNames -> Entries]
        /\ SameObject(Flac, upkeep.made)' => entries'[Flac].sound = sound
    <2>1. CASE SameObject(Flac, upkeep.made)
      <3>1. entries[Flac] \in Entries /\ Flac \in AudioNames
        BY <1>1, LifecycleAssumption DEF LifecycleTyped
      <3>2. entries' = [entries EXCEPT ![Flac] =
                           [entries[Flac] EXCEPT !.sound = sound, !.stamp = @ + 1]]
        BY <1>1, <1>4, <2>1, <3>1 DEF Written, LifecycleTyped
      <3>3. /\ [entries[Flac] EXCEPT !.sound = sound, !.stamp = @ + 1] \in Entries
            /\ [entries[Flac] EXCEPT !.sound = sound, !.stamp = @ + 1].sound = sound
        BY <3>1, Rerecorded
      <3> QED
        BY <1>1, <3>1, <3>2, <3>3 DEF LifecycleTyped
    <2>2. CASE ~SameObject(Flac, upkeep.made)
      <3>1. entries' = entries
        BY <1>4, <2>2 DEF Written
      <3> QED
        BY <1>1, <1>5, <2>2, <3>1 DEF LifecycleTyped, SameObject, Present
    <2> QED
      BY <2>1, <2>2
  <1>7. LifecycleTyped'
    BY <1>1, <1>2, <1>5, <1>6 DEF LifecycleTyped
  <1>8. FlacIsOfWav' /\ LookedAt'
    BY <1>1, <1>2, <1>4, <1>5, <1>6 DEF FlacIsOfWav, LookedAt
  <1> QED
    BY <1>3, <1>7, <1>8 DEF LifecycleInv

\* A name is cleared, and the history says how.
LEMMA RemovesIs ==
    ASSUME LifecycleInv, NEW n \in AudioNames, NEW how, Removes(n, how),
           \/ exposed
           \/ /\ how = "compressed" => entries[Flac].sound = entries[n].sound
              /\ how = "cleanup" => SameObject(n, upkeep.made)
              /\ how = "cold" => SameFile(n)
    PROVE  entries' \in [AudioNames -> Entries] /\ SoundIsKept'
  <1>1. entries' \in [AudioNames -> Entries]
    BY DEF LifecycleInv, LifecycleTyped, Removes, NoAudio, Entries
  <1>2. SoundIsKept'
    <2> DEFINE g == [how |-> how, exposed |-> exposed, mine |-> SameObject(n, upkeep.made),
                     listed |-> SameFile(n), kept |-> entries[Flac].sound = entries[n].sound]
               Covered(r) ==
                   r.exposed \/ /\ r.how = "compressed" => r.kept
                                /\ r.how = "cleanup" => r.mine
                                /\ r.how = "cold" => r.listed
    <2>1. Covered(g)
      BY Zenon
    <2>2. \A r \in gone : Covered(r)
      BY DEF LifecycleInv, SoundIsKept
    <2>3. gone' \subseteq gone \cup {g}
      BY DEF Removes
    <2>4. \A r \in gone' : Covered(r)
      BY <2>1, <2>2, <2>3
    <2> QED
      BY <2>4 DEF SoundIsKept
  <1> QED
    BY <1>1, <1>2

\* The steps of a call that remove: the WAV, the FLAC of a failed call, cold audio.
LEMMA RemovalsKeep ==
    ASSUME LifecycleInv, UnlinkWav \/ CleanUp \/ RemoveAudio
    PROVE  LifecycleInv'
  <1>1. LifecycleTyped /\ FlacIsOfWav /\ LookedAt
    BY DEF LifecycleInv
  <1>2. UNCHANGED <<directory, exposed, objects>>
    BY DEF UnlinkWav, CleanUp, RemoveAudio, Unmoved
  <1>3. Wav \in AudioNames /\ Flac \in AudioNames /\ upkeep.target \in AudioNames
    BY <1>1, LifecycleAssumption DEF LifecycleTyped, Upkeeps
  <1>4. UNCHANGED gone => SoundIsKept'
    BY DEF LifecycleInv, SoundIsKept
  <1>5. CASE UnlinkWav
    <2>1. upkeep.step = "unlink"
      BY <1>5 DEF UnlinkWav, Upkeep
    <2>2. CASE /\ Removes(Wav, IF upkeep.inherited THEN "inherited" ELSE "compressed")
               /\ Stops
      <3>1. exposed \/ upkeep.inherited \/ entries[Flac].sound = entries[Wav].sound
        BY <1>1, <2>1 DEF FlacIsOfWav, LookedAt, SameFile
      <3>2. entries' \in [AudioNames -> Entries] /\ SoundIsKept'
        BY <1>3, <2>2, <3>1, RemovesIs
      <3> QED
        BY <1>1, <1>2, <2>2, <3>2, StopsKeeps DEF LifecycleTyped
    <2>3. CASE Steps([upkeep EXCEPT !.step = "cleanup"]) /\ UNCHANGED <<entries, gone>>
      <3>1. [upkeep EXCEPT !.step = "cleanup"] \in Upkeeps
        BY <1>1 DEF LifecycleTyped, Upkeeps, UpkeepSteps
      <3>2. upkeep'.step = "cleanup" /\ [upkeep EXCEPT !.step = "cleanup"].made = upkeep.made
        BY <1>1, <2>3 DEF Steps, LifecycleTyped, Upkeeps
      <3>3. FlacIsOfWav' /\ LookedAt'
        BY <3>2 DEF FlacIsOfWav, LookedAt
      <3> QED
        BY <1>1, <1>2, <2>3, <3>1, <3>2, <3>3, LooksKeep DEF LifecycleTyped
    <2> QED
      BY <1>5, <2>2, <2>3 DEF UnlinkWav
  <1>6. CASE CleanUp
    <2>1. Stops
      BY <1>6 DEF CleanUp
    <2>2. CASE UNCHANGED <<entries, gone>>
      BY <1>1, <1>2, <1>4, <2>1, <2>2, StopsKeeps DEF LifecycleTyped
    <2>3. CASE SameObject(Flac, upkeep.made) /\ Removes(Flac, "cleanup")
      <3>1. entries' \in [AudioNames -> Entries] /\ SoundIsKept'
        BY <1>3, <2>3, RemovesIs
      <3> QED
        BY <1>1, <1>2, <2>1, <3>1, StopsKeeps DEF LifecycleTyped
    <2> QED
      BY <1>6, <2>2, <2>3 DEF CleanUp, RemovesMade
  <1>7. CASE RemoveAudio
    <2>1. upkeep.step = "remove"
      BY <1>7 DEF RemoveAudio, Upkeep
    <2>2. CASE Removes(upkeep.target, "cold") /\ Steps([upkeep EXCEPT !.step = "delete"])
      <3>1. entries' \in [AudioNames -> Entries] /\ SoundIsKept'
        BY <1>1, <1>3, <2>1, <2>2, RemovesIs DEF LookedAt
      <3>2. upkeep' \in Upkeeps /\ upkeep'.step = "delete" /\ upkeep'.made = upkeep.made
        BY <1>1, <2>2 DEF LifecycleTyped, Upkeeps, UpkeepSteps, Steps
      <3>3. FlacIsOfWav' /\ LookedAt'
        BY <3>2 DEF FlacIsOfWav, LookedAt
      <3>4. LifecycleTyped'
        BY <1>1, <1>2, <3>1, <3>2 DEF LifecycleTyped
      <3> QED
        BY <3>1, <3>3, <3>4 DEF LifecycleInv
    <2>3. CASE Stops /\ UNCHANGED <<entries, gone>>
      BY <1>1, <1>2, <1>4, <2>3, StopsKeeps DEF LifecycleTyped
    <2> QED
      BY <1>7, <2>2, <2>3 DEF RemoveAudio
  <1> QED
    BY <1>5, <1>6, <1>7

\* The removal of cold audio up to its looks.
LEMMA ColdKeeps ==
    ASSUME LifecycleInv, StartDelete \/ ListAudio \/ CheckAudio
    PROVE  LifecycleInv'
  <1>1. LifecycleTyped
    BY DEF LifecycleInv
  <1>2. UNCHANGED <<entries, objects, gone, directory>> /\ exposed' \in BOOLEAN
    BY <1>1 DEF StartDelete, ListAudio, CheckAudio, Unmoved, Begun, LifecycleTyped
  <1>3. SoundIsKept'
    BY <1>2 DEF LifecycleInv, SoundIsKept
  <1>4. CASE StartDelete
    <2>1. NoAudio \in Entries
      BY DEF NoAudio, Entries
    <2>2. upkeep' \in Upkeeps /\ upkeep'.step = "list" /\ upkeep'.made = 0
      BY <1>1, <1>4, <2>1, LifecycleAssumption
         DEF StartDelete, Steps, NoUpkeep, Upkeeps, UpkeepSteps, LifecycleTyped
    <2>3. FlacIsOfWav' /\ LookedAt'
      BY <2>2 DEF FlacIsOfWav, LookedAt
    <2>4. LifecycleTyped'
      BY <1>1, <1>2, <2>2 DEF LifecycleTyped
    <2> QED
      BY <1>3, <2>3, <2>4 DEF LifecycleInv
  <1>5. CASE Stops /\ UNCHANGED exposed
    BY <1>1, <1>2, <1>3, <1>5, StopsKeeps DEF LifecycleTyped
  <1>6. CASE Steps([upkeep EXCEPT !.step = "delete", !.seen = entries, !.left = AudioFiles])
    <2>1. AudioFiles \subseteq AudioNames
      BY DEF AudioFiles
    <2>2. upkeep' \in Upkeeps /\ upkeep'.step = "delete" /\ upkeep'.made = upkeep.made
      BY <1>1, <1>6, <2>1 DEF LifecycleTyped, Upkeeps, UpkeepSteps, Steps
    <2>3. FlacIsOfWav' /\ LookedAt'
      BY <2>2 DEF FlacIsOfWav, LookedAt
    <2>4. LifecycleTyped'
      BY <1>1, <1>2, <2>2 DEF LifecycleTyped
    <2> QED
      BY <1>3, <2>3, <2>4 DEF LifecycleInv
  <1>7. ASSUME NEW n \in upkeep.left, SameFile(n),
               Steps([upkeep EXCEPT !.step = "remove", !.left = @ \ {n}, !.target = n])
        PROVE  LifecycleInv'
    <2>1. n \in AudioNames
      BY <1>1 DEF LifecycleTyped, Upkeeps
    <2>2. /\ upkeep' \in Upkeeps /\ upkeep'.step = "remove" /\ upkeep'.made = upkeep.made
          /\ upkeep'.target = n /\ upkeep'.seen = upkeep.seen
      BY <1>1, <1>7, <2>1 DEF LifecycleTyped, Upkeeps, UpkeepSteps, Steps
    <2>3. SameFile(n)'
      BY <1>2, <1>7, <2>2 DEF SameFile
    <2>4. FlacIsOfWav' /\ LookedAt'
      BY <2>2, <2>3 DEF FlacIsOfWav, LookedAt, SameFile
    <2>5. LifecycleTyped'
      BY <1>1, <1>2, <2>2 DEF LifecycleTyped
    <2> QED
      BY <1>3, <2>4, <2>5 DEF LifecycleInv
  <1> QED
    BY <1>4, <1>5, <1>6, <1>7 DEF ListAudio, CheckAudio, Unmoved

\* Whatever another process does, it brings files of its own, and between a last look
\* and an unlink it is seen to.
LEMMA ForeignKeeps ==
    ASSUME LifecycleInv, ReplaceAudio \/ ReplaceDirectory
    PROVE  LifecycleInv'
  <1>1. LifecycleTyped /\ FlacIsOfWav /\ LookedAt
    BY DEF LifecycleInv
  <1>2. /\ UNCHANGED <<upkeep, gone>>
        /\ exposed' = (exposed \/ upkeep.step \in {"unlink", "remove"})
        /\ directory' \in Nat
    BY <1>1 DEF ReplaceAudio, ReplaceDirectory, Foreign, LifecycleTyped
  <1>3. SoundIsKept'
    BY <1>2 DEF LifecycleInv, SoundIsKept
  <1>4. /\ objects' \in Nat /\ objects <= objects'
        /\ entries' \in [AudioNames -> Entries]
        /\ \/ entries'[Flac] = entries[Flac]
           \/ entries'[Flac] = NoAudio
           \/ entries'[Flac].object = objects + 1
    <2>1. CASE ReplaceDirectory
      BY <1>1, <2>1 DEF ReplaceDirectory, LifecycleTyped
    <2>2. CASE ReplaceAudio
      <3>1. Flac \in AudioNames /\ objects' = objects + 1
        BY <2>2, LifecycleAssumption DEF ReplaceAudio
      <3>2. PICK n \in AudioNames, to \in Entries :
                /\ entries' = [entries EXCEPT ![n] = to]
                /\ n = Flac => to = NoAudio \/ to.object = objects + 1
        <4>1. PICK n \in AudioNames :
                 \/ entries' = [entries EXCEPT ![n] =
                                   [object |-> objects + 1, stamp |-> 1, sound |-> objects + 1]]
                 \/ n # Flac /\ entries' = [entries EXCEPT ![n].stamp = @ + 1,
                                                           ![n].sound = objects + 1]
                 \/ entries' = [entries EXCEPT ![n] = NoAudio]
          BY <2>2 DEF ReplaceAudio
        <4>2. [object |-> objects + 1, stamp |-> 1, sound |-> objects + 1] \in Entries
              /\ NoAudio \in Entries
          BY <1>1 DEF LifecycleTyped, Entries, NoAudio
        <4>3. CASE n # Flac /\ entries' = [entries EXCEPT ![n].stamp = @ + 1,
                                                          ![n].sound = objects + 1]
          <5>1. entries' = [entries EXCEPT ![n] = [entries[n] EXCEPT !.stamp = @ + 1,
                                                                     !.sound = objects + 1]]
            BY <1>1, <4>3 DEF LifecycleTyped
          <5>2. [entries[n] EXCEPT !.stamp = @ + 1, !.sound = objects + 1] \in Entries
            <6>1. entries[n] \in Entries /\ objects + 1 \in Nat
              BY <1>1 DEF LifecycleTyped
            <6> QED
              BY <6>1, Rerecorded
          <5> QED
            BY <4>3, <5>1, <5>2
        <4> QED
          BY <4>1, <4>2, <4>3
      <3> QED
        BY <1>1, <3>1, <3>2 DEF LifecycleTyped
    <2> QED
      BY <2>1, <2>2
  <1>5. LifecycleTyped'
    <2>1. exposed' \in BOOLEAN
      BY <1>2
    <2>2. upkeep'.made <= objects'
      BY <1>1, <1>2, <1>4 DEF LifecycleTyped, Upkeeps
    <2> QED
      BY <1>1, <1>2, <1>4, <2>1, <2>2 DEF LifecycleTyped
  <1>6. SameObject(Flac, upkeep.made)' => SameObject(Flac, upkeep.made)
                                          /\ entries'[Flac] = entries[Flac]
    BY <1>1, <1>2, <1>4 DEF SameObject, Present, LifecycleTyped, Upkeeps
  <1>7. FlacIsOfWav'
    BY <1>1, <1>2, <1>6 DEF FlacIsOfWav
  <1>8. LookedAt'
    BY <1>2 DEF LookedAt
  <1> QED
    BY <1>3, <1>5, <1>7, <1>8 DEF LifecycleInv

\* Every step of the maintenance and of the other process.
LEMMA LifecycleStep ==
    ASSUME LifecycleInv, [LifecycleNext]_lifecycleVars
    PROVE  LifecycleInv'
  <1>1. CASE UNCHANGED lifecycleVars
    BY <1>1 DEF lifecycleVars, LifecycleInv, LifecycleTyped, FlacIsOfWav, LookedAt,
                SoundIsKept, SameFile, SameObject, Present
  <1>2. CASE CrashUpkeep
    <2>1. SoundIsKept'
      BY <1>2 DEF CrashUpkeep, LifecycleInv, SoundIsKept
    <2> QED
      BY <1>2, <2>1, StopsKeeps DEF CrashUpkeep, Unmoved, LifecycleInv, LifecycleTyped
  <1> QED
    BY <1>1, <1>2, CompressKeeps, CreateFlacKeeps, ConvertKeeps, RemovalsKeep, ColdKeeps,
       ForeignKeeps DEF LifecycleNext

------------------------------------------------------------------------------
(* The quality gate. *)

Kinds == {"security", "busy", "media", "infra"}

\* What is read of a failed process: bad media only by a diagnostic, or by default.
LEMMA ClassifiedIs ==
    ASSUME NEW marks \in SUBSET Marks, NEW default \in {"media", "infra"}
    PROVE  /\ Classified(marks, default) \in Kinds
           /\ Classified(marks, default) = "media" =>
                 default = "media" \/ marks \cap {"media", "mediaSuffix"} # {}
  BY DEF Classified, Kinds

\* ffprobe: a duration, or a failure.
LEMMA ProbedIs ==
    ASSUME NEW probe \in ProbeReports
    PROVE  /\ Probed(probe).failure = "none" <=>
                 probe.runs /\ probe.code = 0 /\ probe.duration # Missing
           /\ Probed(probe).failure \in Kinds \cup {"none"}
           /\ Probed(probe).failure = "none" => Probed(probe).duration = probe.duration
           /\ probe.runs /\ probe.code = 0 => probe.marks = {}
           /\ probe.duration \in Int /\ (probe.duration # Missing => probe.duration \in Nat)
           /\ probe.runs \in BOOLEAN /\ probe.code \in {0, 1}
           /\ probe.code = 1 => probe.duration = Missing
           /\ ~probe.runs => probe.duration = Missing
  <1>1. /\ probe.runs \in BOOLEAN /\ probe.code \in {0, 1} /\ probe.marks \in SUBSET Marks
        /\ probe.duration \in {Missing} \cup 0..3
        /\ probe.code = 1 => probe.duration = Missing
        /\ ~probe.runs => probe.duration = Missing
        /\ probe.runs /\ probe.code = 0 => probe.marks = {}
    <2>1. CASE probe \in [runs : {TRUE}, code : {0}, marks : {{}},
                          duration : {Missing} \cup 0..3]
      <3>1. /\ probe.runs = TRUE /\ probe.code = 0 /\ probe.marks = {}
            /\ probe.duration \in {Missing} \cup 0..3
        BY <2>1
      <3>2. probe.runs /\ probe.runs \in BOOLEAN
        BY <3>1
      <3> QED
        BY <3>1, <3>2
    <2>2. CASE probe \in [runs : {FALSE}, code : {0}, marks : {{}}, duration : {Missing}]
      BY <2>2
    <2>3. CASE probe \in [runs : {TRUE}, code : {1}, marks : SUBSET Marks,
                          duration : {Missing}]
      <3>1. /\ probe.runs = TRUE /\ probe.code = 1 /\ probe.marks \in SUBSET Marks
            /\ probe.duration = Missing
        BY <2>3
      <3>2. probe.runs /\ probe.runs \in BOOLEAN
        BY <3>1
      <3> QED
        BY <3>1, <3>2
    <2> QED
      BY <2>1, <2>2, <2>3 DEF ProbeReports
  <1>2. Classified(probe.marks, "infra") \in Kinds
    BY <1>1, ClassifiedIs
  <1>3. CASE ~probe.runs
    BY <1>1, <1>3 DEF Probed, Kinds, Missing
  <1>4. CASE probe.runs /\ probe.code # 0
    BY <1>1, <1>2, <1>4 DEF Probed, Kinds, Missing
  <1>5. CASE probe.runs /\ probe.code = 0
    BY <1>1, <1>5 DEF Probed, Kinds, Missing
  <1> QED
    BY <1>3, <1>4, <1>5

\* ffmpeg: both values of a clean exit, or a failure with what was decoded.
LEMMA DecodedIs ==
    ASSUME NEW decode \in DecodeReports
    PROVE  LET clean == /\ decode.runs /\ decode.code = 0 /\ "media" \notin decode.marks
                        /\ decode.samples # Missing /\ decode.mean # Missing
               cut == decode.samples # Missing /\ decode.samples < MinDuration
               diagnosed == decode.marks \cap {"media", "mediaSuffix"} # {}
               out == Decoded(decode)
           IN
           /\ out.failure \in Kinds \cup {"none"}
           /\ out.failure = "none" => clean /\ out.mean = decode.mean
           /\ out.duration = decode.samples \/ out.duration = Missing
           /\ out.failure = "none" => out.duration = decode.samples
           /\ out.failure = "media" => 
                 decode.runs /\ (diagnosed \/ (cut /\ decode.code = 0))
           /\ clean /\ out.failure # "none" => cut /\ out.failure = "media"
           /\ out.failure = "media" /\ clean => cut
  <1>1. /\ decode.runs \in BOOLEAN /\ decode.code \in {0, 1} /\ decode.marks \in SUBSET Marks
        /\ decode.samples \in {Missing} \cup 0..3 /\ decode.mean \in {Missing} \cup 0..2
    BY DEF DecodeReports
  <1>2. \A default \in {"media", "infra"} :
            /\ Classified(decode.marks, default) \in Kinds
            /\ Classified(decode.marks, default) = "media" =>
                 default = "media" \/ decode.marks \cap {"media", "mediaSuffix"} # {}
    BY <1>1, ClassifiedIs
  <1> QED
    BY <1>1, <1>2, QualityAssumption DEF Decoded, MeasureError, ShortBecause, Kinds, Missing

\* In every case the gate judges a recording as the two tools report it
\* (audio_quality.py).
LEMMA QualityHolds ==
    ASSUME NEW c \in QualityCases
    PROVE  QualityAsIntended(c, QualityResult(c))
  <1> DEFINE probe == c.probe
             decode == c.decode
  <1>1. probe \in ProbeReports /\ decode \in DecodeReports
    BY DEF QualityCases
  <1>2. /\ decode.runs \in BOOLEAN /\ decode.code \in {0, 1} /\ decode.marks \in SUBSET Marks
        /\ decode.samples \in {Missing} \cup 0..3 /\ decode.mean \in {Missing} \cup 0..2
    BY <1>1 DEF DecodeReports
  <1> QED
    BY <1>1, <1>2, ProbedIs, DecodedIs, QualityAssumption
       DEF QualityAsIntended, QualityResult, Validated, Verdict, PolicyReject,
           MeasurementError, ProbeFailure, Lesser, Kinds, Missing
==============================================================================
