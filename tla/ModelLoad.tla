-------------------------------- MODULE ModelLoad --------------------------------
(***************************************************************************)
(* core/model_manager.py: one large model is in memory at a time, and who   *)
(* uses it holds the context lock.  Loading, unloading and inference run in *)
(* threads that no cancellation stops: a caller that is cancelled leaves at *)
(* once, and the lock goes to a finalizer that waits for the thread.  A     *)
(* residency scope keeps a model between the uses of one user and has it    *)
(* unloaded when it closes.  A loaded instance is known by its number.      *)
(***************************************************************************)
EXTENDS Naturals

CONSTANTS
    Users,          \* tasks that use models
    MaxModelLoads   \* bound of the loads

ASSUME ModelLoadAssumption ==
    /\ MaxModelLoads \in Nat
    /\ Users \cap {"free", "finalizer", "cleanup"} = {}

VARIABLES
    resident,      \* _current: the model in memory
    contextLock,   \* who holds it: "free", a user, "finalizer" or "cleanup"
    user,          \* where each user stands
    thread,        \* per user, the instance its native inference works on
    lifecycle,     \* the thread that loads or unloads a model
    handedOver,    \* _deferred_context_cleanup
    scope,         \* the residency scope: whose it is and the model it used
    leaving,       \* instances whose scope closed and that are to be unloaded
    loads          \* how many models were loaded

modelVars == <<resident, contextLock, user, thread, lifecycle, handedOver, scope, leaving, loads>>

Names == {"whisper", "exaone"}
NoModel == [name |-> "none", id |-> 0]
Idle == [does |-> "nothing"]
Out == [at |-> "out"]
NotHandedOver == [pending |-> FALSE]
NoScope == [of |-> "none"]

ModelInit ==
    /\ resident = NoModel /\ contextLock = "free" /\ loads = 0
    /\ user = [u \in Users |-> Out]
    /\ thread = [u \in Users |-> 0]
    /\ lifecycle = Idle
    /\ handedOver = NotHandedOver
    /\ scope = NoScope /\ leaving = {}

Moves(u, to) == user' = [user EXCEPT ![u] = to]
Loading(name) == [does |-> "load", name |-> name]
Unloading == [does |-> "unload"]

------------------------------------------------------------------------------
(* Getting the lock. *)

\* acquire, unload_model, unload_if_current("exaone").  A use that finds the
\* user's own residency scope of that model keeps it.
AskModel(u) ==
    /\ user[u] = Out
    /\ \E want \in Names \cup {"nothing", "no exaone"}, keep \in BOOLEAN :
          LET scoped == scope.of = u /\ want = "whisper" IN
          Moves(u, [at |-> "waits", want |-> want, keep |-> keep \/ scoped, scoped |-> scoped,
                    barred |-> FALSE])
    /\ UNCHANGED <<resident, contextLock, thread, lifecycle, handedOver, scope, leaving, loads>>

\* _raise_if_native_cleanup_pending, also for those that waited before.
Refused(u) ==
    /\ user[u].at = "waits" /\ handedOver.pending
    /\ Moves(u, Out)
    /\ UNCHANGED <<resident, contextLock, thread, lifecycle, handedOver, scope, leaving, loads>>

\* What the scope of a user used is what it has unloaded at its end.
Remembered(u, model) ==
    scope' = IF user[u].scoped THEN [scope EXCEPT !.model = model] ELSE scope

EnterModel(u) ==
    /\ user[u].at = "waits" /\ contextLock = "free" /\ ~handedOver.pending
    /\ LET want == user[u].want
           drop == want = "nothing" \/ (want = "no exaone" /\ resident.name = "exaone")
       IN
       IF want \in Names /\ resident.name = want
       THEN /\ contextLock' = u /\ Moves(u, [user[u] EXCEPT !.at = "inside"])
            /\ Remembered(u, resident) /\ UNCHANGED lifecycle
       ELSE IF want \in Names \/ (drop /\ resident # NoModel)
       THEN /\ want \in Names => loads < MaxModelLoads
            /\ contextLock' = u
            /\ lifecycle' = IF resident = NoModel THEN Loading(want) ELSE Unloading
            /\ Moves(u, [user[u] EXCEPT !.at = IF want \in Names THEN "loads" ELSE "unloads"])
            /\ UNCHANGED scope
       ELSE Moves(u, Out) /\ UNCHANGED <<contextLock, lifecycle, scope>>
    /\ UNCHANGED <<resident, thread, handedOver, leaving, loads>>

------------------------------------------------------------------------------
(* _run_sync_lifecycle: what its thread did is applied by whom it was done   *)
(* for, by the finalizer if that one was cancelled.                          *)

LifecycleEnds(u) ==
    /\ contextLock = u /\ user[u].at \in {"loads", "unloads"} /\ lifecycle # Idle
    /\ IF lifecycle = Unloading
       THEN /\ resident' = NoModel
            /\ IF user[u].at = "loads"
               THEN lifecycle' = Loading(user[u].want) /\ UNCHANGED <<contextLock, user>>
               ELSE lifecycle' = Idle /\ contextLock' = "free" /\ Moves(u, Out)
            /\ UNCHANGED <<scope, loads>>
       ELSE /\ lifecycle' = Idle
            /\ \/ /\ loads' = loads + 1
                  /\ resident' = [name |-> lifecycle.name, id |-> loads']
                  /\ Moves(u, [user[u] EXCEPT !.at = "inside"])
                  /\ Remembered(u, resident') /\ UNCHANGED contextLock
               \/ /\ Moves(u, Out) /\ contextLock' = "free"      \* the loader raised
                  /\ UNCHANGED <<resident, scope, loads>>
    /\ UNCHANGED <<thread, handedOver, leaving>>

HandOver(workers, unloadAfter, of) ==
    /\ handedOver' = [pending |-> TRUE, workers |-> workers, unload |-> unloadAfter, of |-> of]
    /\ contextLock' = "finalizer"

\* Cancelled while the thread loads or unloads: a model that comes is unloaded.
CancelLifecycle(u) ==
    /\ contextLock = u /\ user[u].at \in {"loads", "unloads"} /\ lifecycle # Idle
    /\ HandOver({}, lifecycle # Unloading, lifecycle)
    /\ Moves(u, Out)
    /\ UNCHANGED <<resident, thread, lifecycle, scope, leaving, loads>>

------------------------------------------------------------------------------
(* Using the model. *)

\* await_native_inference: not while a cancelled one still works.
Infer(u) ==
    /\ user[u].at = "inside" /\ ~user[u].barred
    /\ thread' = [thread EXCEPT ![u] = resident.id]
    /\ Moves(u, [user[u] EXCEPT !.at = "infers"])
    /\ UNCHANGED <<resident, contextLock, lifecycle, handedOver, scope, leaving, loads>>

ThreadEnds(u) ==
    /\ thread[u] # 0
    /\ thread' = [thread EXCEPT ![u] = 0]
    /\ user' = IF user[u].at = "infers" THEN [user EXCEPT ![u].at = "inside"] ELSE user
    /\ UNCHANGED <<resident, contextLock, lifecycle, handedOver, scope, leaving, loads>>

\* A timeout or a cancellation: the caller goes on, the thread too.
CancelInference(u) ==
    /\ user[u].at = "infers"
    /\ Moves(u, [user[u] EXCEPT !.at = "inside", !.barred = TRUE])
    /\ UNCHANGED <<resident, contextLock, thread, lifecycle, handedOver, scope, leaving, loads>>

\* Mutant: the context is left as if its threads had ended.
ForgottenWorkers(u) == {}

PendingWorkers(u) == IF thread[u] # 0 THEN {u} ELSE {}

\* _ModelContext.__aexit__
LeaveModel(u, raised) ==
    /\ user[u].at = "inside"
    /\ LET kept == user[u].keep /\ ~raised IN
       IF PendingWorkers(u) # {}
       THEN HandOver(PendingWorkers(u), ~kept, Idle) /\ Moves(u, Out) /\ UNCHANGED lifecycle
       ELSE IF kept
       THEN contextLock' = "free" /\ Moves(u, Out) /\ UNCHANGED <<lifecycle, handedOver>>
       ELSE /\ lifecycle' = Unloading /\ Moves(u, [user[u] EXCEPT !.at = "unloads"])
            /\ UNCHANGED <<contextLock, handedOver>>
    /\ UNCHANGED <<resident, thread, scope, leaving, loads>>

------------------------------------------------------------------------------
(* _finalize_deferred_context_cleanup: it cannot be cancelled. *)

\* The threads have ended: what a loading or unloading one did is applied.
Applied ==
    /\ handedOver.pending /\ \A u \in handedOver.workers : thread[u] = 0
    /\ handedOver.of # Idle \/ handedOver.workers # {}
    /\ lifecycle' = Idle
    /\ handedOver' = [handedOver EXCEPT !.of = Idle, !.workers = {}]
    /\ IF handedOver.of = Idle THEN UNCHANGED <<resident, loads>>
       ELSE IF handedOver.of = Unloading THEN resident' = NoModel /\ UNCHANGED loads
       ELSE \/ loads' = loads + 1 /\ resident' = [name |-> handedOver.of.name, id |-> loads']
            \/ UNCHANGED <<resident, loads>>
    /\ UNCHANGED <<contextLock, user, thread, scope, leaving>>

Finalize ==
    /\ handedOver.pending /\ handedOver.of = Idle /\ handedOver.workers = {}
    /\ IF lifecycle # Unloading /\ handedOver.unload /\ resident # NoModel
       THEN lifecycle' = Unloading /\ UNCHANGED <<resident, contextLock, handedOver>>
       ELSE /\ resident' = IF lifecycle = Unloading THEN NoModel ELSE resident
            /\ lifecycle' = Idle
            /\ handedOver' = NotHandedOver /\ contextLock' = "free"
    /\ UNCHANGED <<user, thread, scope, leaving, loads>>

------------------------------------------------------------------------------
(* residency_scope *)

OpenScope(u) ==
    /\ scope = NoScope /\ user[u] = Out
    /\ scope' = [of |-> u, model |-> NoModel]
    /\ UNCHANGED <<resident, contextLock, user, thread, lifecycle, handedOver, leaving, loads>>

CloseScope ==
    /\ scope # NoScope /\ user[scope.of] = Out
    /\ leaving' = IF scope.model = NoModel THEN leaving ELSE leaving \cup {scope.model.id}
    /\ scope' = NoScope
    /\ UNCHANGED <<resident, contextLock, user, thread, lifecycle, handedOver, loads>>

\* _unload_owned_model: only this very instance, now or with the finalizer.
UnloadOwned(id) ==
    /\ id \in leaving
    /\ \/ /\ resident.id # id
          /\ leaving' = leaving \ {id} /\ UNCHANGED <<handedOver, contextLock, lifecycle>>
       \/ /\ resident.id = id /\ handedOver.pending
          /\ handedOver' = [handedOver EXCEPT !.unload = TRUE]
          /\ leaving' = leaving \ {id} /\ UNCHANGED <<contextLock, lifecycle>>
       \/ /\ resident.id = id /\ ~handedOver.pending /\ contextLock = "free"
          /\ contextLock' = "cleanup" /\ lifecycle' = Unloading
          /\ UNCHANGED <<leaving, handedOver>>
    /\ UNCHANGED <<resident, user, thread, scope, loads>>

OwnedUnloaded(id) ==
    /\ contextLock = "cleanup" /\ id \in leaving
    /\ resident' = NoModel /\ lifecycle' = Idle /\ contextLock' = "free"
    /\ leaving' = leaving \ {id}
    /\ UNCHANGED <<user, thread, handedOver, scope, loads>>

------------------------------------------------------------------------------

ModelNext ==
    \/ \E u \in Users :
          \/ AskModel(u) \/ Refused(u) \/ EnterModel(u)
          \/ LifecycleEnds(u) \/ CancelLifecycle(u)
          \/ Infer(u) \/ ThreadEnds(u) \/ CancelInference(u)
          \/ \E raised \in BOOLEAN : LeaveModel(u, raised)
          \/ OpenScope(u)
    \/ Applied \/ Finalize \/ CloseScope
    \/ \E id \in leaving : UnloadOwned(id) \/ OwnedUnloaded(id)

ModelSpec == ModelInit /\ [][ModelNext]_modelVars

\* A native thread works on the model in memory, alone, and nothing loads or
\* unloads next to it, whoever was cancelled; and the lock is held by someone
\* who will give it back.
ModelsAreNotPulledAway ==
    /\ \A u \in Users : thread[u] # 0 =>
          /\ thread[u] = resident.id /\ lifecycle = Idle
          /\ \A v \in Users \ {u} : thread[v] = 0
    /\ contextLock \in Users => user[contextLock].at \in {"loads", "unloads", "inside", "infers"}
    /\ (contextLock = "finalizer") = handedOver.pending
================================================================================
