--------------------------- MODULE ServicesProofs ----------------------------
(*****************************************************************************)
(* Proofs about the services, for every set of users, models, requests and   *)
(* files and any number of loads, downloads, edits, faults and crashes. The  *)
(* first parts are about what serves users from memory: the models, the      *)
(* search and the chat; the last combines them, and those of                 *)
(* MeetingWorkProofs and StoresProofs, into theorems about the               *)
(* specification of all.                                                     *)
(*****************************************************************************)
EXTENDS Services, MeetingWorkProofs, StoresProofs

------------------------------------------------------------------------------
(* The model manager. *)

Using == {"inside", "infers"}
Changing == {"loads", "unloads"}

Wants == Names \cup {"nothing", "no exaone"}

Seats ==
    [at : {"waits"} \cup Using \cup Changing, want : Wants,
     keep : BOOLEAN, scoped : BOOLEAN, barred : BOOLEAN]

Lifecycles == {Idle, Unloading} \cup {Loading(name) : name \in Wants}

HandOvers ==
    [pending : {TRUE}, workers : SUBSET Users, unload : BOOLEAN, of : Lifecycles]

ModelTyped ==
    /\ resident \in [name : Wants \cup {"none"}, id : Nat] /\ loads \in Nat
    /\ contextLock \in Users \cup {"free", "finalizer", "cleanup"}
    /\ user \in [Users -> Seats \cup {Out}]
    /\ thread \in [Users -> Nat]
    /\ lifecycle \in Lifecycles
    /\ handedOver \in HandOvers \cup {NotHandedOver}

\* The lock is held by who uses or changes the model, or by the finalizer that
\* a cancelled one left it to.
ContextInv ==
    /\ \A u \in Users : user[u].at \in Using \cup Changing <=> contextLock = u
    /\ contextLock = "finalizer" <=> handedOver.pending

\* Nothing loads or unloads where the model is used, ...
ChangeInv ==
    /\ \A u \in Users : user[u].at \in Using => lifecycle = Idle
    /\ handedOver.pending /\ handedOver.workers # {} =>
          lifecycle = Idle /\ handedOver.of = Idle
    /\ contextLock = "free" => lifecycle = Idle

\* ... and a thread belongs to who uses it, or is the one the finalizer awaits.
ThreadInv ==
    \A u \in Users : thread[u] # 0 =>
        /\ thread[u] = resident.id
        /\ \/ user[u].at \in Using
           \/ handedOver.pending /\ handedOver.workers = {u}

ModelInv == ModelTyped /\ ContextInv /\ ChangeInv /\ ThreadInv

\* No thread works while the model is loaded or unloaded, or nobody has it.
LEMMA NobodyInfers ==
    ASSUME ModelInv,
           \/ contextLock \in {"free", "cleanup"}
           \/ \E u \in Users : user[u].at \in Changing
           \/ handedOver.pending /\ handedOver.workers = {}
    PROVE  \A u \in Users : thread[u] = 0
  <1> SUFFICES ASSUME NEW u \in Users, thread[u] # 0 PROVE FALSE
    BY DEF ModelInv, ModelTyped
  <1>1. CASE user[u].at \in Using
    <2>1. contextLock = u /\ contextLock \notin {"free", "finalizer", "cleanup"}
      BY <1>1, ModelLoadAssumption DEF ModelInv, ContextInv
    <2>2. ~handedOver.pending
      BY <2>1 DEF ModelInv, ContextInv
    <2>3. PICK v \in Users : user[v].at \in Changing
      BY <2>1, <2>2
    <2>4. contextLock = v
      BY <2>3 DEF ModelInv, ContextInv
    <2> QED
      BY <1>1, <2>1, <2>3, <2>4 DEF Using, Changing
  <1>2. CASE handedOver.pending /\ handedOver.workers = {u}
    <2>1. contextLock = "finalizer" /\ contextLock \notin Users
      BY <1>2, ModelLoadAssumption DEF ModelInv, ContextInv
    <2>2. \A v \in Users : user[v].at \notin Changing
      BY <2>1 DEF ModelInv, ContextInv
    <2> QED
      BY <1>2, <2>1, <2>2
  <1> QED
    BY <1>1, <1>2 DEF ModelInv, ThreadInv

\* A use, a load or an unload is the only one.
LEMMA OneHolder ==
    ASSUME ModelInv, NEW u \in Users, contextLock = u
    PROVE  /\ ~handedOver.pending
           /\ contextLock \notin {"free", "finalizer", "cleanup"}
           /\ \A v \in Users \ {u} : thread[v] = 0 /\ user[v].at \notin Using \cup Changing
  <1>1. contextLock \notin {"free", "finalizer", "cleanup"}
    BY ModelLoadAssumption
  <1>2. ~handedOver.pending
    BY <1>1 DEF ModelInv, ContextInv
  <1>3. \A v \in Users \ {u} : user[v].at \notin Using \cup Changing
    BY DEF ModelInv, ContextInv
  <1>4. \A v \in Users \ {u} : thread[v] = 0
    BY <1>2, <1>3 DEF ModelInv, ThreadInv, ModelTyped
  <1> QED
    BY <1>1, <1>2, <1>3, <1>4

\* A user who is not out has a seat, and can move to another.
LEMMA SeatOf ==
    ASSUME ModelTyped, NEW u \in Users, user[u].at # "out"
    PROVE  /\ user[u] \in Seats
           /\ \A at \in {"waits"} \cup Using \cup Changing : [user[u] EXCEPT !.at = at] \in Seats
  <1>1. user[u] \in Seats
    BY DEF ModelTyped, Out
  <1> QED
    BY <1>1 DEF Seats

\* What moving a user changes.
LEMMA MovesTo ==
    ASSUME ModelTyped, NEW u \in Users, NEW to \in Seats \cup {Out}, Moves(u, to)
    PROVE  /\ user' \in [Users -> Seats \cup {Out}] /\ user'[u] = to
           /\ \A v \in Users \ {u} : user'[v] = user[v]
  BY DEF ModelTyped, Moves

\* A user comes, waits or is refused: nothing but the seat changes, and it is
\* not one that uses or changes the model.
LEMMA WaitingKeeps ==
    ASSUME ModelInv, NEW u \in Users, NEW to \in Seats \cup {Out}, Moves(u, to),
           to.at \notin Using \cup Changing, user[u].at \notin Using \cup Changing,
           UNCHANGED <<resident, contextLock, thread, lifecycle, handedOver, loads>>
    PROVE  ModelInv'
  <1>1. /\ user' \in [Users -> Seats \cup {Out}] /\ user'[u] = to
        /\ \A v \in Users \ {u} : user'[v] = user[v]
    BY MovesTo DEF ModelInv
  <1>2. ModelTyped'
    BY <1>1 DEF ModelInv, ModelTyped
  <1>3. ContextInv'
    BY <1>1 DEF ModelInv, ContextInv
  <1>4. ChangeInv'
    BY <1>1 DEF ModelInv, ChangeInv
  <1>5. ThreadInv'
    BY <1>1 DEF ModelInv, ThreadInv
  <1> QED
    BY <1>2, <1>3, <1>4, <1>5 DEF ModelInv

\* Asking for a model only takes a seat.
LEMMA AskModelKeeps ==
    ASSUME ModelInv, NEW u \in Users, AskModel(u)
    PROVE  ModelInv'
  <1>1. PICK want \in Wants, keep \in BOOLEAN :
           LET scoped == scope.of = u /\ want = "whisper" IN
           Moves(u, [at |-> "waits", want |-> want, keep |-> keep \/ scoped, scoped |-> scoped,
                     barred |-> FALSE])
    BY DEF AskModel, Wants
  <1> DEFINE scoped == scope.of = u /\ want = "whisper"
  <1> DEFINE to == [at |-> "waits", want |-> want, keep |-> keep \/ scoped, scoped |-> scoped,
                    barred |-> FALSE]
  <1>2. to \in Seats /\ to.at = "waits"
    BY DEF Seats
  <1>3. user[u].at = "out"
    <2>1. user[u] = Out
      BY DEF AskModel
    <2>2. Out.at = "out"
      BY DEF Out
    <2> QED
      BY <2>1, <2>2
  <1>4. Moves(u, to)
    BY <1>1
  <1> QED
    BY <1>2, <1>3, <1>4, WaitingKeeps DEF AskModel, Using, Changing

\* Being refused only gives it back.
LEMMA RefusedKeeps ==
    ASSUME ModelInv, NEW u \in Users, Refused(u)
    PROVE  ModelInv'
  <1>1. Out.at = "out"
    BY DEF Out
  <1> QED
    BY <1>1, WaitingKeeps DEF Refused, Using, Changing

\* The lock and its uses after one user has moved to `at`, with the lock if that
\* is where a model is used or changed and without it otherwise.
LEMMA LockMoves ==
    ASSUME ModelInv, NEW u \in Users, NEW to \in Seats \cup {Out}, Moves(u, to),
           contextLock \in {"free", u},
           contextLock' = IF to.at \in Using \cup Changing THEN u ELSE "free",
           UNCHANGED handedOver
    PROVE  /\ ContextInv' /\ ~handedOver'.pending
           /\ user' \in [Users -> Seats \cup {Out}] /\ user'[u] = to
           /\ contextLock' \in Users \cup {"free", "finalizer", "cleanup"}
           /\ \A v \in Users \ {u} :
                 user'[v] = user[v] /\ user[v].at \notin Using \cup Changing /\ thread[v] = 0
  <1>1. /\ user' \in [Users -> Seats \cup {Out}] /\ user'[u] = to
        /\ \A v \in Users \ {u} : user'[v] = user[v]
    BY MovesTo DEF ModelInv
  <1>2. /\ ~handedOver.pending
        /\ \A v \in Users \ {u} : user[v].at \notin Using \cup Changing /\ thread[v] = 0
    <2>1. CASE contextLock = u
      BY <2>1, OneHolder
    <2>2. CASE contextLock = "free"
      <3>1. \A v \in Users : v # "free"
        BY ModelLoadAssumption
      <3> QED
        BY <2>2, <3>1, NobodyInfers DEF ModelInv, ContextInv
    <2> QED
      BY <2>1, <2>2
  <1>3. \A v \in Users : v \notin {"free", "finalizer", "cleanup"}
    BY ModelLoadAssumption
  <1>4. ContextInv'
    BY <1>1, <1>2, <1>3 DEF ContextInv
  <1> QED
    BY <1>1, <1>2, <1>3, <1>4

\* The lock is taken when it is free: then nobody works and nothing changes.
LEMMA EnterModelKeeps ==
    ASSUME ModelInv, NEW u \in Users, EnterModel(u)
    PROVE  ModelInv'
  <1> DEFINE want == user[u].want
  <1> DEFINE drop == want = "nothing" \/ (want = "no exaone" /\ resident.name = "exaone")
  <1>1. /\ user[u].at = "waits" /\ contextLock = "free" /\ ~handedOver.pending
        /\ UNCHANGED <<resident, thread, handedOver, loads>>
    BY DEF EnterModel
  <1>2. user[u] \in Seats /\ \A at \in {"inside", "loads", "unloads"} :
            [user[u] EXCEPT !.at = at] \in Seats /\ [user[u] EXCEPT !.at = at].at = at
    <2>1. ModelTyped /\ user[u].at # "out"
      BY <1>1 DEF ModelInv
    <2>2. user[u] \in Seats
      BY <2>1, SeatOf
    <2> QED
      BY <2>2 DEF Seats, Using, Changing
  <1>3. lifecycle = Idle /\ \A v \in Users : thread[v] = 0
    BY <1>1, NobodyInfers DEF ModelInv, ChangeInv
  <1>4. \/ /\ contextLock' = u /\ Moves(u, [user[u] EXCEPT !.at = "inside"])
           /\ UNCHANGED lifecycle
        \/ /\ contextLock' = u
           /\ lifecycle' = IF resident = NoModel THEN Loading(want) ELSE Unloading
           /\ want \in Names \/ (drop /\ resident # NoModel)
           /\ Moves(u, [user[u] EXCEPT !.at = IF want \in Names THEN "loads" ELSE "unloads"])
        \/ Moves(u, Out) /\ UNCHANGED <<contextLock, lifecycle>>
    BY DEF EnterModel
  <1>5. PICK to \in Seats \cup {Out} :
           /\ Moves(u, to) /\ lifecycle' \in Lifecycles
           /\ contextLock' = IF to.at \in Using \cup Changing THEN u ELSE "free"
           /\ to.at \notin Changing => lifecycle' = Idle
    <2>1. CASE /\ contextLock' = u /\ Moves(u, [user[u] EXCEPT !.at = "inside"])
               /\ UNCHANGED lifecycle
      BY <1>2, <1>3, <2>1 DEF Using, Changing, Lifecycles
    <2>2. CASE Moves(u, Out) /\ UNCHANGED <<contextLock, lifecycle>>
      BY <1>1, <1>3, <2>2 DEF Using, Changing, Lifecycles, Out
    <2>3. CASE /\ contextLock' = u
               /\ lifecycle' = IF resident = NoModel THEN Loading(want) ELSE Unloading
               /\ want \in Names \/ (drop /\ resident # NoModel)
               /\ Moves(u, [user[u] EXCEPT !.at = IF want \in Names THEN "loads" ELSE "unloads"])
      <3>1. PICK at \in {"loads", "unloads"} :
               Moves(u, [user[u] EXCEPT !.at = at])
        BY <2>3
      <3>2. lifecycle' \in Lifecycles
        BY <1>2, <2>3 DEF Lifecycles, Seats
      <3> QED
        BY <1>2, <2>3, <3>1, <3>2 DEF Using, Changing
    <2> QED
      BY <1>4, <2>1, <2>2, <2>3
  <1>6. /\ ContextInv' /\ ~handedOver'.pending
        /\ user' \in [Users -> Seats \cup {Out}] /\ user'[u] = to
        /\ contextLock' \in Users \cup {"free", "finalizer", "cleanup"}
        /\ \A v \in Users \ {u} :
              user'[v] = user[v] /\ user[v].at \notin Using \cup Changing /\ thread[v] = 0
    BY <1>1, <1>5, LockMoves
  <1>7. ModelTyped'
    BY <1>1, <1>5, <1>6 DEF ModelInv, ModelTyped
  <1>8. ChangeInv'
    <2>1. \A v \in Users : user'[v].at \in Using => lifecycle' = Idle
      BY <1>5, <1>6 DEF Using, Changing
    <2>2. contextLock' = "free" => to.at \notin Changing
      BY <1>5, ModelLoadAssumption
    <2> QED
      BY <1>5, <1>6, <2>1, <2>2 DEF ChangeInv
  <1>9. ThreadInv'
    BY <1>1, <1>3 DEF ThreadInv
  <1> QED
    BY <1>6, <1>7, <1>8, <1>9 DEF ModelInv

\* A thread that loads or unloads has ended: nobody worked meanwhile.
LEMMA LifecycleEndsKeeps ==
    ASSUME ModelInv, NEW u \in Users, LifecycleEnds(u)
    PROVE  ModelInv'
  <1>1. /\ contextLock = u /\ user[u].at \in Changing /\ user[u].at # "out"
        /\ lifecycle \in Lifecycles \ {Idle} /\ loads \in Nat
        /\ UNCHANGED <<thread, handedOver>>
    BY DEF LifecycleEnds, Changing, ModelInv, ModelTyped
  <1>2. user[u] \in Seats /\ user[u].want \in Wants
        /\ [user[u] EXCEPT !.at = "inside"] \in Seats
        /\ [user[u] EXCEPT !.at = "inside"].at = "inside"
    <2>1. user[u] \in Seats
      BY <1>1, SeatOf DEF ModelInv
    <2> QED
      BY <2>1 DEF Seats, Using
  <1>3. \A v \in Users : thread[v] = 0
    BY <1>1, NobodyInfers
  <1>4. \/ /\ lifecycle' = Loading(user[u].want) /\ resident' = NoModel
           /\ UNCHANGED <<contextLock, user, loads>>
        \/ /\ lifecycle' = Idle /\ contextLock' = "free" /\ Moves(u, Out)
           /\ resident' \in {resident, NoModel} /\ UNCHANGED loads
        \/ /\ lifecycle' = Idle /\ UNCHANGED contextLock
           /\ Moves(u, [user[u] EXCEPT !.at = "inside"])
           /\ lifecycle # Unloading
           /\ loads' = loads + 1 /\ resident' = [name |-> lifecycle.name, id |-> loads']
    BY DEF LifecycleEnds
  <1>5. NoModel \in [name : Wants \cup {"none"}, id : Nat]
    BY DEF NoModel
  <1>6. ThreadInv'
    BY <1>1, <1>3 DEF ThreadInv
  <1>7. CASE /\ lifecycle' = Loading(user[u].want) /\ resident' = NoModel
             /\ UNCHANGED <<contextLock, user, loads>>
    <2>1. lifecycle' \in Lifecycles
      BY <1>2, <1>7 DEF Lifecycles
    <2>2. ModelTyped'
      BY <1>1, <1>5, <1>7, <2>1 DEF ModelInv, ModelTyped
    <2>3. ContextInv'
      BY <1>1, <1>7 DEF ModelInv, ContextInv
    <2>4. ~handedOver.pending /\ u # "free"
          /\ \A v \in Users : user[v].at \notin Using
      BY <1>1, OneHolder DEF Using, Changing
    <2>5. ChangeInv'
      BY <1>1, <1>7, <2>4 DEF ChangeInv
    <2> QED
      BY <1>6, <2>2, <2>3, <2>5 DEF ModelInv
  <1>8. CASE lifecycle' = Idle
    <2>1. PICK to \in Seats \cup {Out} :
             /\ Moves(u, to)
             /\ contextLock' = IF to.at \in Using \cup Changing THEN u ELSE "free"
             /\ resident' \in [name : Wants \cup {"none"}, id : Nat] /\ loads' \in Nat
      <3>1. CASE /\ contextLock' = "free" /\ Moves(u, Out)
                 /\ resident' \in {resident, NoModel} /\ UNCHANGED loads
        <4>1. Out.at \notin Using \cup Changing
          BY DEF Out, Using, Changing
        <4> QED
          BY <1>1, <1>5, <3>1, <4>1 DEF ModelInv, ModelTyped
      <3>2. CASE /\ UNCHANGED contextLock
                 /\ Moves(u, [user[u] EXCEPT !.at = "inside"]) /\ lifecycle # Unloading
                 /\ loads' = loads + 1 /\ resident' = [name |-> lifecycle.name, id |-> loads']
        <4>1. lifecycle.name \in Wants
          BY <1>1, <3>2 DEF Lifecycles, Loading
        <4>2. resident' \in [name : Wants \cup {"none"}, id : Nat] /\ loads' \in Nat
          BY <1>1, <3>2, <4>1
        <4> QED
          BY <1>1, <1>2, <3>2, <4>2 DEF Using
      <3>3. Loading(user[u].want) # Idle
        BY DEF Loading, Idle
      <3> QED
        BY <1>4, <1>8, <3>1, <3>2, <3>3
    <2>2. /\ ContextInv' /\ ~handedOver'.pending
          /\ user' \in [Users -> Seats \cup {Out}]
          /\ contextLock' \in Users \cup {"free", "finalizer", "cleanup"}
      BY <1>1, <2>1, LockMoves
    <2>3. ModelTyped'
      BY <1>1, <1>8, <2>1, <2>2 DEF ModelInv, ModelTyped, Lifecycles
    <2>4. ChangeInv'
      BY <1>8, <2>2 DEF ChangeInv
    <2> QED
      BY <1>6, <2>2, <2>3, <2>4 DEF ModelInv
  <1> QED
    BY <1>4, <1>7, <1>8

\* What a cancelled user leaves to the finalizer.
LEMMA HandOverKeeps ==
    ASSUME ModelInv, NEW u \in Users, NEW workers \in SUBSET {u}, NEW unload \in BOOLEAN,
           NEW of \in Lifecycles, contextLock = u,
           HandOver(workers, unload, of), Moves(u, Out),
           \A v \in Users : thread[v] # 0 => v \in workers,
           workers # {} => lifecycle = Idle /\ of = Idle,
           UNCHANGED <<resident, thread, lifecycle, loads>>
    PROVE  ModelInv'
  <1>1. /\ user' \in [Users -> Seats \cup {Out}] /\ user'[u].at = "out"
        /\ \A v \in Users \ {u} : user'[v] = user[v]
    <2>1. Out.at = "out"
      BY DEF Out
    <2> QED
      BY <2>1, MovesTo DEF ModelInv
  <1>2. /\ contextLock' = "finalizer"
        /\ handedOver' \in HandOvers /\ handedOver'.pending
        /\ handedOver'.workers = workers /\ handedOver'.of = of
    BY DEF HandOver, HandOvers
  <1>3. \A v \in Users : v # "finalizer" /\ v # "free"
    BY ModelLoadAssumption
  <1>4. \A v \in Users \ {u} : user[v].at \notin Using \cup Changing
    BY OneHolder
  <1>5. ModelTyped'
    BY <1>1, <1>2 DEF ModelInv, ModelTyped
  <1>6. \A v \in Users : user'[v].at \notin Using \cup Changing
    BY <1>1, <1>4 DEF Using, Changing
  <1>7. ContextInv'
    BY <1>2, <1>3, <1>6 DEF ContextInv
  <1>8. ChangeInv'
    BY <1>2, <1>6 DEF ChangeInv
  <1>9. ThreadInv'
    BY <1>2 DEF ModelInv, ThreadInv
  <1> QED
    BY <1>5, <1>7, <1>8, <1>9 DEF ModelInv

\* Nobody works while a model is loaded or unloaded, also when its loader is cancelled.
LEMMA CancelLifecycleKeeps ==
    ASSUME ModelInv, NEW u \in Users, CancelLifecycle(u)
    PROVE  ModelInv'
  <1>1. \A v \in Users : thread[v] = 0
    BY NobodyInfers DEF CancelLifecycle, Changing
  <1>2. lifecycle \in Lifecycles /\ (lifecycle # Unloading) \in BOOLEAN
    BY DEF ModelInv, ModelTyped
  <1> QED
    BY <1>1, <1>2, HandOverKeeps DEF CancelLifecycle

\* A user moves from one use of the model to another.
LEMMA UseMoves ==
    ASSUME ModelInv, NEW u \in Users, user[u].at \in Using,
           NEW at \in Using, NEW barred \in BOOLEAN,
           Moves(u, [user[u] EXCEPT !.at = at, !.barred = barred]),
           UNCHANGED <<resident, contextLock, lifecycle, handedOver, loads>>
    PROVE  /\ ContextInv' /\ ChangeInv'
           /\ user' \in [Users -> Seats \cup {Out}] /\ user'[u].at \in Using
           /\ \A v \in Users \ {u} : user'[v] = user[v] /\ thread[v] = 0
  <1> DEFINE to == [user[u] EXCEPT !.at = at, !.barred = barred]
  <1>1. contextLock = u /\ lifecycle = Idle
    BY DEF ModelInv, ContextInv, ChangeInv
  <1>2. to \in Seats /\ to.at = at
    <2>1. user[u].at # "out"
      BY DEF Using
    <2>2. user[u] \in Seats
      BY <2>1, SeatOf DEF ModelInv
    <2> QED
      BY <2>2 DEF Seats
  <1> HIDE DEF to
  <1>3. Moves(u, to)
    BY DEF to
  <1>4. /\ ContextInv' /\ ~handedOver'.pending
        /\ user' \in [Users -> Seats \cup {Out}] /\ user'[u] = to
        /\ \A v \in Users \ {u} : user'[v] = user[v] /\ thread[v] = 0
    BY <1>1, <1>2, <1>3, LockMoves
  <1>5. ChangeInv'
    BY <1>1, <1>4 DEF ChangeInv
  <1> QED
    BY <1>2, <1>4, <1>5

\* A new thread works on the model that is there, and nobody else has one.
LEMMA InferKeeps ==
    ASSUME ModelInv, NEW u \in Users, Infer(u)
    PROVE  ModelInv'
  <1>1. /\ user[u].at \in Using /\ thread' = [thread EXCEPT ![u] = resident.id]
        /\ Moves(u, [user[u] EXCEPT !.at = "infers"])
        /\ UNCHANGED <<resident, contextLock, lifecycle, handedOver, loads>>
    BY DEF Infer, Using
  <1>2. /\ user[u].barred \in BOOLEAN
        /\ Moves(u, [user[u] EXCEPT !.at = "infers", !.barred = user[u].barred])
    <2>1. user[u].at # "out"
      BY <1>1 DEF Using
    <2>2. user[u] \in Seats
      BY <2>1, SeatOf DEF ModelInv
    <2>3. [user[u] EXCEPT !.at = "infers", !.barred = user[u].barred]
             = [user[u] EXCEPT !.at = "infers"]
      BY <2>2 DEF Seats
    <2> QED
      BY <1>1, <2>2, <2>3 DEF Seats
  <1>3. /\ ContextInv' /\ ChangeInv'
        /\ user' \in [Users -> Seats \cup {Out}] /\ user'[u].at \in Using
        /\ \A v \in Users \ {u} : user'[v] = user[v] /\ thread[v] = 0
    BY <1>1, <1>2, UseMoves DEF Using
  <1>4. ModelTyped'
    BY <1>1, <1>3 DEF ModelInv, ModelTyped
  <1>5. ThreadInv'
    BY <1>1, <1>3 DEF ModelInv, ModelTyped, ThreadInv
  <1> QED
    BY <1>3, <1>4, <1>5 DEF ModelInv

\* A thread that ends is missed by nobody.
LEMMA ThreadEndsKeeps ==
    ASSUME ModelInv, NEW u \in Users, ThreadEnds(u)
    PROVE  ModelInv'
  <1>1. /\ thread' = [thread EXCEPT ![u] = 0] /\ thread' \in [Users -> Nat]
        /\ UNCHANGED <<resident, contextLock, lifecycle, handedOver, loads>>
    BY DEF ThreadEnds, ModelInv, ModelTyped
  <1>2. CASE user[u].at = "infers"
    <2>1. user[u].at \in Using /\ user[u].at # "out"
      BY <1>2 DEF Using
    <2>2. user[u] \in Seats
      BY <2>1, SeatOf DEF ModelInv
    <2>3. /\ user[u].barred \in BOOLEAN
          /\ Moves(u, [user[u] EXCEPT !.at = "inside", !.barred = user[u].barred])
      <3>1. [user[u] EXCEPT !.at = "inside", !.barred = user[u].barred]
               = [user[u] EXCEPT !.at = "inside"]
        BY <2>2 DEF Seats
      <3>2. user' = [user EXCEPT ![u] = [user[u] EXCEPT !.at = "inside"]]
        BY <1>2 DEF ThreadEnds
      <3> QED
        BY <2>2, <3>1, <3>2 DEF Seats, Moves
    <2>4. /\ ContextInv' /\ ChangeInv'
          /\ user' \in [Users -> Seats \cup {Out}]
          /\ \A v \in Users \ {u} : user'[v] = user[v] /\ thread[v] = 0
      BY <1>1, <2>1, <2>3, UseMoves DEF Using
    <2>5. ModelTyped'
      BY <1>1, <2>4 DEF ModelInv, ModelTyped
    <2>6. ThreadInv'
      BY <1>1, <2>4 DEF ModelInv, ModelTyped, ThreadInv
    <2> QED
      BY <2>4, <2>5, <2>6 DEF ModelInv
  <1>3. CASE user[u].at # "infers"
    <2>1. user' = user
      BY <1>3 DEF ThreadEnds
    <2>2. ModelTyped' /\ ContextInv' /\ ChangeInv'
      BY <1>1, <2>1 DEF ModelInv, ModelTyped, ContextInv, ChangeInv
    <2>3. ThreadInv'
      BY <1>1, <2>1 DEF ModelInv, ModelTyped, ThreadInv
    <2> QED
      BY <2>2, <2>3 DEF ModelInv
  <1> QED
    BY <1>2, <1>3

\* The thread goes on within the use it was started in.
LEMMA CancelInferenceKeeps ==
    ASSUME ModelInv, NEW u \in Users, CancelInference(u)
    PROVE  ModelInv'
  <1>1. /\ user[u].at \in Using /\ UNCHANGED thread
        /\ Moves(u, [user[u] EXCEPT !.at = "inside", !.barred = TRUE])
        /\ UNCHANGED <<resident, contextLock, lifecycle, handedOver, loads>>
    BY DEF CancelInference, Using
  <1>2. /\ ContextInv' /\ ChangeInv'
        /\ user' \in [Users -> Seats \cup {Out}] /\ user'[u].at \in Using
        /\ \A v \in Users \ {u} : user'[v] = user[v] /\ thread[v] = 0
    BY <1>1, UseMoves DEF Using
  <1>3. ModelTyped' /\ ThreadInv'
    BY <1>1, <1>2 DEF ModelInv, ModelTyped, ThreadInv
  <1> QED
    BY <1>2, <1>3 DEF ModelInv

\* The end of a use, with its thread still at work or without.
LEMMA LeaveModelKeeps ==
    ASSUME ModelInv, NEW u \in Users, NEW raised \in BOOLEAN, LeaveModel(u, raised)
    PROVE  ModelInv'
  <1> DEFINE stays == user[u].keep /\ ~raised
  <1>1. /\ user[u].at \in Using /\ user[u].at # "out" /\ lifecycle = Idle /\ contextLock = u
        /\ UNCHANGED <<resident, thread, loads>>
    BY DEF LeaveModel, Using, ModelInv, ContextInv, ChangeInv
  <1>2. Idle \in Lifecycles /\ Unloading \in Lifecycles /\ (~stays) \in BOOLEAN
        /\ Out.at = "out"
    BY DEF Lifecycles, Out
  <1>3. \A v \in Users \ {u} : thread[v] = 0
    BY <1>1, OneHolder
  <1>4. CASE PendingWorkers(u) # {}
    <2>1. PendingWorkers(u) = {u} /\ HandOver({u}, ~stays, Idle) /\ Moves(u, Out)
          /\ UNCHANGED lifecycle
      BY <1>4 DEF PendingWorkers, LeaveModel
    <2>2. \A v \in Users : thread[v] # 0 => v \in {u}
      BY <1>3
    <2> QED
      BY <1>1, <1>2, <2>1, <2>2, HandOverKeeps
  <1>5. CASE PendingWorkers(u) = {}
    <2>1. \A v \in Users : thread[v] = 0
      BY <1>3, <1>5 DEF PendingWorkers
    <2>2. /\ UNCHANGED handedOver
          /\ \/ contextLock' = "free" /\ Moves(u, Out) /\ UNCHANGED lifecycle
             \/ /\ lifecycle' = Unloading /\ UNCHANGED contextLock
                /\ Moves(u, [user[u] EXCEPT !.at = "unloads"])
      BY <1>5 DEF LeaveModel
    <2>3. PICK to \in Seats \cup {Out} :
             /\ Moves(u, to) /\ to.at \notin Using
             /\ contextLock' = IF to.at \in Using \cup Changing THEN u ELSE "free"
             /\ to.at = "out" => lifecycle' = Idle
      <3>1. CASE contextLock' = "free" /\ Moves(u, Out) /\ UNCHANGED lifecycle
        BY <1>1, <1>2, <3>1 DEF Using, Changing
      <3>2. CASE /\ lifecycle' = Unloading /\ UNCHANGED contextLock
                 /\ Moves(u, [user[u] EXCEPT !.at = "unloads"])
        <4>1. user[u] \in Seats
          BY <1>1, SeatOf DEF ModelInv
        <4>2. [user[u] EXCEPT !.at = "unloads"] \in Seats
              /\ [user[u] EXCEPT !.at = "unloads"].at = "unloads"
          BY <4>1 DEF Seats, Changing
        <4> QED
          BY <1>1, <3>2, <4>2 DEF Using, Changing
      <3> QED
        BY <2>2, <3>1, <3>2
    <2>4. /\ ContextInv' /\ ~handedOver'.pending
          /\ user' \in [Users -> Seats \cup {Out}] /\ user'[u] = to
          /\ contextLock' \in Users \cup {"free", "finalizer", "cleanup"}
          /\ \A v \in Users \ {u} :
                user'[v] = user[v] /\ user[v].at \notin Using \cup Changing
      BY <1>1, <2>2, <2>3, LockMoves
    <2>5. ModelTyped'
      BY <1>1, <1>2, <2>2, <2>4 DEF ModelInv, ModelTyped
    <2>6. ChangeInv'
      <3>1. contextLock' = "free" => to.at \notin Using \cup Changing
        BY <2>3, ModelLoadAssumption
      <3>2. contextLock' = "free" => lifecycle' = Idle
        BY <1>1, <2>2, ModelLoadAssumption
      <3> QED
        BY <2>3, <2>4, <3>2 DEF ChangeInv
    <2>7. ThreadInv'
      BY <1>1, <2>1 DEF ThreadInv
    <2> QED
      BY <2>4, <2>5, <2>6, <2>7 DEF ModelInv
  <1> QED
    BY <1>4, <1>5

\* What the finalizer awaits, and who is not there meanwhile.
LEMMA Finalizing ==
    ASSUME ModelInv, handedOver.pending
    PROVE  /\ handedOver \in HandOvers /\ contextLock = "finalizer"
           /\ \A u \in Users : user[u].at \notin Using \cup Changing
  <1>1. handedOver \in HandOvers
    BY DEF ModelInv, ModelTyped, NotHandedOver
  <1>2. contextLock = "finalizer" /\ contextLock \notin Users
    BY ModelLoadAssumption DEF ModelInv, ContextInv
  <1>3. \A u \in Users : user[u].at \notin Using \cup Changing
    BY <1>2 DEF ModelInv, ContextInv
  <1> QED
    BY <1>1, <1>2, <1>3

\* The finalizer applies what a thread did after all threads have ended.
LEMMA AppliedKeeps ==
    ASSUME ModelInv, Applied
    PROVE  ModelInv'
  <1>1. /\ handedOver.pending /\ lifecycle' = Idle
        /\ handedOver' = [handedOver EXCEPT !.of = Idle, !.workers = {}]
        /\ UNCHANGED <<contextLock, user, thread>>
    BY DEF Applied
  <1>2. /\ handedOver \in HandOvers /\ contextLock = "finalizer"
        /\ \A u \in Users : user[u].at \notin Using \cup Changing
    BY <1>1, Finalizing
  <1>3. \A u \in Users : thread[u] = 0
    BY <1>2 DEF Applied, ModelInv, ThreadInv
  <1>4. /\ handedOver' \in HandOvers /\ handedOver'.pending /\ handedOver'.workers = {}
    BY <1>1, <1>2 DEF HandOvers, Lifecycles
  <1>5. resident' \in [name : Wants \cup {"none"}, id : Nat] /\ loads' \in Nat
    <2>1. resident \in [name : Wants \cup {"none"}, id : Nat] /\ loads \in Nat
      BY DEF ModelInv, ModelTyped
    <2>2. CASE UNCHANGED <<resident, loads>>
      BY <2>1, <2>2
    <2>3. CASE resident' = NoModel /\ UNCHANGED loads
      BY <2>1, <2>3 DEF NoModel
    <2>4. CASE /\ handedOver.of \notin {Idle, Unloading}
               /\ loads' = loads + 1
               /\ resident' = [name |-> handedOver.of.name, id |-> loads']
      <3>1. handedOver.of \in Lifecycles
        BY <1>2 DEF HandOvers
      <3>2. handedOver.of.name \in Wants
        BY <2>4, <3>1 DEF Lifecycles, Loading
      <3> QED
        BY <2>1, <2>4, <3>2
    <2> QED
      BY <2>2, <2>3, <2>4 DEF Applied
  <1>6. ModelTyped'
    BY <1>1, <1>4, <1>5 DEF ModelInv, ModelTyped, Lifecycles
  <1>7. ContextInv'
    BY <1>1, <1>2, <1>4 DEF ModelInv, ContextInv
  <1>8. ChangeInv' /\ ThreadInv'
    BY <1>1, <1>3, <1>4 DEF ChangeInv, ThreadInv
  <1> QED
    BY <1>6, <1>7, <1>8 DEF ModelInv

\* It unloads, and gives the lock back, without threads.
LEMMA FinalizeKeeps ==
    ASSUME ModelInv, Finalize
    PROVE  ModelInv'
  <1>1. /\ handedOver.pending /\ handedOver.workers = {} /\ UNCHANGED <<user, thread, loads>>
    BY DEF Finalize
  <1>2. /\ contextLock = "finalizer"
        /\ \A u \in Users : user[u].at \notin Using \cup Changing
    BY <1>1, Finalizing
  <1>3. \A u \in Users : thread[u] = 0
    BY <1>1, NobodyInfers
  <1>4. CASE lifecycle' = Unloading /\ UNCHANGED <<resident, contextLock, handedOver>>
    <2>1. ModelTyped' /\ ContextInv'
      BY <1>1, <1>4 DEF ModelInv, ModelTyped, ContextInv, Lifecycles
    <2>2. ChangeInv' /\ ThreadInv'
      BY <1>1, <1>2, <1>3, <1>4 DEF ChangeInv, ThreadInv
    <2> QED
      BY <2>1, <2>2 DEF ModelInv
  <1>5. CASE /\ resident' \in {resident, NoModel} /\ lifecycle' = Idle
             /\ handedOver' = NotHandedOver /\ contextLock' = "free"
    <2>1. ModelTyped'
      BY <1>1, <1>5 DEF ModelInv, ModelTyped, Lifecycles, NoModel
    <2>2. \A u \in Users : u # "free"
      BY ModelLoadAssumption
    <2>3. ~handedOver'.pending
      BY <1>5 DEF NotHandedOver
    <2>4. ContextInv'
      BY <1>1, <1>2, <1>5, <2>2, <2>3 DEF ContextInv
    <2>5. ChangeInv' /\ ThreadInv'
      BY <1>1, <1>3, <1>5, <2>3 DEF ChangeInv, ThreadInv
    <2> QED
      BY <2>1, <2>4, <2>5 DEF ModelInv
  <1> QED
    BY <1>4, <1>5 DEF Finalize

\* A residency scope that closes only notes what is to be unloaded.
LEMMA ScopeKeeps ==
    ASSUME ModelInv,
           UNCHANGED <<resident, contextLock, user, thread, lifecycle, handedOver, loads>>
    PROVE  ModelInv'
  BY DEF ModelInv, ModelTyped, ContextInv, ChangeInv, ThreadInv

\* A closed scope's model is unloaded under the free lock or by the finalizer.
LEMMA UnloadOwnedKeeps ==
    ASSUME ModelInv, NEW id \in leaving, UnloadOwned(id)
    PROVE  ModelInv'
  <1>1. UNCHANGED <<resident, user, thread, loads>>
    BY DEF UnloadOwned
  <1>2. CASE UNCHANGED <<handedOver, contextLock, lifecycle>>
    BY <1>1, <1>2, ScopeKeeps
  <1>3. CASE /\ handedOver.pending /\ handedOver' = [handedOver EXCEPT !.unload = TRUE]
             /\ UNCHANGED <<contextLock, lifecycle>>
    <2>1. handedOver \in HandOvers
      BY <1>3, Finalizing
    <2>2. /\ handedOver' \in HandOvers /\ handedOver'.pending
          /\ handedOver'.workers = handedOver.workers /\ handedOver'.of = handedOver.of
      BY <1>3, <2>1 DEF HandOvers
    <2>3. ModelTyped' /\ ContextInv'
      BY <1>1, <1>3, <2>2 DEF ModelInv, ModelTyped, ContextInv
    <2>4. ChangeInv'
      BY <1>1, <1>3, <2>2 DEF ModelInv, ChangeInv
    <2>5. ThreadInv'
      BY <1>1, <1>3, <2>2 DEF ModelInv, ThreadInv
    <2> QED
      BY <2>3, <2>4, <2>5 DEF ModelInv
  <1>4. CASE /\ ~handedOver.pending /\ contextLock = "free"
             /\ contextLock' = "cleanup" /\ lifecycle' = Unloading
             /\ UNCHANGED handedOver
    <2>1. \A u \in Users : thread[u] = 0
      BY <1>4, NobodyInfers
    <2>2. \A u \in Users : u # "free" /\ u # "cleanup"
      BY ModelLoadAssumption
    <2>3. \A u \in Users : user[u].at \notin Using \cup Changing
      BY <1>4, <2>2 DEF ModelInv, ContextInv
    <2>4. ModelTyped'
      BY <1>1, <1>4 DEF ModelInv, ModelTyped, Lifecycles
    <2>5. ContextInv'
      BY <1>1, <1>4, <2>2, <2>3 DEF ModelInv, ContextInv
    <2>6. ChangeInv' /\ ThreadInv'
      BY <1>1, <1>4, <2>1, <2>3 DEF ChangeInv, ThreadInv
    <2> QED
      BY <2>4, <2>5, <2>6 DEF ModelInv
  <1> QED
    BY <1>2, <1>3, <1>4 DEF UnloadOwned

\* So it is when that unload ends.
LEMMA OwnedUnloadedKeeps ==
    ASSUME ModelInv, NEW id \in leaving, OwnedUnloaded(id)
    PROVE  ModelInv'
  <1>1. /\ contextLock = "cleanup" /\ contextLock' = "free" /\ lifecycle' = Idle
        /\ resident' = NoModel /\ UNCHANGED <<user, thread, handedOver, loads>>
    BY DEF OwnedUnloaded
  <1>2. \A u \in Users : thread[u] = 0
    BY <1>1, NobodyInfers
  <1>3. \A u \in Users : u # "free" /\ u # "cleanup"
    BY ModelLoadAssumption
  <1>4. \A u \in Users : user[u].at \notin Using \cup Changing
    BY <1>1, <1>3 DEF ModelInv, ContextInv
  <1>5. ~handedOver.pending
    BY <1>1 DEF ModelInv, ContextInv
  <1>6. ModelTyped'
    BY <1>1 DEF ModelInv, ModelTyped, Lifecycles, NoModel
  <1>7. ContextInv'
    BY <1>1, <1>3, <1>4, <1>5 DEF ContextInv
  <1>8. ChangeInv' /\ ThreadInv'
    BY <1>1, <1>2, <1>5 DEF ChangeInv, ThreadInv
  <1> QED
    BY <1>6, <1>7, <1>8 DEF ModelInv

\* A manager that has just started.
LEMMA ModelInitInv ==
    ASSUME ModelInit
    PROVE  ModelInv
  <1>1. Out.at = "out" /\ ~NotHandedOver.pending
    BY DEF Out, NotHandedOver
  <1>2. \A u \in Users : u # "free" /\ user[u] = Out
    BY ModelLoadAssumption DEF ModelInit
  <1>3. ModelTyped
    BY DEF ModelInit, ModelTyped, Lifecycles, NoModel
  <1>4. ContextInv
    BY <1>1, <1>2 DEF ModelInit, ContextInv, Using, Changing
  <1>5. ChangeInv /\ ThreadInv
    BY <1>1, <1>2 DEF ModelInit, ChangeInv, ThreadInv, Using
  <1> QED
    BY <1>3, <1>4, <1>5 DEF ModelInv

\* Every step of the manager, of its users and of the threads.
LEMMA ModelStep ==
    ASSUME ModelInv, [ModelNext]_modelVars
    PROVE  ModelInv'
  <1>1. CASE UNCHANGED modelVars
    BY <1>1, ScopeKeeps DEF modelVars
  <1>2. ASSUME NEW u \in Users,
               \/ AskModel(u) \/ Refused(u) \/ EnterModel(u)
               \/ LifecycleEnds(u) \/ CancelLifecycle(u)
               \/ Infer(u) \/ ThreadEnds(u) \/ CancelInference(u)
               \/ \E raised \in BOOLEAN : LeaveModel(u, raised)
               \/ OpenScope(u)
        PROVE  ModelInv'
    <2>1. CASE AskModel(u) \/ Refused(u) \/ EnterModel(u)
      BY <2>1, AskModelKeeps, RefusedKeeps, EnterModelKeeps
    <2>2. CASE LifecycleEnds(u) \/ CancelLifecycle(u)
      BY <2>2, LifecycleEndsKeeps, CancelLifecycleKeeps
    <2>3. CASE Infer(u) \/ ThreadEnds(u) \/ CancelInference(u)
      BY <2>3, InferKeeps, ThreadEndsKeeps, CancelInferenceKeeps
    <2>4. CASE \E raised \in BOOLEAN : LeaveModel(u, raised)
      BY <2>4, LeaveModelKeeps
    <2>5. CASE OpenScope(u)
      BY <2>5, ScopeKeeps DEF OpenScope
    <2> QED
      BY <1>2, <2>1, <2>2, <2>3, <2>4, <2>5
  <1>3. CASE CloseScope
    BY <1>3, ScopeKeeps DEF CloseScope
  <1> QED
    BY <1>1, <1>2, <1>3, AppliedKeeps, FinalizeKeeps, UnloadOwnedKeeps, OwnedUnloadedKeeps
       DEF ModelNext

\* What the invariant says of a thread.
LEMMA ModelHolds ==
    ASSUME ModelInv
    PROVE  ModelsAreNotPulledAway
  <1>1. ASSUME NEW u \in Users, thread[u] # 0
        PROVE  /\ thread[u] = resident.id /\ lifecycle = Idle
               /\ \A v \in Users \ {u} : thread[v] = 0
    <2>1. CASE user[u].at \in Using
      BY <1>1, <2>1, OneHolder DEF ModelInv, ContextInv, ChangeInv, ThreadInv
    <2>2. CASE handedOver.pending /\ handedOver.workers = {u}
      BY <1>1, <2>2, Finalizing DEF ModelInv, ChangeInv, ThreadInv
    <2> QED
      BY <1>1, <2>1, <2>2 DEF ModelInv, ThreadInv
  <1>2. contextLock \in Users =>
            user[contextLock].at \in {"loads", "unloads", "inside", "infers"}
    BY DEF ModelInv, ContextInv, Using, Changing
  <1>3. (contextLock = "finalizer") = handedOver.pending
    <2>1. handedOver.pending \in BOOLEAN
      <3>1. NotHandedOver.pending = FALSE /\ \A h \in HandOvers : h.pending = TRUE
        BY DEF NotHandedOver, HandOvers
      <3>2. handedOver \in HandOvers \/ handedOver = NotHandedOver
        BY DEF ModelInv, ModelTyped
      <3> QED
        BY <3>1, <3>2
    <2>2. contextLock = "finalizer" <=> handedOver.pending
      BY DEF ModelInv, ContextInv
    <2> QED
      BY <2>1, <2>2
  <1> QED
    BY <1>1, <1>2, <1>3 DEF ModelsAreNotPulledAway

------------------------------------------------------------------------------
(* The speech models. *)

Fetches ==
    {NoFetch, [way |-> "hub"]} \cup
    [way : {"direct"}, file : Files,
     at : {"asks", "receives", "received", "failed", "published"}, cancelled : BOOLEAN]

Jobs == {"none", "downloading", "ready", "error"}

SpeechTyped ==
    /\ fetching \in [SpeechModelIds -> Fetches]
    /\ download \in [SpeechModelIds -> Jobs]

Fetching(m) == fetching[m] # NoFetch

\* A job is under way while its task is, and there is one.
OneFetch ==
    /\ \A m \in SpeechModelIds : download[m] = "downloading" <=> Fetching(m)
    /\ \A m, other \in SpeechModelIds : Fetching(m) /\ Fetching(other) => m = other

SpeechInv == SpeechTyped /\ OneFetch

\* What changes neither a job under way nor a task keeps the invariant.
LEMMA JobsKeep ==
    ASSUME SpeechInv, UNCHANGED fetching, download' \in [SpeechModelIds -> Jobs],
           \A m \in SpeechModelIds :
               download'[m] = "downloading" <=> download[m] = "downloading"
    PROVE  SpeechInv'
  BY DEF SpeechInv, SpeechTyped, OneFetch, Fetching

\* Forgetting an old job.
LEMMA ClearedKeeps ==
    ASSUME SpeechInv, NEW m \in SpeechModelIds, UNCHANGED fetching,
           download' = [download EXCEPT ![m] = Cleared(m)]
    PROVE  SpeechInv'
  <1>1. Cleared(m) \in Jobs /\ (Cleared(m) = "downloading" <=> download[m] = "downloading")
    BY DEF Cleared, Jobs
  <1> QED
    BY <1>1, JobsKeep DEF SpeechInv, SpeechTyped

\* A task moves on.
LEMMA StandsKeeps ==
    ASSUME SpeechInv, NEW m \in SpeechModelIds, Fetching(m), UNCHANGED download,
           NEW to \in Fetches \ {NoFetch}, fetching' = [fetching EXCEPT ![m] = to]
    PROVE  SpeechInv'
  BY DEF SpeechInv, SpeechTyped, OneFetch, Fetching

\* A task ends with its job.
LEMMA SettledKeeps ==
    ASSUME SpeechInv, NEW m \in SpeechModelIds, NEW status \in Jobs \ {"downloading"},
           Settled(m, status)
    PROVE  SpeechInv'
  <1>1. NoFetch \in Fetches
    BY DEF Fetches
  <1> QED
    BY <1>1 DEF SpeechInv, SpeechTyped, OneFetch, Fetching, Settled

\* The record of a direct download, and the same at another place.
LEMMA DirectFetch ==
    ASSUME SpeechInv, NEW m \in SpeechModelIds, fetching[m].way = "direct"
    PROVE  /\ Fetching(m)
           /\ fetching[m] \in [way : {"direct"}, file : Files,
                               at : {"asks", "receives", "received", "failed", "published"},
                               cancelled : BOOLEAN]
           /\ \A to \in [way : {"direct"}, file : Files,
                         at : {"asks", "receives", "received", "failed", "published"},
                         cancelled : BOOLEAN] : to \in Fetches \ {NoFetch}
  <1>1. /\ NoFetch.way = "none" /\ [way |-> "hub"].way = "hub"
    BY DEF NoFetch
  <1>2. fetching[m] \in Fetches
    BY DEF SpeechInv, SpeechTyped
  <1> QED
    BY <1>1, <1>2 DEF Fetches, Fetching

\* The thread of a direct download moves on.
LEMMA DirectMoves ==
    ASSUME SpeechInv, NEW m \in SpeechModelIds, fetching[m].way = "direct",
           NEW at \in {"receives", "received", "failed", "published"},
           Stands(m, at), UNCHANGED download
    PROVE  SpeechInv'
  <1>1. Fetching(m) /\ [fetching[m] EXCEPT !.at = at] \in Fetches \ {NoFetch}
    BY DirectFetch
  <1>2. fetching' = [fetching EXCEPT ![m] = [fetching[m] EXCEPT !.at = at]]
    BY DEF Stands
  <1> QED
    BY <1>1, <1>2, StandsKeeps

\* A download starts where none is under way.
LEMMA StartDownloadKeeps ==
    ASSUME SpeechInv, NEW m \in SpeechModelIds, NEW way \in {"hub", "direct"},
           StartDownload(m, way)
    PROVE  SpeechInv'
  <1>1. PICK fetch \in Fetches \ {NoFetch} : fetching' = [fetching EXCEPT ![m] = fetch]
    <2>1. [way |-> "hub"] \in Fetches \ {NoFetch}
      BY DEF Fetches, NoFetch
    <2>2. [way |-> "direct", file |-> "config", at |-> "asks", cancelled |-> FALSE]
              \in Fetches \ {NoFetch}
      <3>1. [way |-> "direct", file |-> "config", at |-> "asks", cancelled |-> FALSE].way
                = "direct" /\ NoFetch.way = "none"
        BY DEF NoFetch
      <3> QED
        BY <3>1 DEF Fetches, Files
    <2> QED
      BY <2>1, <2>2 DEF StartDownload
  <1>2. \A other \in SpeechModelIds : ~Fetching(other)
    BY DEF StartDownload, Conflict, SpeechInv, OneFetch
  <1>3. download' = [download EXCEPT ![m] = "downloading"]
    BY DEF StartDownload
  <1>4. SpeechTyped'
    BY <1>1, <1>3 DEF SpeechInv, SpeechTyped, Jobs
  <1>5. OneFetch'
    BY <1>1, <1>2, <1>3 DEF SpeechInv, SpeechTyped, OneFetch, Fetching
  <1> QED
    BY <1>4, <1>5 DEF SpeechInv

\* Its task goes on to the next file or ends with its job.
LEMMA ThreadAnswersKeeps ==
    ASSUME SpeechInv, NEW m \in SpeechModelIds, ThreadAnswers(m)
    PROVE  SpeechInv'
  <1>1. fetching[m].way = "direct"
    BY DEF ThreadAnswers, Direct
  <1>2. CASE /\ fetching' = [fetching EXCEPT ![m].file = "weights", ![m].at = "asks"]
             /\ UNCHANGED download
    <2>1. [fetching[m] EXCEPT !.file = "weights", !.at = "asks"] \in Fetches \ {NoFetch}
      BY <1>1, DirectFetch DEF Files
    <2>2. fetching' = [fetching EXCEPT
                          ![m] = [fetching[m] EXCEPT !.file = "weights", !.at = "asks"]]
      BY <1>2 DEF SpeechInv, SpeechTyped
    <2> QED
      BY <1>1, <1>2, <2>1, <2>2, DirectFetch, StandsKeeps
  <1>3. CASE \E status \in {"ready", "error"} : Settled(m, status)
    BY <1>3, SettledKeeps DEF Jobs
  <1> QED
    BY <1>2, <1>3 DEF ThreadAnswers

\* Closing the downloader cancels tasks and ends none.
LEMMA CloseDownloaderKeeps ==
    ASSUME SpeechInv, CloseDownloader
    PROVE  SpeechInv'
  <1>1. \A m \in SpeechModelIds :
            /\ fetching'[m] \in Fetches
            /\ fetching'[m] # NoFetch <=> Fetching(m)
    <2> SUFFICES ASSUME NEW m \in SpeechModelIds
                 PROVE  fetching'[m] \in Fetches /\ (fetching'[m] # NoFetch <=> Fetching(m))
      OBVIOUS
    <2>1. CASE fetching[m].way = "direct"
      <3>1. fetching'[m] = [fetching[m] EXCEPT !.cancelled = TRUE]
        BY <2>1 DEF CloseDownloader
      <3> QED
        BY <2>1, <3>1, DirectFetch
    <2>2. CASE fetching[m].way # "direct"
      BY <2>2 DEF CloseDownloader, SpeechInv, SpeechTyped, Fetching
    <2> QED
      BY <2>1, <2>2
  <1>2. /\ UNCHANGED download
        /\ fetching' = [m \in SpeechModelIds |-> fetching'[m]]
    BY DEF CloseDownloader
  <1>3. SpeechTyped'
    BY <1>1, <1>2 DEF SpeechInv, SpeechTyped
  <1>4. OneFetch'
    BY <1>1, <1>2 DEF SpeechInv, OneFetch, Fetching
  <1> QED
    BY <1>3, <1>4 DEF SpeechInv

\* Every step of downloads, imports, lists and the shutdown.
LEMMA SpeechStep ==
    ASSUME SpeechInv, [SpeechNext]_speechVars
    PROVE  SpeechInv'
  <1>1. CASE UNCHANGED <<fetching, download>>
    BY <1>1, JobsKeep DEF SpeechInv, SpeechTyped
  <1>2. ASSUME NEW m \in SpeechModelIds
        PROVE  /\ StartDownload(m, "hub") \/ StartDownload(m, "direct") => SpeechInv'
               /\ HubEnds(m) => SpeechInv'
               /\ OpenPart(m) \/ EndOfPart(m) \/ PublishPart(m) => SpeechInv'
               /\ ThreadAnswers(m) => SpeechInv'
               /\ ListModels(m) => SpeechInv'
    <2>1. StartDownload(m, "hub") \/ StartDownload(m, "direct") => SpeechInv'
      BY StartDownloadKeeps
    <2>2. ASSUME HubEnds(m) PROVE SpeechInv'
      <3>1. \E status \in {"ready", "error"} : Settled(m, status)
        BY <2>2 DEF HubEnds
      <3> QED
        BY <3>1, SettledKeeps DEF Jobs
    <2>3. ASSUME OpenPart(m) \/ EndOfPart(m) \/ PublishPart(m) PROVE SpeechInv'
      <3>1. /\ fetching[m].way = "direct" /\ UNCHANGED download
            /\ \E at \in {"receives", "received", "failed", "published"} : Stands(m, at)
        BY <2>3 DEF OpenPart, EndOfPart, PublishPart, Direct
      <3> QED
        BY <3>1, DirectMoves
    <2>4. ThreadAnswers(m) => SpeechInv'
      BY ThreadAnswersKeeps
    <2>5. ListModels(m) => SpeechInv'
      BY ClearedKeeps DEF ListModels
    <2> QED
      BY <2>1, <2>2, <2>3, <2>4, <2>5
  <1>3. ASSUME NEW m \in SpeechModelIds, StartImport(m) PROVE SpeechInv'
    BY <1>1, <1>3 DEF StartImport
  <1>4. CASE CopyFile \/ ImportFails
    BY <1>1, <1>4 DEF CopyFile, ImportFails
  <1>5. CASE PlaceFile
    <2>1. UNCHANGED fetching
      BY <1>5 DEF PlaceFile
    <2>2. UNCHANGED download \/ \E m : ImportEnds(m)
      BY <1>5 DEF PlaceFile
    <2>3. ASSUME NEW m, ImportEnds(m) PROVE SpeechInv'
      <3>1. download' = [download EXCEPT ![m] = Cleared(m)]
        BY <2>3 DEF ImportEnds
      <3>2. CASE m \in SpeechModelIds
        BY <2>1, <3>1, <3>2, ClearedKeeps
      <3>3. CASE m \notin SpeechModelIds
        <4>1. UNCHANGED download
          BY <3>1, <3>3 DEF SpeechInv, SpeechTyped
        <4> QED
          BY <1>1, <2>1, <4>1
      <3> QED
        BY <3>2, <3>3
    <2> QED
      BY <1>1, <2>1, <2>2, <2>3
  <1>6. CASE CloseDownloader
    BY <1>6, CloseDownloaderKeeps
  <1>7. CASE UNCHANGED speechVars
    BY <1>1, <1>7 DEF speechVars
  <1> QED
    BY <1>2, <1>3, <1>4, <1>5, <1>6, <1>7 DEF SpeechNext

\* A downloader that has just started.
LEMMA SpeechInitInv ==
    ASSUME SpeechInit
    PROVE  SpeechInv
  BY DEF SpeechInit, SpeechInv, SpeechTyped, OneFetch, Fetching, Fetches, Jobs

\* There is one task at most.
LEMMA SpeechHolds ==
    ASSUME SpeechInv
    PROVE  DownloadsAlone
  <1> DEFINE Tasks == {m \in SpeechModelIds : fetching[m] # NoFetch}
  <1>1. \A m \in SpeechModelIds : (download[m] = "downloading") = (fetching[m] # NoFetch)
    BY DEF SpeechInv, OneFetch, Fetching
  <1>2. Cardinality(Tasks) <= 1
    <2>1. CASE Tasks = {}
      <3>1. Cardinality({}) = 0
        BY FS_EmptySet
      <3> QED
        BY <2>1, <3>1
    <2>2. CASE Tasks # {}
      <3>1. PICK m : m \in Tasks
        BY <2>2
      <3>2. Tasks = {m}
        BY <3>1 DEF SpeechInv, OneFetch, Fetching
      <3>3. Cardinality({m}) = 1
        BY FS_Singleton
      <3> QED
        BY <3>2, <3>3
    <2> QED
      BY <2>1, <2>2
  <1> QED
    BY <1>1, <1>2 DEF DownloadsAlone

------------------------------------------------------------------------------
(* The search: it serves what the meetings say now. *)

Texts == Nat \cup {NoChunks}
SearchStatuses == {"none", "legacy", "pending", "failed", "running", "current"}

IndexTyped ==
    /\ source \in Nat /\ embedJson \in Nat /\ vector \in Texts /\ fts \in Texts
    /\ receipt \in [revision : Nat, state : SearchStatuses \ {"legacy", "pending"}]

\* What embed.json lists is never newer than the source, nor older than the text a
\* receipt calls current.
IndexInv ==
    /\ embedJson <= source
    /\ receipt.state = "current" => receipt.revision <= embedJson

SearchTyped ==
    search \in [at : {"read", "vectors", "filterFts", "words", "answered"}, asked : Nat,
                vector : Texts \cup {UnreadRow}, fts : Texts \cup {UnreadRow},
                status : SearchStatuses, hits : SUBSET Nat]

\* A search under way: what it judges was read, and a status that lets a hit pass
\* was read when embed.json had come to the text that was asked for.
AskedInv ==
    /\ search.asked <= source
    /\ search.at # "read" => search.fts # UnreadRow
    /\ search.at = "vectors" => search.vector # UnreadRow
    /\ search.status = "legacy" => search.asked = 0
    /\ search.status = "current" => search.asked <= embedJson
    /\ \A hit \in search.hits : hit >= search.asked

SearchInv == IndexTyped /\ IndexInv /\ (search = NoSearch \/ (SearchTyped /\ AskedInv))

\* It holds of every index the server may start with.
LEMMA SearchInitInv == SearchInit => SearchInv
  BY DEF SearchInit, SearchInv, IndexTyped, IndexInv, Texts, NoIndexReceipt, SearchStatuses

\* The status is one of those, and "current" only of a receipt of the present text.
LEMMA StatusRead ==
    ASSUME IndexTyped, IndexInv
    PROVE  /\ Status \in SearchStatuses
           /\ Status = "legacy" => source = 0
           /\ Status = "current" => source <= embedJson
  BY DEF IndexTyped, IndexInv, Status, SearchStatuses

\* The source and embed.json only go forward, so that a search under way is not
\* disturbed by what happens to the indexes.
LEMMA IndexMoves ==
    ASSUME SearchInv, IndexTyped', IndexInv', UNCHANGED search,
           source <= source', embedJson <= embedJson'
    PROVE  SearchInv'
  BY DEF SearchInv, IndexTyped, IndexInv, SearchTyped, AskedInv

\* A search that moves leaves the indexes alone.
LEMMA SearchMoves ==
    ASSUME SearchInv, UNCHANGED <<source, vector, fts, embedJson, receipt>>,
           search' = NoSearch \/ (SearchTyped' /\ AskedInv')
    PROVE  SearchInv'
  BY DEF SearchInv, IndexTyped, IndexInv

\* What edits, requests and rows do to the indexes, and the steps of a reindex.
LEMMA ReindexKeeps ==
    ASSUME SearchInv,
           \/ EditUtterance \/ RowTurns \/ TaskTurn \/ ReindexRequest \/ ReindexAll
           \/ ReindexChosen \/ ReindexStep \/ ReindexFails \/ ReindexEnds
    PROVE  SearchInv'
  <1>1. IndexTyped /\ IndexInv
    BY DEF SearchInv
  <1>2. CASE EditUtterance
    BY <1>1, <1>2, IndexMoves DEF EditUtterance, IndexTyped, IndexInv
  <1>3. CASE RowTurns \/ ReindexRequest \/ ReindexAll \/ ReindexChosen
    BY <1>1, <1>3, IndexMoves
       DEF RowTurns, ReindexRequest, ReindexAll, ReindexChosen, IndexTyped, IndexInv
  <1>4. CASE TaskTurn \/ ReindexEnds
    <2>1. /\ UNCHANGED <<source, vector, fts, embedJson, search>>
          /\ receipt' \in {receipt} \cup [revision : {source}, state : {"running", "failed"}]
      BY <1>4 DEF TaskTurn, ReindexEnds
    <2> QED
      BY <1>1, <2>1, IndexMoves DEF IndexTyped, IndexInv, SearchStatuses
  <1>5. CASE ReindexStep
    <2>1. /\ UNCHANGED <<source, search>>
          /\ vector' \in {vector, NoChunks, source} /\ fts' \in {fts, source}
          /\ embedJson' \in {embedJson, source}
          /\ \/ receipt' = receipt
             \/ receipt' = [revision |-> source, state |-> "current"] /\ embedJson' = source
      BY <1>5 DEF ReindexStep, After
    <2>2. IndexTyped'
      BY <1>1, <2>1 DEF IndexTyped, SearchStatuses, Texts
    <2>3. IndexInv' /\ embedJson <= embedJson'
      BY <1>1, <2>1 DEF IndexTyped, IndexInv
    <2> QED
      BY <1>1, <2>1, <2>2, <2>3, IndexMoves DEF IndexTyped
  <1>6. CASE ReindexFails
    <2>1. /\ UNCHANGED <<source, search, embedJson, receipt>>
          /\ vector' \in {vector, NoChunks} /\ fts' \in {fts, NoChunks}
      BY <1>6 DEF ReindexFails
    <2> QED
      BY <1>1, <2>1, IndexMoves DEF IndexTyped, IndexInv, Texts
  <1> QED
    BY <1>2, <1>3, <1>4, <1>5, <1>6

\* A hit that a search accepts is no older than what was asked.
LEMMA AcceptedIsCurrent ==
    ASSUME IndexTyped, SearchTyped, AskedInv,
           NEW hit \in Texts, HitAccepted(hit, search.status)
    PROVE  hit \in Nat /\ hit >= search.asked
  BY DEF IndexTyped, SearchTyped, AskedInv, HitAccepted, Texts

\* The steps of a search.
LEMMA SearchKeeps ==
    ASSUME SearchInv,
           \/ AskSearch \/ ReadVector \/ ReadFts \/ ReadStatus \/ Filter \/ HitsServed
           \/ RestartServer
    PROVE  SearchInv'
  <1>1. IndexTyped /\ IndexInv
    BY DEF SearchInv
  <1>2. CASE HitsServed \/ RestartServer
    BY <1>2, SearchMoves DEF HitsServed, RestartServer
  <1>3. CASE AskSearch
    <2>1. SearchTyped' /\ AskedInv'
      BY <1>1, <1>3 DEF AskSearch, SearchTyped, AskedInv, IndexTyped, SearchStatuses
    <2> QED
      BY <1>3, <2>1, SearchMoves DEF AskSearch
  <1>4. ASSUME search.at \in {"read", "vectors", "filterFts", "words", "answered"}
        PROVE  SearchTyped /\ AskedInv
    BY <1>4 DEF SearchInv, NoSearch
  <1>5. CASE ReadVector
    <2>1. SearchTyped /\ AskedInv
      BY <1>4, <1>5 DEF ReadVector
    <2>2. SearchTyped' /\ AskedInv'
      BY <1>1, <1>5, <2>1 DEF ReadVector, SearchTyped, AskedInv, IndexTyped, Texts
    <2> QED
      BY <1>5, <2>2, SearchMoves DEF ReadVector
  <1>6. CASE ReadFts
    <2>1. SearchTyped /\ AskedInv
      BY <1>4, <1>6 DEF ReadFts
    <2>2. SearchTyped' /\ AskedInv'
      BY <1>1, <1>6, <2>1 DEF ReadFts, SearchTyped, AskedInv, IndexTyped, Texts
    <2> QED
      BY <1>6, <2>2, SearchMoves DEF ReadFts
  <1>7. CASE ReadStatus
    <2>1. SearchTyped /\ AskedInv
      BY <1>4, <1>7 DEF ReadStatus
    <2>2. /\ Status \in SearchStatuses
          /\ Status = "legacy" => search.asked = 0
          /\ Status = "current" => search.asked <= embedJson
      BY <1>1, <2>1, StatusRead DEF SearchTyped, AskedInv, IndexTyped
    <2>3. SearchTyped'
      BY <1>7, <2>1, <2>2 DEF ReadStatus, SearchTyped
    <2>4. /\ search'.asked = search.asked /\ search'.fts = search.fts
          /\ search'.vector = search.vector /\ search'.hits = search.hits
          /\ search'.status = Status /\ UNCHANGED <<source, embedJson>>
          /\ search'.at = IF search.at = "read" THEN "vectors" ELSE "words"
      BY <1>7, <2>1 DEF ReadStatus, SearchTyped
    <2>5. AskedInv'
      BY <1>7, <2>1, <2>2, <2>4 DEF ReadStatus, AskedInv
    <2> QED
      BY <1>7, <2>3, <2>5, SearchMoves DEF ReadStatus
  <1>8. CASE Filter
    <2>1. SearchTyped /\ AskedInv
      BY <1>4, <1>8 DEF Filter
    <2> DEFINE hit == IF search.at = "vectors" THEN search.vector ELSE search.fts
    <2>2. hit \in Texts
      BY <1>8, <2>1 DEF Filter, SearchTyped, AskedInv, Texts
    <2>3. HitAccepted(hit, search.status) => hit \in Nat /\ hit >= search.asked
      BY <1>1, <2>1, <2>2, AcceptedIsCurrent
    <2>4. search' = [search EXCEPT
                     !.at = IF @ = "vectors" THEN "filterFts" ELSE "answered",
                     !.vector = NoChunks, !.fts = IF search.at = "vectors" THEN @ ELSE NoChunks,
                     !.status = "none",
                     !.hits = IF HitAccepted(hit, search.status) THEN @ \cup {hit} ELSE @]
      BY <1>8 DEF Filter
    <2> HIDE DEF hit
    <2>5. SearchTyped'
      BY <2>1, <2>3, <2>4 DEF SearchTyped, Texts, SearchStatuses
    <2>6. /\ search'.asked = search.asked /\ search'.status = "none"
          /\ search'.at # "vectors" /\ search'.fts \in {search.fts, NoChunks}
          /\ search'.hits \subseteq search.hits \cup {hit}
          /\ hit \in search'.hits => hit \in search.hits \/ HitAccepted(hit, search.status)
      BY <2>1, <2>4 DEF SearchTyped
    <2>7. NoChunks # UnreadRow /\ search.fts # UnreadRow
      BY <1>8, <2>1 DEF Filter, AskedInv, NoChunks, UnreadRow
    <2>8. UNCHANGED source
      BY <1>8 DEF Filter
    <2>9. AskedInv'
      BY <2>1, <2>3, <2>6, <2>7, <2>8 DEF AskedInv
    <2> QED
      BY <1>8, <2>5, <2>9, SearchMoves DEF Filter
  <1> QED
    BY <1>2, <1>3, <1>5, <1>6, <1>7, <1>8

\* Every step of edits, reindexing and searches keeps the invariant.
LEMMA SearchStep ==
    ASSUME SearchInv, [SearchNext]_searchVars
    PROVE  SearchInv'
  <1>1. CASE UNCHANGED searchVars
    BY <1>1, IndexMoves DEF SearchInv, IndexTyped, IndexInv, searchVars
  <1> QED
    BY <1>1, ReindexKeeps, SearchKeeps DEF SearchNext

\* The invariant is enough: a search that was accepted found the revision that is
\* current (hybrid_search.py).
LEMMA SearchHolds ==
    ASSUME SearchInv
    PROVE  SearchServesCurrentText
  BY DEF SearchInv, AskedInv, SearchServesCurrentText, NoSearch

------------------------------------------------------------------------------
(* The chat: an answer is not overtaken by what it was made from. *)

AllQuestions == Questions \cup {Streamed}

QuestionSteps ==
    {"idle", "search", "wait", "generate", "generated", "read", "streamed", "answered"}

Tellings == {"none", "no_grounding", "failed", "fallback", "answer", "overtaken"}

Askings ==
    [step : QuestionSteps, epoch : Nat, session : Nat, told : Tellings, told_at : Nat]

WorkerSteps == {"none", "produce", "put", "error", "last", "done"}

\* An exchange the history may hold.
Exchanges ==
    {x \in [epoch : {epoch}, whole : BOOLEAN] : x.whole \/ reader.end = "timeout"}

ChatTyped ==
    /\ epoch \in Nat
    /\ asked \in [AllQuestions -> Askings]
    /\ tokens \in Seq({"token", "end", "error"})
    /\ worker \in [step : WorkerSteps, made : Nat]
    /\ stopped \in BOOLEAN
    /\ reader \in [got : Nat, end : {"none", "end", "error", "timeout", "cancelled"}]

\* The history is of this epoch, and no answer was given for another.
AnswersInv ==
    /\ history \in Seq(Exchanges)
    /\ \A q \in AllQuestions : asked[q].told = "answer" =>
          asked[q].step = "answered" /\ asked[q].epoch = asked[q].told_at

\* Who asks the model has it, and so does a thread that streams.
ModelHeld ==
    /\ \A q \in AllQuestions : At(q, "generate") => model = q
    /\ At(Streamed, "read") => model = Streamed /\ worker.step # "none"
    /\ worker.step \notin {"none", "done"} => model = Streamed

\* What was read, what is queued and what was made add up, unless there was an error;
\* the end comes last, and only a reader that left is spared it.
UnreadTokens == reader.got + Len(tokens)

QueueInv ==
    /\ worker.step = "none" => reader = NoReader /\ tokens = <<>> /\ ~stopped
    /\ stopped => reader.end # "none"
    /\ reader.end = "none" =>
          /\ \A i \in 1..Len(tokens) :
                tokens[i] = "end" => i = Len(tokens) /\ worker.step = "done"
          /\ worker.step = "done" => tokens # <<>> /\ tokens[Len(tokens)] = "end"
          /\ (\A i \in 1..Len(tokens) : tokens[i] # "error") =>
                /\ worker.step = "produce" => UnreadTokens = worker.made
                /\ worker.step = "put" => UnreadTokens + 1 = worker.made
                /\ worker.step = "last" => UnreadTokens = AnswerLength
                /\ worker.step = "done" => UnreadTokens = AnswerLength + 1
    /\ reader.end = "end" => reader.got = AnswerLength
    /\ At(Streamed, "streamed") => reader.end \in {"end", "timeout"}

ChatInv == ChatTyped /\ AnswersInv /\ ModelHeld /\ QueueInv

\* A question takes another step, or is answered.
LEMMA BecomesIs ==
    ASSUME ChatTyped, NEW q \in AllQuestions, NEW question \in Askings, Becomes(q, question)
    PROVE  /\ asked' \in [AllQuestions -> Askings] /\ asked'[q] = question
           /\ \A other \in AllQuestions \ {q} : asked'[other] = asked[other]
  BY DEF ChatTyped, Becomes

\* A step of a question that is neither given an answer nor at the stream.
LEMMA QuestionKeeps ==
    ASSUME ChatInv, NEW q \in AllQuestions, NEW question \in Askings, Becomes(q, question),
           StreamSame, UNCHANGED <<epoch, history>>,
           question.told # "answer",
           ~At(q, "read"),
           question.step \notin {"read", "streamed"},
           \/ question.step # "generate" /\ UNCHANGED model
           \/ question.step = "generate" /\ model = NoQuestion /\ model' = q
           \/ question.step # "generate" /\ At(q, "generate") /\ model' = NoQuestion
              /\ q \in Questions
    PROVE  ChatInv'
  <1>1. /\ asked' \in [AllQuestions -> Askings] /\ asked'[q] = question
        /\ \A other \in AllQuestions \ {q} : asked'[other] = asked[other]
    BY BecomesIs DEF ChatInv
  <1>2. UNCHANGED <<tokens, worker, stopped, reader, epoch, history>>
    BY DEF StreamSame
  <1>3. ChatTyped'
    BY <1>1, <1>2 DEF ChatInv, ChatTyped
  <1>4. AnswersInv'
    <2>1. history' \in Seq(Exchanges)'
      BY <1>2 DEF ChatInv, AnswersInv, Exchanges
    <2> QED
      BY <1>1, <2>1 DEF ChatInv, AnswersInv
  <1>5. Streamed \in AllQuestions /\ NoQuestion \notin AllQuestions
        /\ (q \in Questions => q # Streamed)
    BY ChatAssumption DEF AllQuestions
  <1>6. ModelHeld'
    BY <1>1, <1>2, <1>5 DEF ChatInv, ModelHeld, At
  <1>7. QueueInv'
    BY <1>1, <1>2, <1>5 DEF ChatInv, QueueInv, At, UnreadTokens
  <1> QED
    BY <1>3, <1>4, <1>6, <1>7 DEF ChatInv

\* The steps of a question before it is answered.
LEMMA AskingKeeps ==
    ASSUME ChatInv, NEW q \in AllQuestions,
           \/ Ask(q) \/ FindNothing(q) \/ BuildPrompt(q) \/ AcquireModel(q) \/ Generate(q)
    PROVE  ChatInv'
  <1>1. asked[q] \in Askings /\ epoch \in Nat
    BY DEF ChatInv, ChatTyped
  <1>2. ~At(q, "answered") => asked[q].told # "answer"
    BY DEF ChatInv, AnswersInv, At
  <1>3. ASSUME NEW step \in QuestionSteps
        PROVE  /\ [asked[q] EXCEPT !.step = step] \in Askings
               /\ [asked[q] EXCEPT !.step = step].step = step
               /\ [asked[q] EXCEPT !.step = step].told = asked[q].told
    BY <1>1 DEF Askings
  <1>4. ASSUME NEW told \in Tellings \ {"answer"}, Answered(q, told)
        PROVE  \E question \in Askings :
                   Becomes(q, question) /\ question.told = told /\ question.step = "answered"
    <2> DEFINE question == [asked[q] EXCEPT !.step = "answered", !.told = told, !.told_at = epoch]
    <2>1. question \in Askings /\ question.told = told /\ question.step = "answered"
      BY <1>1 DEF Askings, QuestionSteps
    <2> QED
      BY <1>4, <2>1 DEF Answered
  <1>5. CASE Ask(q)
    <2> DEFINE question == [asked[q] EXCEPT !.step = "search", !.epoch = epoch]
    <2>1. question \in Askings /\ question.step = "search" /\ question.told = asked[q].told
      BY <1>1 DEF Askings, QuestionSteps
    <2>2. At(q, "idle") /\ Becomes(q, question) /\ StreamSame
          /\ UNCHANGED <<epoch, history, model>>
      BY <1>5 DEF Ask
    <2> HIDE DEF question
    <2> QED
      BY <1>2, <2>1, <2>2, QuestionKeeps DEF At
  <1>6. CASE FindNothing(q)
    <2>1. At(q, "search") /\ Answered(q, "no_grounding") /\ StreamSame
          /\ UNCHANGED <<epoch, history, model>>
      BY <1>6 DEF FindNothing
    <2> QED
      BY <1>4, <2>1, QuestionKeeps DEF At, Tellings
  <1>7. CASE BuildPrompt(q)
    <2> DEFINE question == [asked[q] EXCEPT !.step = "wait", !.session = epoch]
    <2>1. question \in Askings /\ question.step = "wait" /\ question.told = asked[q].told
      BY <1>1 DEF Askings, QuestionSteps
    <2>2. At(q, "search") /\ Becomes(q, question) /\ StreamSame
          /\ UNCHANGED <<epoch, history, model>>
      BY <1>7 DEF BuildPrompt
    <2> HIDE DEF question
    <2> QED
      BY <1>2, <2>1, <2>2, QuestionKeeps DEF At
  <1>8. CASE AcquireModel(q)
    <2>1. At(q, "wait") /\ StreamSame /\ UNCHANGED <<epoch, history>>
      BY <1>8 DEF AcquireModel
    <2>2. CASE Answered(q, "failed") /\ UNCHANGED model
      BY <1>4, <2>1, <2>2, QuestionKeeps DEF At, Tellings
    <2>3. CASE /\ model = NoQuestion /\ model' = q
               /\ Becomes(q, [asked[q] EXCEPT !.step = "generate"])
      <3> DEFINE question == [asked[q] EXCEPT !.step = "generate"]
      <3>1. question \in Askings /\ question.step = "generate" /\ question.told = asked[q].told
        BY <1>3 DEF QuestionSteps
      <3>2. Becomes(q, question)
        BY <2>3
      <3> HIDE DEF question
      <3> QED
        BY <1>2, <2>1, <2>3, <3>1, <3>2, QuestionKeeps DEF At
    <2> QED
      BY <1>8, <2>2, <2>3 DEF AcquireModel
  <1>9. CASE Generate(q)
    <2>1. At(q, "generate") /\ StreamSame /\ UNCHANGED <<epoch, history>> /\ model' = NoQuestion
          /\ q \in Questions
      BY <1>9 DEF Generate
    <2>2. CASE Answered(q, "fallback") \/ Answered(q, "failed")
      BY <1>4, <2>1, <2>2, QuestionKeeps DEF At, Tellings
    <2>3. CASE Becomes(q, [asked[q] EXCEPT !.step = "generated"])
      <3> DEFINE question == [asked[q] EXCEPT !.step = "generated"]
      <3>1. question \in Askings /\ question.step = "generated" /\ question.told = asked[q].told
        BY <1>3 DEF QuestionSteps
      <3>2. Becomes(q, question)
        BY <2>3
      <3> HIDE DEF question
      <3> QED
        BY <1>2, <2>1, <3>1, <3>2, QuestionKeeps DEF At
    <2> QED
      BY <1>9, <2>2, <2>3 DEF Generate
  <1> QED
    BY <1>5, <1>6, <1>7, <1>8, <1>9

\* The last exchanges of a history are exchanges of it.
LEMMA LastIs ==
    ASSUME NEW S, NEW s \in Seq(S), NEW n \in Nat
    PROVE  Last(s, n) \in Seq(S)
  <1>1. CASE Len(s) > n
    <2>1. Len(s) \in Nat /\ Len(s) - n + 1 \in Int /\ Len(s) - n + 1 >= 1
      BY <1>1, LenProperties
    <2>2. \A i \in (Len(s) - n + 1)..Len(s) : s[i] \in S
      BY <2>1, ElementOfSeq
    <2>3. SubSeq(s, Len(s) - n + 1, Len(s)) \in Seq(S)
      BY <2>1, <2>2, SubSeqProperties
    <2> QED
      BY <1>1, <2>3 DEF Last
  <1>2. CASE ~(Len(s) > n)
    BY <1>2 DEF Last
  <1> QED
    BY <1>1, <1>2

\* A question is finished: an answer of this epoch, or overtaken.
LEMMA FinishedKeeps ==
    ASSUME ChatInv, NEW q \in AllQuestions, NEW whole \in BOOLEAN,
           whole \/ reader.end = "timeout",
           FinishQuestion(q, whole), UNCHANGED <<epoch, model>>, StreamSame,
           At(q, "generated") \/ At(q, "streamed")
    PROVE  ChatInv'
  <1>1. asked[q] \in Askings /\ epoch \in Nat
    BY DEF ChatInv, ChatTyped
  <1>2. PICK told \in {"answer", "overtaken"} :
            /\ Answered(q, told)
            /\ told = "answer" => asked[q].epoch = epoch /\ AddExchange(q, whole)
            /\ told = "overtaken" => UNCHANGED history
    BY DEF FinishQuestion, StillCurrent, SameEpoch
  <1> DEFINE question == [asked[q] EXCEPT !.step = "answered", !.told = told, !.told_at = epoch]
  <1>3. /\ question \in Askings /\ question.told = told /\ question.step = "answered"
        /\ question.epoch = asked[q].epoch /\ question.told_at = epoch
    BY <1>1 DEF Askings, QuestionSteps, Tellings
  <1>4. Becomes(q, question)
    BY <1>2 DEF Answered
  <1> HIDE DEF question
  <1>5. /\ asked' \in [AllQuestions -> Askings] /\ asked'[q] = question
        /\ \A other \in AllQuestions \ {q} : asked'[other] = asked[other]
    BY <1>3, <1>4, BecomesIs DEF ChatInv
  <1>6. UNCHANGED <<tokens, worker, stopped, reader, epoch, model>>
    BY DEF StreamSame
  <1>7. history' \in Seq(Exchanges)
    <2>1. history \in Seq(Exchanges)
      BY DEF ChatInv, AnswersInv
    <2>2. ASSUME asked[q].epoch = epoch
          PROVE  Last(Append(history, [epoch |-> asked[q].epoch, whole |-> whole]),
                      HistoryPairs) \in Seq(Exchanges)
      <3> DEFINE x == [epoch |-> asked[q].epoch, whole |-> whole]
      <3>1. x \in [epoch : {epoch}, whole : BOOLEAN]
        BY <2>2
      <3>2. x.whole \/ reader.end = "timeout"
        OBVIOUS
      <3>3. x \in Exchanges
        BY <3>1, <3>2 DEF Exchanges
      <3> HIDE DEF x
      <3>4. Append(history, x) \in Seq(Exchanges)
        BY <2>1, <3>3, AppendProperties
      <3>5. Last(Append(history, x), HistoryPairs) \in Seq(Exchanges)
        BY <3>4, LastIs, ChatAssumption
      <3> QED
        BY <3>5 DEF x
    <2> QED
      BY <1>2, <2>1, <2>2 DEF AddExchange
  <1>8. Exchanges' = Exchanges
    BY <1>6 DEF Exchanges
  <1>9. AnswersInv'
    BY <1>2, <1>3, <1>5, <1>7, <1>8 DEF ChatInv, AnswersInv
  <1>10. ChatTyped'
    BY <1>5, <1>6 DEF ChatInv, ChatTyped
  <1>11. Streamed \in AllQuestions
    BY DEF AllQuestions
  <1>12. ModelHeld' /\ QueueInv'
    BY <1>3, <1>5, <1>6, <1>11 DEF ChatInv, ModelHeld, QueueInv, At, UnreadTokens
  <1> QED
    BY <1>9, <1>10, <1>12 DEF ChatInv

\* The answer of a model, whole, and of a stream, whole unless its reader timed out.
LEMMA ReplyKeeps ==
    ASSUME ChatInv, ReplyStreamed \/ \E q \in Questions : Reply(q)
    PROVE  ChatInv'
  <1>1. ASSUME NEW q \in Questions, Reply(q) PROVE ChatInv'
    BY <1>1, FinishedKeeps DEF Reply, AllQuestions
  <1>2. CASE ReplyStreamed
    <2> DEFINE whole == reader.got = AnswerLength
    <2>1. /\ At(Streamed, "streamed") /\ FinishQuestion(Streamed, whole)
          /\ UNCHANGED <<epoch, model>> /\ StreamSame
      BY <1>2 DEF ReplyStreamed
    <2>2. whole \/ reader.end = "timeout"
      BY <2>1 DEF ChatInv, QueueInv
    <2>3. whole \in BOOLEAN /\ Streamed \in AllQuestions
      BY DEF AllQuestions
    <2> HIDE DEF whole
    <2> QED
      BY <2>1, <2>2, <2>3, FinishedKeeps
  <1> QED
    BY <1>1, <1>2

\* What leaves the questions and the history alone.
LEMMA StreamKeeps ==
    ASSUME ChatInv, UNCHANGED <<epoch, history, asked, model>>, ChatTyped',
           reader'.end \in {reader.end, "timeout"} \/ reader.end = "none",
           worker.step # "none" /\ worker'.step # "none",
           worker'.step = "done" \/ worker.step \notin {"none", "done"} \/ UNCHANGED worker,
           QueueInv'
    PROVE  ChatInv'
  <1>1. Exchanges \subseteq Exchanges'
    BY DEF ChatInv, ChatTyped, Exchanges
  <1>2. history' \in Seq(Exchanges')
    BY <1>1, SeqMonotonic DEF ChatInv, AnswersInv
  <1>3. AnswersInv'
    BY <1>2 DEF ChatInv, AnswersInv
  <1>4. ModelHeld'
    BY DEF ChatInv, ModelHeld, At
  <1> QED
    BY <1>3, <1>4 DEF ChatInv

\* The thread of a stream begins with an empty queue.
LEMMA StartStreamKeeps ==
    ASSUME ChatInv, StartStream
    PROVE  ChatInv'
  <1>1. /\ At(Streamed, "generate") /\ worker.step = "none"
        /\ worker' = [step |-> "produce", made |-> 0]
        /\ Becomes(Streamed, [asked[Streamed] EXCEPT !.step = "read"])
        /\ UNCHANGED <<epoch, history, model, tokens, stopped, reader>>
    BY DEF StartStream
  <1>2. Streamed \in AllQuestions
    BY DEF AllQuestions
  <1> DEFINE question == [asked[Streamed] EXCEPT !.step = "read"]
  <1>3. question \in Askings /\ question.step = "read" /\ question.told = asked[Streamed].told
    <2>1. asked[Streamed] \in Askings
      BY <1>2 DEF ChatInv, ChatTyped
    <2> QED
      BY <2>1 DEF Askings, QuestionSteps
  <1>4. Becomes(Streamed, question)
    BY <1>1
  <1> HIDE DEF question
  <1>5. /\ asked' \in [AllQuestions -> Askings] /\ asked'[Streamed] = question
        /\ \A other \in AllQuestions \ {Streamed} : asked'[other] = asked[other]
    BY <1>2, <1>3, <1>4, BecomesIs DEF ChatInv
  <1>6. worker'.step = "produce" /\ worker'.made = 0 /\ worker' \in [step : WorkerSteps, made : Nat]
    BY <1>1 DEF WorkerSteps
  <1>7. ChatTyped'
    BY <1>1, <1>5, <1>6 DEF ChatInv, ChatTyped
  <1>8. asked[Streamed].told # "answer"
    BY <1>1, <1>2 DEF ChatInv, AnswersInv, At
  <1>9. AnswersInv'
    BY <1>1, <1>3, <1>5, <1>8 DEF ChatInv, AnswersInv, Exchanges
  <1>10. ModelHeld'
    BY <1>1, <1>2, <1>3, <1>5, <1>6 DEF ChatInv, ModelHeld, At
  <1>11. QueueInv'
    <2>1. reader = NoReader /\ tokens = <<>> /\ ~stopped
      BY <1>1 DEF ChatInv, QueueInv
    <2>2. reader.got = 0 /\ reader.end = "none" /\ Len(tokens) = 0
      BY <2>1 DEF NoReader
    <2> QED
      BY <1>1, <1>3, <1>5, <1>6, <2>1, <2>2 DEF QueueInv, At, UnreadTokens
  <1> QED
    BY <1>7, <1>9, <1>10, <1>11 DEF ChatInv

\* The thread has another token, the end or an error.
LEMMA ProduceKeeps ==
    ASSUME ChatInv, Produce
    PROVE  ChatInv'
  <1>1. /\ worker.step = "produce" /\ UNCHANGED <<epoch, history, asked, model, tokens, stopped, reader>>
        /\ worker \in [step : WorkerSteps, made : Nat]
    BY DEF Produce, WorkerOnly, ChatInv, ChatTyped
  <1>2. \/ /\ worker'.step = "put" /\ ~stopped /\ worker'.made = worker.made + 1
           /\ worker' \in [step : WorkerSteps, made : Nat]
        \/ /\ worker'.step = "last" /\ stopped
           /\ worker' \in [step : WorkerSteps, made : Nat]
        \/ /\ worker'.step = "last" /\ worker.made = AnswerLength
           /\ worker' \in [step : WorkerSteps, made : Nat]
        \/ worker'.step = "error" /\ worker' \in [step : WorkerSteps, made : Nat]
    <2>1. CASE worker' = [step |-> IF stopped THEN "last" ELSE "put", made |-> worker.made + 1]
      <3>1. worker.made + 1 \in Nat
        BY <1>1
      <3>2. CASE stopped
        <4>1. worker' = [step |-> "last", made |-> worker.made + 1]
          BY <2>1, <3>2
        <4> QED
          BY <3>1, <3>2, <4>1 DEF WorkerSteps
      <3>3. CASE ~stopped
        <4>1. worker' = [step |-> "put", made |-> worker.made + 1]
          BY <2>1, <3>3
        <4> QED
          BY <3>1, <3>3, <4>1 DEF WorkerSteps
      <3> QED
        BY <3>2, <3>3
    <2>2. CASE worker' = [worker EXCEPT !.step = IF worker.made = AnswerLength
                                                 THEN "last" ELSE "error"]
      BY <1>1, <2>2 DEF WorkerSteps
    <2> QED
      BY <1>1, <2>1, <2>2 DEF Produce
  <1>3. ChatTyped'
    BY <1>1, <1>2 DEF ChatInv, ChatTyped
  <1>4. QueueInv'
    BY <1>1, <1>2 DEF ChatInv, QueueInv, At, UnreadTokens
  <1> QED
    BY <1>1, <1>2, <1>3, <1>4, StreamKeeps DEF ChatInv, ChatTyped

\* It puts what it has into the queue, or gives up when the reader has stopped.
LEMMA PutKeeps ==
    ASSUME ChatInv, PutToken \/ EndWorker
    PROVE  ChatInv'
  <1>1. /\ UNCHANGED <<epoch, history, asked, model, stopped, reader>>
        /\ worker \in [step : WorkerSteps, made : Nat]
        /\ tokens \in Seq({"token", "end", "error"}) /\ reader.got \in Nat
    BY DEF PutToken, EndWorker, WorkerOnly, ChatInv, ChatTyped
  <1>2. /\ worker' \in [step : WorkerSteps, made : Nat] /\ worker'.made = worker.made
        /\ worker.step = "put" => worker'.step = "produce"
        /\ worker.step = "error" => worker'.step = "last"
        /\ worker.step = "last" => worker'.step = "done"
        /\ worker.step \in {"put", "error", "last"}
    <2>1. CASE PutToken
      BY <1>1, <2>1 DEF PutToken, WorkerSteps
    <2>2. CASE EndWorker
      BY <1>1, <2>2 DEF EndWorker, WorkerSteps
    <2> QED
      BY <2>1, <2>2
  <1>3. PICK put \in {"token", "end", "error"} :
            /\ (stopped /\ UNCHANGED tokens) \/ (~stopped /\ tokens' = Append(tokens, put))
            /\ worker.step = "put" => put = "token"
            /\ worker.step = "error" => put = "error"
            /\ worker.step = "last" => put = "end"
    <2>1. CASE PutToken
      <3>1. PICK put \in {"token", "error"} :
               /\ put = IF worker.step = "put" THEN "token" ELSE "error"
               /\ (stopped /\ UNCHANGED tokens) \/ (~stopped /\ tokens' = Append(tokens, put))
        BY <2>1 DEF PutToken
      <3> QED
        BY <2>1, <3>1 DEF PutToken
    <2>2. CASE EndWorker
      BY <2>2 DEF EndWorker, SignalDone
    <2> QED
      BY <2>1, <2>2
  <1>4. worker.step \in {"put", "error", "last"}
    BY <1>2
  <1>5. CASE stopped
    <2>1. UNCHANGED tokens /\ reader.end # "none"
      BY <1>3, <1>5 DEF ChatInv, QueueInv
    <2>2. ChatTyped' /\ QueueInv'
      BY <1>1, <1>2, <1>4, <2>1 DEF ChatInv, ChatTyped, QueueInv, At, UnreadTokens
    <2> QED
      BY <1>1, <1>2, <1>4, <2>2, StreamKeeps DEF ChatInv, ChatTyped
  <1>6. CASE ~stopped
    <2>1. /\ tokens' \in Seq({"token", "end", "error"})
          /\ Len(tokens') = Len(tokens) + 1 /\ Len(tokens) \in Nat
          /\ \A i \in 1..Len(tokens) : tokens'[i] = tokens[i]
          /\ tokens'[Len(tokens')] = put /\ tokens' # <<>>
      <3>1. tokens' = Append(tokens, put)
        BY <1>3, <1>6
      <3> QED
        BY <1>1, <3>1, AppendProperties, LenProperties
    <2>2. ChatTyped'
      BY <1>1, <1>2, <2>1 DEF ChatInv, ChatTyped
    <2>3. \A i \in 1..Len(tokens') : i = Len(tokens') \/ i \in 1..Len(tokens)
      BY <2>1
    <2>4. reader.end = "none" => \A i \in 1..Len(tokens) : tokens[i] # "end"
      BY <1>4 DEF ChatInv, QueueInv
    <2>5. reader.end = "none" => \A i \in 1..Len(tokens') :
              tokens'[i] = "end" => i = Len(tokens') /\ worker'.step = "done"
      BY <1>2, <1>3, <2>1, <2>3, <2>4
    <2>6. ASSUME reader.end = "none", \A i \in 1..Len(tokens') : tokens'[i] # "error"
          PROVE  /\ worker'.step = "produce" => UnreadTokens' = worker'.made
                 /\ worker'.step = "put" => UnreadTokens' + 1 = worker'.made
                 /\ worker'.step = "last" => UnreadTokens' = AnswerLength
                 /\ worker'.step = "done" => UnreadTokens' = AnswerLength + 1
      <3>1. \A i \in 1..Len(tokens) : tokens[i] # "error"
        BY <2>1, <2>6
      <3>2. put # "error"
        <4>1. Len(tokens') \in 1..Len(tokens')
          BY <2>1
        <4> QED
          BY <2>1, <2>6, <4>1
      <3>3. UnreadTokens' = UnreadTokens + 1 /\ UnreadTokens \in Nat
        <4>1. UNCHANGED reader /\ reader.got \in Nat /\ Len(tokens) \in Nat
          BY <1>1, <2>1
        <4> QED
          BY <2>1, <4>1 DEF UnreadTokens
      <3>4. /\ worker.step = "put" => UnreadTokens + 1 = worker.made
            /\ worker.step = "last" => UnreadTokens = AnswerLength
        BY <2>6, <3>1 DEF ChatInv, QueueInv
      <3>5. worker.step # "error" /\ worker'.made = worker.made
        BY <1>2, <1>3, <3>2
      <3> HIDE DEF UnreadTokens
      <3>6. CASE worker.step = "put"
        <4>1. worker'.step = "produce" /\ UnreadTokens + 1 = worker.made
          BY <1>2, <3>4, <3>6
        <4> QED
          BY <3>3, <3>5, <4>1
      <3>7. CASE worker.step = "last"
        <4>1. worker'.step = "done" /\ UnreadTokens = AnswerLength
          BY <1>2, <3>4, <3>7
        <4> QED
          BY <3>3, <3>5, <4>1
      <3> QED
        BY <1>2, <3>5, <3>6, <3>7
    <2>7. worker'.step = "done" => tokens' # <<>> /\ tokens'[Len(tokens')] = "end"
      BY <1>2, <1>3, <2>1
    <2>8. worker'.step # "none" /\ UNCHANGED <<asked, stopped, reader>>
      BY <1>1, <1>2, <1>4
    <2>9. QueueInv'
      BY <2>5, <2>6, <2>7, <2>8 DEF ChatInv, QueueInv, At
    <2> QED
      BY <1>1, <1>2, <1>4, <2>2, <2>9, StreamKeeps DEF ChatInv, ChatTyped
  <1> QED
    BY <1>5, <1>6

\* The reader takes what comes first, and passes a token of the same epoch on.
LEMMA ReadTokenKeeps ==
    ASSUME ChatInv, ReadToken
    PROVE  ChatInv'
  <1>1. /\ UNCHANGED <<epoch, history, asked, model, worker, stopped>>
        /\ At(Streamed, "read") /\ reader.end = "none" /\ tokens # <<>>
        /\ tokens' = Tail(tokens)
        /\ tokens \in Seq({"token", "end", "error"})
        /\ reader \in [got : Nat, end : {"none", "end", "error", "timeout", "cancelled"}]
        /\ worker.step # "none"
    BY DEF ReadToken, ChatInv, ChatTyped, ModelHeld
  <1>2. /\ tokens' \in Seq({"token", "end", "error"})
        /\ Len(tokens) \in Nat /\ Len(tokens') \in Nat /\ Len(tokens) = Len(tokens') + 1
        /\ \A i \in 1..Len(tokens') : tokens'[i] = tokens[i + 1]
        /\ Head(tokens) = tokens[1]
    BY <1>1, HeadTailProperties, LenProperties
  <1>3. /\ reader' \in [got : Nat, end : {"none", "end", "error", "timeout", "cancelled"}]
        /\ reader'.end \in {"none", "end", "error"}
        /\ reader'.end = "end" => tokens[1] = "end" /\ reader'.got = reader.got
        /\ reader'.end = "none" => tokens[1] = "token" /\ reader'.got = reader.got + 1
    <2>1. CASE tokens[1] = "token" /\ SameEpoch(Streamed)
      <3>1. reader' = [reader EXCEPT !.got = reader.got + 1]
        BY <1>2, <2>1 DEF ReadToken
      <3>2. reader.got + 1 \in Nat
        BY <1>1
      <3> QED
        BY <1>1, <2>1, <3>1, <3>2
    <2>2. CASE ~(tokens[1] = "token" /\ SameEpoch(Streamed))
      <3>1. PICK why \in {"end", "error"} :
               reader' = [reader EXCEPT !.end = why] /\ (why = "end" => tokens[1] = "end")
        BY <1>2, <2>2 DEF ReadToken
      <3> QED
        BY <1>1, <3>1
    <2> QED
      BY <2>1, <2>2
  <1> DEFINE end == reader'.end
             got == reader'.got
  <1>4. /\ reader' \in [got : Nat, end : {"none", "end", "error", "timeout", "cancelled"}]
        /\ got \in Nat /\ end \in {"none", "end", "error"}
        /\ end = "end" => tokens[1] = "end" /\ got = reader.got
        /\ end = "none" => tokens[1] = "token" /\ got = reader.got + 1
        /\ reader'.got = got /\ reader'.end = end
    BY <1>3
  <1> HIDE DEF end, got
  <1>5. ChatTyped'
    BY <1>1, <1>2, <1>4 DEF ChatInv, ChatTyped
  <1>6. QueueInv'
    <2>1. /\ \A i \in 1..Len(tokens) :
                tokens[i] = "end" => i = Len(tokens) /\ worker.step = "done"
          /\ worker.step = "done" => tokens # <<>> /\ tokens[Len(tokens)] = "end"
          /\ (\A i \in 1..Len(tokens) : tokens[i] # "error") =>
                /\ worker.step = "produce" => UnreadTokens = worker.made
                /\ worker.step = "put" => UnreadTokens + 1 = worker.made
                /\ worker.step = "last" => UnreadTokens = AnswerLength
                /\ worker.step = "done" => UnreadTokens = AnswerLength + 1
          /\ ~stopped
      BY <1>1 DEF ChatInv, QueueInv
    <2>2. 1 \in 1..Len(tokens)
      BY <1>2
    <2>3. CASE end = "end"
      <3>1. Len(tokens) = 1 /\ worker.step = "done" /\ tokens[1] = "end"
        BY <1>4, <2>1, <2>2, <2>3
      <3>2. \A i \in 1..Len(tokens) : tokens[i] # "error"
        BY <3>1
      <3>3. reader.got + 1 = AnswerLength + 1
        BY <2>1, <3>1, <3>2 DEF UnreadTokens
      <3>4. got = AnswerLength
        BY <1>1, <1>4, <2>3, <3>3, ChatAssumption
      <3> QED
        BY <1>1, <1>4, <2>1, <2>3, <3>4 DEF QueueInv, At
    <2>4. CASE end = "error"
      BY <1>1, <1>4, <2>1, <2>4 DEF QueueInv, At
    <2>5. CASE end = "none"
      <3>1. \A i \in 1..Len(tokens') : i + 1 \in 1..Len(tokens) /\ tokens'[i] = tokens[i + 1]
        BY <1>2
      <3>2. \A i \in 1..Len(tokens') :
                tokens'[i] = "end" => i = Len(tokens') /\ worker.step = "done"
        <4> SUFFICES ASSUME NEW i \in 1..Len(tokens'), tokens'[i] = "end"
                     PROVE  i = Len(tokens') /\ worker.step = "done"
          OBVIOUS
        <4>1. i + 1 = Len(tokens) /\ worker.step = "done"
          BY <2>1, <3>1
        <4> QED
          BY <1>2, <4>1
      <3>3. ASSUME worker.step = "done"
            PROVE  tokens' # <<>> /\ tokens'[Len(tokens')] = "end"
        <4>0. tokens[Len(tokens)] = "end" /\ Len(tokens) # 1
          BY <1>4, <2>1, <2>5, <3>3
        <4>1. Len(tokens') \in 1..Len(tokens')
          BY <1>2, <4>0
        <4> QED
          BY <1>2, <4>0, <4>1
      <3>4. ASSUME \A i \in 1..Len(tokens') : tokens'[i] # "error"
            PROVE  UnreadTokens' = UnreadTokens /\ \A i \in 1..Len(tokens) : tokens[i] # "error"
        <4>1. UnreadTokens' = UnreadTokens
          BY <1>1, <1>2, <1>4, <2>5 DEF UnreadTokens
        <4>2. ASSUME NEW i \in 1..Len(tokens) PROVE tokens[i] # "error"
          <5>1. CASE i = 1
            BY <1>4, <2>5, <5>1
          <5>2. CASE i # 1
            <6>1. PICK j \in 1..Len(tokens') : i = j + 1
              <7>1. i - 1 \in 1..Len(tokens') /\ i = (i - 1) + 1
                BY <1>2, <5>2
              <7> QED
                BY <7>1
            <6>2. tokens'[j] = tokens[j + 1] /\ tokens'[j] # "error"
              BY <1>2, <3>4, <6>1
            <6> QED
              BY <6>1, <6>2
          <5> QED
            BY <5>1, <5>2
        <4> QED
          BY <4>1, <4>2
      <3>5. /\ reader'.end = "none" /\ UNCHANGED <<asked, worker, stopped>> /\ ~stopped'
            /\ worker'.step # "none" /\ asked[Streamed].step # "streamed"
        BY <1>1, <1>4, <2>1, <2>5 DEF At
      <3>6. ASSUME \A i \in 1..Len(tokens') : tokens'[i] # "error"
            PROVE  /\ worker'.step = "produce" => UnreadTokens' = worker'.made
                   /\ worker'.step = "put" => UnreadTokens' + 1 = worker'.made
                   /\ worker'.step = "last" => UnreadTokens' = AnswerLength
                   /\ worker'.step = "done" => UnreadTokens' = AnswerLength + 1
        <4>1. UnreadTokens' = UnreadTokens
          BY <3>4, <3>6
        <4>2. \A i \in 1..Len(tokens) : tokens[i] # "error"
          BY <3>4, <3>6
        <4> HIDE DEF UnreadTokens
        <4> QED
          BY <2>1, <3>5, <4>1, <4>2
      <3>7. At(Streamed, "streamed")' = FALSE
        BY <3>5 DEF At
      <3>8. reader'.end # "end"
        BY <3>5
      <3>9. \A i \in 1..Len(tokens') :
               tokens'[i] = "end" => i = Len(tokens') /\ worker'.step = "done"
        BY <3>2, <3>5
      <3>10. worker'.step = "done" => tokens' # <<>> /\ tokens'[Len(tokens')] = "end"
        BY <3>3, <3>5
      <3> HIDE DEF UnreadTokens
      <3> QED
        BY <3>5, <3>6, <3>7, <3>8, <3>9, <3>10 DEF QueueInv
    <2> QED
      BY <1>4, <2>3, <2>4, <2>5
  <1> QED
    BY <1>1, <1>5, <1>6, StreamKeeps

\* The reader gives up, and stops the thread.
LEMMA ReaderStopsKeeps ==
    ASSUME ChatInv, ReaderLeaves \/ StopStream
    PROVE  ChatInv'
  <1>1. /\ UNCHANGED <<epoch, history, asked, model, worker, tokens>> /\ At(Streamed, "read")
        /\ reader \in [got : Nat, end : {"none", "end", "error", "timeout", "cancelled"}]
        /\ worker.step # "none"
    BY DEF ReaderLeaves, StopStream, ChatInv, ChatTyped, ModelHeld
  <1>2. CASE ReaderLeaves
    <2>1. PICK end \in {"timeout", "cancelled"} : reader' = [reader EXCEPT !.end = end]
      BY <1>2 DEF ReaderLeaves
    <2>2. /\ reader' \in [got : Nat, end : {"none", "end", "error", "timeout", "cancelled"}]
          /\ reader'.end = end /\ reader.end = "none" /\ UNCHANGED stopped
      BY <1>1, <1>2, <2>1 DEF ReaderLeaves
    <2>3. ChatTyped' /\ QueueInv'
      BY <1>1, <2>2 DEF ChatInv, ChatTyped, QueueInv, At
    <2> QED
      BY <1>1, <2>2, <2>3, StreamKeeps
  <1>3. CASE StopStream
    <2>1. stopped' = TRUE /\ UNCHANGED reader /\ reader.end # "none"
      BY <1>3 DEF StopStream
    <2>2. ChatTyped'
      BY <1>1, <2>1 DEF ChatInv, ChatTyped
    <2>3. QueueInv'
      BY <1>1, <2>1 DEF ChatInv, QueueInv, At
    <2> QED
      BY <1>1, <2>1, <2>2, <2>3, StreamKeeps
  <1> QED
    BY <1>2, <1>3

\* The stream is left when its thread has ended, and only then the model.
LEMMA LeaveStreamKeeps ==
    ASSUME ChatInv, LeaveStream
    PROVE  ChatInv'
  <1>1. /\ UNCHANGED <<epoch, history, tokens, worker, stopped, reader>>
        /\ At(Streamed, "read") /\ worker.step = "done" /\ model' = NoQuestion
        /\ Streamed \in AllQuestions /\ asked[Streamed] \in Askings /\ epoch \in Nat
        /\ asked[Streamed].told # "answer"
    BY DEF LeaveStream, WorkerAwaited, AllQuestions, ChatInv, ChatTyped, AnswersInv, At
  <1>2. PICK question \in Askings :
            /\ Becomes(Streamed, question) /\ question.told # "answer"
            /\ question.step \in {"streamed", "answered"}
            /\ question.step = "streamed" => reader.end \in {"end", "timeout"}
    <2>1. CASE reader.end \in {"end", "timeout"}
      <3> DEFINE question == [asked[Streamed] EXCEPT !.step = "streamed"]
      <3>1. question \in Askings /\ question.step = "streamed"
            /\ question.told = asked[Streamed].told
        BY <1>1 DEF Askings, QuestionSteps
      <3>2. Becomes(Streamed, question)
        BY <2>1 DEF LeaveStream
      <3> HIDE DEF question
      <3> QED
        BY <1>1, <2>1, <3>1, <3>2
    <2>2. CASE reader.end \notin {"end", "timeout"}
      <3> DEFINE question == [asked[Streamed] EXCEPT !.step = "answered", !.told = "failed",
                                                     !.told_at = epoch]
      <3>1. question \in Askings /\ question.step = "answered" /\ question.told = "failed"
        BY <1>1 DEF Askings, QuestionSteps, Tellings
      <3>2. Becomes(Streamed, question)
        BY <2>2 DEF LeaveStream, Answered
      <3> HIDE DEF question
      <3> QED
        BY <3>1, <3>2
    <2> QED
      BY <2>1, <2>2
  <1>3. /\ asked' \in [AllQuestions -> Askings] /\ asked'[Streamed] = question
        /\ \A other \in AllQuestions \ {Streamed} : asked'[other] = asked[other]
    BY <1>1, <1>2, BecomesIs DEF ChatInv
  <1>4. ChatTyped'
    BY <1>1, <1>3 DEF ChatInv, ChatTyped
  <1>5. AnswersInv'
    BY <1>1, <1>2, <1>3 DEF ChatInv, AnswersInv, Exchanges
  <1>6. model = Streamed
    BY <1>1 DEF ChatInv, ModelHeld
  <1>7. ModelHeld'
    BY <1>1, <1>2, <1>3, <1>6 DEF ChatInv, ModelHeld, At
  <1>8. QueueInv'
    BY <1>1, <1>2, <1>3 DEF ChatInv, QueueInv, At, UnreadTokens
  <1> QED
    BY <1>4, <1>5, <1>7, <1>8 DEF ChatInv

\* An edit begins another epoch with an empty history.
LEMMA HistoryGoesKeeps ==
    ASSUME ChatInv, EditTranscript \/ ClearHistory
    PROVE  ChatInv'
  <1>1. /\ UNCHANGED <<asked, model, tokens, worker, stopped, reader>> /\ history' = <<>>
        /\ epoch' \in Nat
    BY DEF EditTranscript, ClearHistory, NewSessions, StreamSame, ChatInv, ChatTyped
  <1>2. ChatTyped' /\ ModelHeld' /\ QueueInv'
    BY <1>1 DEF ChatInv, ChatTyped, ModelHeld, QueueInv, At, UnreadTokens
  <1>3. AnswersInv'
    BY <1>1, EmptySeq DEF ChatInv, AnswersInv
  <1> QED
    BY <1>2, <1>3 DEF ChatInv

\* Nothing was asked yet.
LEMMA ChatInitInv == ChatInit => ChatInv
  <1> SUFFICES ASSUME ChatInit PROVE ChatInv
    OBVIOUS
  <1>1. Unasked \in Askings /\ Unasked.step = "idle" /\ Unasked.told = "none"
    BY DEF Unasked, Askings, QuestionSteps, Tellings
  <1>2. \A q \in AllQuestions : asked[q] = Unasked
    BY DEF ChatInit, AllQuestions
  <1>3. reader.got = 0 /\ reader.end = "none" /\ worker.step = "none" /\ Streamed \in AllQuestions
    BY DEF ChatInit, NoReader, AllQuestions
  <1>4. ChatTyped
    <2>1. asked \in [AllQuestions -> Askings]
      BY <1>1 DEF ChatInit, AllQuestions
    <2>2. stopped \in BOOLEAN
      BY DEF ChatInit
    <2>3. tokens \in Seq({"token", "end", "error"})
      BY EmptySeq DEF ChatInit
    <2>4. worker \in [step : WorkerSteps, made : Nat]
          /\ reader \in [got : Nat, end : {"none", "end", "error", "timeout", "cancelled"}]
      BY DEF ChatInit, WorkerSteps, NoReader
    <2> QED
      BY <2>1, <2>2, <2>3, <2>4 DEF ChatInit, ChatTyped
  <1>5. AnswersInv
    BY <1>1, <1>2, EmptySeq DEF ChatInit, AnswersInv
  <1>6. ModelHeld
    BY <1>1, <1>2, <1>3 DEF ModelHeld, At
  <1>7. QueueInv
    BY <1>1, <1>2, <1>3 DEF ChatInit, QueueInv, At
  <1> QED
    BY <1>4, <1>5, <1>6, <1>7 DEF ChatInv

\* Every step of the questions, the stream and the edits.
LEMMA ChatStep ==
    ASSUME ChatInv, [ChatNext]_chatVars
    PROVE  ChatInv'
  <1>1. CASE UNCHANGED chatVars
    BY <1>1 DEF chatVars, ChatInv, ChatTyped, AnswersInv, Exchanges, ModelHeld, QueueInv, At,
                UnreadTokens
  <1> QED
    BY <1>1, AskingKeeps, ReplyKeeps, StartStreamKeeps, ProduceKeeps, PutKeeps, ReadTokenKeeps,
       ReaderStopsKeeps, LeaveStreamKeeps, HistoryGoesKeeps DEF ChatNext, AllQuestions

\* What the invariant says of what was told and is remembered.
LEMMA ChatHolds ==
    ASSUME ChatInv
    PROVE  ChatKept
  <1>1. \A i \in 1..Len(history) : history[i] \in Exchanges
    BY ElementOfSeq DEF ChatInv, AnswersInv
  <1>2. HistoryIsCurrent /\ AnswersAreWhole
    <2>1. \A i \in 1..Len(history) :
             history[i].epoch = epoch /\ (history[i].whole \/ reader.end = "timeout")
      BY <1>1 DEF Exchanges
    <2>2. \A q \in Questions \cup {Streamed} :
             asked[q].told = "answer" => asked[q].epoch = asked[q].told_at
      BY DEF ChatInv, AnswersInv, AllQuestions
    <2> QED
      BY <2>1, <2>2 DEF HistoryIsCurrent, AnswersAreWhole
  <1>3. StreamHoldsModel
    BY DEF ChatInv, ModelHeld, QueueInv, StreamHoldsModel
  <1> QED
    BY <1>2, <1>3 DEF ChatKept

------------------------------------------------------------------------------
(* All of them.  The invariant of a service that shares rows, stages or     *)
(* receipts with another is about the behaviours in which it is the one that *)
(* moves; the others keep theirs in every behaviour.                         *)

OwnServices ==
    /\ ModelInv /\ SpeechInv /\ SearchInv /\ ChatInv /\ WikiInv /\ CloudInv /\ LifecycleInv
    /\ ConfigInv /\ SettingInv /\ DurableInv

SharingServices ==
    /\ serviceSubject = "stages" => StageInv
    /\ serviceSubject = "bulk" => BulkInv
    /\ serviceSubject = "ab" => ABInv
    /\ serviceSubject = "batch" => BatchInv
    /\ serviceSubject = "titles" => TitleInv

\* A step of all is one of each service or leaves it alone.
LEMMA ServiceStep ==
    ASSUME [ServicesNext]_serviceVars
    PROVE  /\ [ModelNext]_modelVars /\ [SpeechNext]_speechVars /\ [SearchNext]_searchVars
           /\ [ChatNext]_chatVars /\ [WikiNext]_wikiVars /\ [CloudNext]_cloudVars
           /\ [LifecycleNext]_lifecycleVars /\ [ConfigNext]_configVars
           /\ [SettingNext]_settingVars /\ [DurableNext]_durableVars
  BY DEF ServicesNext, Others, serviceVars

\* And of the one that moves, where state is shared.
LEMMA SharingStep ==
    ASSUME [ServicesNext]_serviceVars
    PROVE  /\ UNCHANGED serviceSubject
           /\ serviceSubject = "stages" => [StageWorkNext]_stageVars
           /\ serviceSubject = "bulk" => [BulkNext]_bulkVars
           /\ serviceSubject = "ab" => [ABNext]_abVars
           /\ serviceSubject = "batch" => [BatchNext]_batchVars
           /\ serviceSubject = "titles" => [TitlesNext]_titleVars
  <1>1. CASE UNCHANGED serviceVars
    <2>1. /\ UNCHANGED serviceSubject /\ UNCHANGED <<jobs, work, alive, executing, receipts, outcome>>
          /\ UNCHANGED bulkLocals /\ UNCHANGED abLocals /\ UNCHANGED batchOwn /\ UNCHANGED titleOwn
      BY <1>1 DEF serviceVars
    <2>2. UNCHANGED stageVars /\ UNCHANGED bulkVars
      BY <2>1 DEF bulkLocals, stageVars, bulkVars
    <2>3. UNCHANGED abVars
      BY <2>1 DEF abVars
    <2>4. UNCHANGED batchVars
      BY <2>1 DEF batchOwn, batchVars, batchLocals
    <2>5. UNCHANGED titleVars
      <3>1. UNCHANGED titleOwn /\ receipts' = receipts /\ outcome' = outcome
        BY <2>1
      <3>2. /\ titled' = titled /\ transcript' = transcript /\ titleEvents' = titleEvents
            /\ admission' = admission /\ pending' = pending /\ items' = items
            /\ titleWork' = titleWork /\ undoing' = undoing /\ titleLeft' = titleLeft
        BY <3>1, SMTT(30) DEF titleOwn
      <3> QED
        BY <3>1, <3>2 DEF titleVars
    <2> QED
      BY <2>1, <2>2, <2>3, <2>4, <2>5
  <1>2. CASE ServicesNext
    BY <1>2 DEF ServicesNext, Others
  <1> QED
    BY <1>1, <1>2

\* The services that share nothing keep their invariants.
LEMMA OwnServicesStep ==
    OwnServices /\ [ServicesNext]_serviceVars => OwnServices'
  <1> SUFFICES ASSUME OwnServices, [ServicesNext]_serviceVars
               PROVE  OwnServices'
    OBVIOUS
  <1>1. ModelInv' /\ SpeechInv' /\ SearchInv' /\ ChatInv' /\ WikiInv'
    BY ServiceStep, ModelStep, SpeechStep, SearchStep, ChatStep, WikiStep DEF OwnServices
  <1>2. CloudInv' /\ LifecycleInv' /\ ConfigInv' /\ SettingInv' /\ DurableInv'
    BY ServiceStep, CloudStep, LifecycleStep, ConfigStep, SettingStep, DurableStep
       DEF OwnServices
  <1> QED
    BY <1>1, <1>2 DEF OwnServices

\* They hold of a server that starts.
LEMMA OwnServicesInit ==
    ServicesInit => OwnServices
  <1> SUFFICES ASSUME ServicesInit
               PROVE  OwnServices
    OBVIOUS
  <1>1. /\ ModelInit /\ SpeechInit /\ SearchInit /\ ChatInit /\ WikiInit /\ CloudInit
        /\ LifecycleInit /\ ConfigInit /\ SettingInit /\ DurableInit
    BY DEF ServicesInit
  <1> QED
    BY <1>1, ModelInitInv, SpeechInitInv, SearchInitInv, ChatInitInv, WikiInitInv, CloudInitInv,
       LifecycleInitInv, ConfigInitInv, SettingInitInv, DurableInitInv DEF OwnServices

\* The table of stages that a run begins with is that of the stage queue, or one
\* with all but one meeting done.
LEMMA StagesBegin ==
    ASSUME ServicesInit, serviceSubject = "stages"
    PROVE  StageInv
  <1>1. work = OneToDo /\ alive = Sessions /\ executing = {}
    BY DEF ServicesInit
  <1> DEFINE finished == [Queued EXCEPT !.status = "completed"]
  <1>2. Queued \in Items /\ finished \in Items
    BY DEF Queued, Items, StageStatuses
  <1> HIDE DEF finished
  <1>3. Enqueued({Source})[Source] \in [StageNumbers -> Items]
    BY <1>2 DEF Enqueued
  <1>4. [s \in StageNumbers |-> finished] \in [StageNumbers -> Items]
    BY <1>2
  <1>5. ASSUME NEW m \in StagedMeetings
        PROVE  (IF m = Source THEN Enqueued({m})[m] ELSE [s \in StageNumbers |-> finished])
                  \in [StageNumbers -> Items]
    BY <1>3, <1>4
  <1>6. OneToDo \in [StagedMeetings -> [StageNumbers -> Items]]
    BY <1>5 DEF OneToDo, finished
  <1> QED
    BY <1>1, <1>6 DEF StageInv, WorkTyped

\* So do the invariants of those that share.
LEMMA SharingServicesInit ==
    ServicesInit => SharingServices
  <1> SUFFICES ASSUME ServicesInit
               PROVE  SharingServices
    OBVIOUS
  <1>1. serviceSubject = "stages" => StageInv
    BY StagesBegin
  <1>2. serviceSubject = "bulk" => BulkInv
    <2>1. serviceSubject = "bulk" => BulkRows /\ work = Enqueued(StagedMeetings) /\ BulkLocals
      BY DEF ServicesInit
    <2> QED
      BY <2>1, BulkInitInv DEF BulkInit
  <1>3. serviceSubject = "ab" => ABInv
    <2>1. serviceSubject = "ab" => ABRows /\ ABLocals
      BY DEF ServicesInit
    <2> QED
      BY <2>1, ABInitInv DEF ABInit
  <1>4. BatchInv /\ TitleInv
    BY BatchInitInv, TitlesInitInv DEF ServicesInit
  <1> QED
    BY <1>1, <1>2, <1>3, <1>4 DEF SharingServices

\* The one that moves keeps its invariant, and makes the steps it may.
LEMMA SharingServicesStep ==
    SharingServices /\ [ServicesNext]_serviceVars =>
        /\ SharingServices'
        /\ serviceSubject = "stages" => StageUnderClaim
        /\ serviceSubject = "bulk" => StageFollowsRow
        /\ serviceSubject = "titles" => TitleStep
  <1> SUFFICES ASSUME SharingServices, [ServicesNext]_serviceVars
               PROVE  /\ SharingServices'
                      /\ serviceSubject = "stages" => StageUnderClaim
                      /\ serviceSubject = "bulk" => StageFollowsRow
                      /\ serviceSubject = "titles" => TitleStep
    OBVIOUS
  <1>1. serviceSubject' = serviceSubject
    BY SharingStep
  <1>2. serviceSubject = "stages" => StageInv' /\ StageUnderClaim
    BY SharingStep, StageStep DEF SharingServices
  <1>3. serviceSubject = "bulk" => BulkInv' /\ StageFollowsRow
    BY SharingStep, BulkStep DEF SharingServices
  <1>4. serviceSubject = "ab" => ABInv'
    BY SharingStep, ABStep DEF SharingServices
  <1>5. serviceSubject = "batch" => BatchInv'
    BY SharingStep, BatchStep DEF SharingServices
  <1>6. serviceSubject = "titles" => TitleInv' /\ TitleStep
    BY SharingStep, TitlesStep DEF SharingServices
  <1>7. SharingServices'
    BY <1>1, <1>2, <1>3, <1>4, <1>5, <1>6 DEF SharingServices
  <1> QED
    BY <1>2, <1>3, <1>6, <1>7

\* The inductive invariant of the services: each has the one of its part, and those
\* that share state have it in the behaviours in which they move.
THEOREM ServicesInvariant == ServicesSpec => [](OwnServices /\ SharingServices)
  <1>1. ServicesInit => OwnServices /\ SharingServices
    BY OwnServicesInit, SharingServicesInit
  <1>2. OwnServices /\ SharingServices /\ [ServicesNext]_serviceVars =>
            (OwnServices /\ SharingServices)'
    BY OwnServicesStep, SharingServicesStep
  <1> QED
    BY <1>1, <1>2, PTL DEF ServicesSpec

\* No native thread of the model manager loses the model it works on, whoever is
\* cancelled, and of the downloads of speech models one runs at a time and its job
\* says so, whatever imports, lists and cancellations do (model_manager.py,
\* stt_model_downloader.py).
THEOREM ModelsStaySafe == ServicesSpec => []ModelsAreSafe
  <1>1. OwnServices => ModelsAreSafe
    BY ModelHolds, SpeechHolds DEF OwnServices, ModelsAreSafe
  <1> QED
    BY <1>1, ServicesInvariant, PTL

\* A meeting that was lent comes back: whatever cancellations, failures and restarts
\* meet an A/B test, one that looks active has a task or a recovery that will end it
\* and its lease; and no end of a bulk cohort leaves a member running or being
\* cancelled (ab_test_runner.py, orchestrator.py).
THEOREM LentMeetingsComeBack == ServicesSpec => []MeetingsComeBack
  <1>1. SharingServices => MeetingsComeBack
    BY BulkHolds DEF SharingServices, MeetingsComeBack, ABInv
  <1> QED
    BY <1>1, ServicesInvariant, PTL

\* What an accepted request says is queued is queued, is left to somebody who will
\* queue it, or is shown as ended, whatever is posted twice and whenever the server is
\* restarted (meetings_batch.py, auto_processing.py).
THEOREM ReceiptsAreKept == ServicesSpec => []RequestsAreKept
  <1>1. SharingServices => RequestsAreKept
    BY BatchHolds DEF SharingServices, RequestsAreKept
  <1> QED
    BY <1>1, ServicesInvariant, PTL

\* A search serves no text older than its question, the history of the chat keeps no
\* answer of a text that was edited meanwhile, and the wiki loses no item unless two
\* compilations overlapped, for any questions, edits, compilations and crashes
\* (hybrid_search.py, chat.py, wiki/compiler.py).
THEOREM AnswersStayCurrent == ServicesSpec => []AnswersAreCurrent
  <1>1. OwnServices => AnswersAreCurrent
    BY SearchHolds, ChatHolds, WikiHolds DEF OwnServices, AnswersAreCurrent
  <1> QED
    BY <1>1, ServicesInvariant, PTL

\* What is stored stays whole: the settings through requests that fail or are undone,
\* the vocabulary through one fault, and any state file through crashes and any number
\* of concurrent writers (settings.py, user_settings.py, io_utils.py).
THEOREM StoredFilesStayWhole == ServicesSpec => []StoresStayWhole
  <1>1. OwnServices => StoresStayWhole
    BY ConfigHolds, SettingHolds, DurableHolds DEF OwnServices, StoresStayWhole
  <1> QED
    BY <1>1, ServicesInvariant, PTL

\* A recording is judged by what both tools report, sent once and as one recording,
\* and removed only where a whole copy is left (audio_quality.py,
\* openai_transcriber.py, lifecycle.py).
THEOREM RecordingsAreHandled == ServicesSpec => []SoundIsHandled
  <1>1. OwnServices => SoundIsHandled
    <2>1. CloudInv => CloudKept
      BY CloudHolds
    <2>2. LifecycleInv => SoundIsKept
      BY DEF LifecycleInv
    <2> QED
      BY <2>1, <2>2, QualityHolds DEF OwnServices, SoundIsHandled
  <1> QED
    BY <1>1, ServicesInvariant, PTL

\* A stage is completed only under its claim and after those it depends on, and a
\* cohort records no more of a member than is on disk and begins no stage of one it
\* dropped, for any meetings, sessions and cancellations (stage_work_queue.py,
\* orchestrator.py).
THEOREM StagesStayEarned == ServicesSpec => StagesAreEarned
  <1>1. SharingServices /\ [ServicesNext]_serviceVars =>
            [/\ serviceSubject = "stages" => StageUnderClaim
             /\ serviceSubject = "bulk" => StageFollowsRow]_serviceVars
    BY SharingServicesStep
  <1> QED
    BY <1>1, ServicesInvariant, PTL DEF ServicesSpec, StagesAreEarned

\* A generated title replaces only the title its request was accepted with, an undo
\* only the generated one, and a request that ended or was cancelled changes none,
\* for any requests, renamings and stops (title_jobs.py).
THEOREM UserTitlesAreKept == ServicesSpec => TitlesRespectUsers
  <1>1. SharingServices /\ [ServicesNext]_serviceVars =>
            [serviceSubject = "titles" => TitleStep]_serviceVars
    BY SharingServicesStep
  <1> QED
    BY <1>1, ServicesInvariant, PTL DEF ServicesSpec, TitlesRespectUsers
==============================================================================
