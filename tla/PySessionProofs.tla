--------------------------- MODULE PySessionProofs ---------------------------
(***************************************************************************)
(* Proofs about PySession for every number of tasks, futures, careers and  *)
(* calls: the wrapper's guard, the session that is not replaced while an   *)
(* operation works in it, the queue of the lock, and the wrapper's copy of *)
(* the status.                                                             *)
(***************************************************************************)
EXTENDS PySession, SequenceTheorems, FiniteSetTheorems, WellFoundedInduction, TLAPS

(* What the tasks are in.                                                  *)
PyTyped ==
  /\ py \in [Tasks -> [ name : WrapperMethods \cup DirectMethods \cup {"none"},
                        future : Futures \cup {Nobody} ]]
  /\ active \in WrapperMethods \cup {"none"}

(* Only the methods of the wrapper enter its guard.                        *)
GuardInv == PyTyped /\ OneOperation

-----------------------------------------------------------------------------
(* A step of the Rust side changes nothing of the guard.                   *)
LEMMA PySideKeepsGuard ==
  ASSUME GuardInv, UNCHANGED <<face, active, py>>
  PROVE  GuardInv'
BY DEF GuardInv, PyTyped, OneOperation, Guarded, Guards

(* A call enters the guard only when nobody is in it.                      *)
LEMMA CallKeepsGuard ==
  ASSUME GuardInv, NEW t \in Tasks, Calls(t)
  PROVE  GuardInv'
<1>1. PICK name \in IF face = "wrapper" THEN WrapperMethods ELSE DirectMethods :
        \E career \in IF name = "set_career" THEN Careers ELSE {NoCareer} : Call(t, name, career)
  BY DEF Calls
<1>2. PICK career : Call(t, name, career)
  BY <1>1
<1>3. /\ py[t] = Idle
      /\ Guards(name) => active = "none"
      /\ face' = face
  BY <1>2 DEF Call
<1>4. CASE name = "close" /\ ~IsInitialized
  <2>1. UNCHANGED <<face, active, py>>
    BY <1>2, <1>4 DEF Call
  <2> QED  BY <2>1, PySideKeepsGuard
<1>5. CASE ~(name = "close" /\ ~IsInitialized)
  <2>1. PICK f \in Futures : py' = [py EXCEPT ![t] = [name |-> name, future |-> f]]
    BY <1>2, <1>5 DEF Call, Spawn
  <2>2. active' = IF Guards(name) THEN name ELSE active
    BY <1>2, <1>5 DEF Call
  <2>3. name # "none" /\ name \in WrapperMethods \cup DirectMethods
    BY DEF WrapperMethods, DirectMethods, RustMethods
  <2>4. Guards(name) => name \in WrapperMethods
    BY DEF Guards
  <2>5. PyTyped'
    BY <2>1, <2>2, <2>3, <2>4 DEF GuardInv, PyTyped
  <2>6. Guarded' = IF Guards(name) THEN Guarded \cup {t} ELSE Guarded
    BY <1>3, <2>1, <2>3 DEF GuardInv, PyTyped, Guarded, Guards, Idle
  <2>7. OneOperation'
    <3>1. CASE Guards(name)
      <4>1. Guarded = {} /\ Guarded' = {t} /\ active' = name /\ py'[t].name = name
        BY <3>1, <1>3, <2>1, <2>2, <2>6 DEF GuardInv, PyTyped, OneOperation
      <4> QED  BY <4>1, <2>3 DEF OneOperation
    <3>2. CASE ~Guards(name)
      <4>1. Guarded' = Guarded /\ active' = active
        BY <3>2, <2>2, <2>6
      <4>2. \A u \in Guarded : u # t /\ py'[u] = py[u]
        BY <1>3, <2>1 DEF GuardInv, PyTyped, Guarded
      <4> QED  BY <4>1, <4>2 DEF GuardInv, OneOperation
    <3> QED  BY <3>1, <3>2
  <2> QED  BY <2>5, <2>7 DEF GuardInv
<1> QED  BY <1>4, <1>5

(* A task that returns or is cancelled leaves the guard if it was in it.   *)
LEMMA LeavingKeepsGuard ==
  ASSUME GuardInv, NEW t \in Tasks, py[t].future # Nobody,
         active' = Released(t), py' = [py EXCEPT ![t] = Idle], face' = face
  PROVE  GuardInv'
<1>1. py[t] # Idle
  BY DEF Idle
<1>2. PyTyped'
  BY DEF GuardInv, PyTyped, Idle, Released
<1>3. Guarded' = Guarded \ {t}
  BY DEF GuardInv, PyTyped, Guarded, Guards
<1>4. CASE Guards(py[t].name)
  <2>1. t \in Guarded
    BY <1>1, <1>4 DEF Guarded
  <2>2. Guarded' = {} /\ active' = "none"
    BY <1>3, <1>4, <2>1 DEF GuardInv, OneOperation, Released
  <2> QED  BY <1>2, <2>2 DEF GuardInv, OneOperation
<1>5. CASE ~Guards(py[t].name)
  <2>1. Guarded' = Guarded /\ active' = active
    BY <1>3, <1>5 DEF Guarded, Released
  <2>2. \A u \in Guarded : py'[u] = py[u]
    BY <1>5 DEF GuardInv, PyTyped, Guarded
  <2> QED  BY <1>2, <2>1, <2>2 DEF GuardInv, OneOperation
<1> QED  BY <1>4, <1>5

LEMMA NextKeepsGuard == GuardInv /\ [Next]_vars => GuardInv'
<1> SUFFICES ASSUME GuardInv, [Next]_vars
             PROVE  GuardInv'
  OBVIOUS
<1>1. ASSUME NEW t \in Tasks, Calls(t)
      PROVE  GuardInv'
  BY <1>1, CallKeepsGuard
<1>2. ASSUME NEW t \in Tasks, Resume(t)
      PROVE  GuardInv'
  BY <1>2, LeavingKeepsGuard DEF Resume
<1>3. ASSUME NEW t \in Tasks, Cancel(t)
      PROVE  GuardInv'
  BY <1>3, LeavingKeepsGuard DEF Cancel
<1>4. ASSUME NEW f \in Futures, Runs(f)
      PROVE  GuardInv'
  <2>1. UNCHANGED <<face, active, py>>
    BY <1>4 DEF Runs, Start, Connect, Write, Enter, Publish, Succeed, Fail, EndBatch, Drop, PySide
  <2> QED  BY <2>1, PySideKeepsGuard
<1>5. CASE UNCHANGED vars
  BY <1>5, PySideKeepsGuard DEF vars
<1> QED  BY <1>1, <1>2, <1>3, <1>4, <1>5 DEF Next, Rest

LEMMA InitGuard == Init => GuardInv
BY DEF Init, GuardInv, PyTyped, OneOperation, Guarded, Idle

(* One operation at a time, left by the one that entered it, for every     *)
(* number of tasks and whatever is cancelled.                              *)
THEOREM OneOperationAtATime == Spec => []OneOperation
<1>1. GuardInv => OneOperation
  BY DEF GuardInv
<1> QED  BY <1>1, InitGuard, NextKeepsGuard, PTL DEF Spec

-----------------------------------------------------------------------------
(* The session and the futures.                                            *)

AnyCareer  == Careers \cup {NoCareer}
Stages     == {"free", "start", "connecting", "waiting", "working", "published",
               "listing", "batch", "done"}
Sessions   == [ id : Nat, status : RustStatuses, career : AnyCareer, list : AnyCareer ]
Models     == [ status : PythonStatuses, career : AnyCareer, list : AnyCareer ]
FutureRecs == [ op : WrapperMethods \cup DirectMethods \cup {"none"}, stage : Stages,
                task : Tasks \cup {Nobody}, career : AnyCareer, id : Nat,
                ok : BOOLEAN, model : Models ]

RustTyped ==
  /\ inner \in Sessions
  /\ made \in Nat
  /\ fut \in [Futures -> FutureRecs]

InSession == {"working", "published", "listing"}

(* An operation inside the session holds a read guard.                     *)
HoldsGuard == \A f \in Futures : fut[f].stage \in InSession => f \in readers

LockInv == RustTyped /\ HoldsGuard

LEMMA ModelTyped ==
  ASSUME NEW s \in Sessions
  PROVE  Model(s) \in Models
BY DEF Sessions, Model, Models, NormalizeStatus, RustStatuses, PythonStatuses, AnyCareer

LEMMA ConstantsTyped ==
  /\ NoSession \in Sessions
  /\ EmptyCache \in Models
  /\ FreeFuture \in FutureRecs
  /\ FreeFuture.stage = "free"
<1>1. NoSession \in Sessions
  BY DEF NoSession, Sessions, RustStatuses, AnyCareer
<1>2. EmptyCache \in Models
  BY <1>1, ModelTyped DEF EmptyCache
<1> QED  BY <1>1, <1>2 DEF FreeFuture, FutureRecs, Stages, AnyCareer

(* Admitting and leaving take no guard from anyone else.                   *)
LEMMA AdmitKeeps ==
  ASSUME NEW rs, NEW q, Admit(rs, q)
  PROVE  rs \subseteq readers'
BY DEF Admit

LEMMA LeaveKeeps ==
  ASSUME NEW f, Leave(f)
  PROVE  readers \ {f} \subseteq readers'
BY DEF Admit, Leave

(* A future that is given another record: it has to hold a guard only if   *)
(* the record says it is inside.                                           *)
LEMMA OneFutureMoves ==
  ASSUME LockInv, NEW f \in Futures, NEW rec \in FutureRecs,
         fut' = [fut EXCEPT ![f] = rec],
         readers \ {f} \subseteq readers',
         rec.stage \in InSession => f \in readers'
  PROVE  fut' \in [Futures -> FutureRecs] /\ HoldsGuard'
<1>1. fut' \in [Futures -> FutureRecs]
  BY DEF LockInv, RustTyped
<1>2. ASSUME NEW g \in Futures, fut'[g].stage \in InSession
      PROVE  g \in readers'
  <2>1. CASE g = f
    BY <1>2, <2>1 DEF LockInv, RustTyped
  <2>2. CASE g # f
    BY <1>2, <2>2 DEF LockInv, RustTyped, HoldsGuard
  <2> QED  BY <2>1, <2>2
<1> QED  BY <1>1, <1>2 DEF HoldsGuard, InSession

(* A future that ends is free or done.                                     *)
LEMMA FinishMoves ==
  ASSUME LockInv, NEW f \in Futures, NEW ok \in BOOLEAN, NEW model \in Models,
         Finish(f, ok, model), readers \ {f} \subseteq readers'
  PROVE  fut' \in [Futures -> FutureRecs] /\ HoldsGuard'
<1> DEFINE rec == IF fut[f].task = Nobody THEN FreeFuture
                  ELSE [fut[f] EXCEPT !.stage = "done", !.ok = ok, !.model = model]
<1>1. fut[f] \in FutureRecs
  BY DEF LockInv, RustTyped
<1>2. rec \in FutureRecs /\ rec.stage \in {"free", "done"}
  BY <1>1, ConstantsTyped DEF FutureRecs, Stages
<1>3. fut' = [fut EXCEPT ![f] = rec]
  BY DEF Finish
<1> HIDE DEF rec
<1> QED  BY <1>2, <1>3, OneFutureMoves DEF InSession

(* A future that goes on to another stage.                                 *)
LEMMA StageMoves ==
  ASSUME LockInv, NEW f \in Futures, NEW stage \in Stages, Goes(f, stage),
         readers \ {f} \subseteq readers',
         stage \in InSession => f \in readers'
  PROVE  fut' \in [Futures -> FutureRecs] /\ HoldsGuard'
<1> DEFINE rec == [fut[f] EXCEPT !.stage = stage]
<1>1. rec \in FutureRecs /\ rec.stage = stage
  BY DEF LockInv, RustTyped, FutureRecs
<1>2. fut' = [fut EXCEPT ![f] = rec]
  BY DEF Goes
<1> HIDE DEF rec
<1> QED  BY <1>1, <1>2, OneFutureMoves

(* A call gives a free future its work.                                    *)
LEMMA CallKeepsLock ==
  ASSUME LockInv, NEW t \in Tasks, Calls(t)
  PROVE  LockInv'
<1>1. PICK name \in IF face = "wrapper" THEN WrapperMethods ELSE DirectMethods :
        \E career \in IF name = "set_career" THEN Careers ELSE {NoCareer} : Call(t, name, career)
  BY DEF Calls
<1>2. PICK career \in AnyCareer : Call(t, name, career)
  BY <1>1 DEF AnyCareer
<1>3. UNCHANGED <<inner, readers, made>>
  BY <1>2 DEF Call
<1>4. CASE name = "close" /\ ~IsInitialized
  BY <1>2, <1>3, <1>4 DEF Call, LockInv, RustTyped, HoldsGuard
<1>5. CASE ~(name = "close" /\ ~IsInitialized)
  <2> DEFINE op  == IF name = "close" THEN "reset" ELSE name
             f   == CHOOSE g \in Futures : fut[g].stage = "free"
             rec == [FreeFuture EXCEPT !.op = op, !.stage = "start", !.task = t, !.career = career]
  <2>1. op \in WrapperMethods \cup DirectMethods
    BY DEF WrapperMethods, DirectMethods
  <2>2. Spawn(t, name, op, career)
    BY <1>2, <1>5 DEF Call
  <2>3. f \in Futures /\ fut' = [fut EXCEPT ![f] = rec]
    BY <2>2 DEF Spawn
  <2>4. rec \in FutureRecs /\ rec.stage = "start"
    BY <2>1, ConstantsTyped DEF FutureRecs, Stages, FreeFuture
  <2> HIDE DEF f, rec
  <2>5. fut' \in [Futures -> FutureRecs] /\ HoldsGuard'
    BY <1>3, <2>3, <2>4, OneFutureMoves DEF InSession
  <2> QED  BY <1>3, <2>5 DEF LockInv, RustTyped
<1> QED  BY <1>4, <1>5

(* A task that leaves forgets its future, or frees it.                     *)
LEMMA LeavingKeepsLock ==
  ASSUME LockInv, NEW f \in Futures, NEW rec \in {FreeFuture, [fut[f] EXCEPT !.task = Nobody]},
         fut' = [fut EXCEPT ![f] = rec], UNCHANGED <<inner, readers, made>>
  PROVE  LockInv'
<1>1. fut[f] \in FutureRecs
  BY DEF LockInv, RustTyped
<1>2. rec \in FutureRecs /\ rec.stage \in {"free", fut[f].stage}
  BY <1>1, ConstantsTyped DEF FutureRecs
<1>3. rec.stage \in InSession => f \in readers'
  BY <1>2 DEF LockInv, HoldsGuard, InSession
<1>4. fut' \in [Futures -> FutureRecs] /\ HoldsGuard'
  BY <1>2, <1>3, OneFutureMoves
<1> QED  BY <1>4 DEF LockInv, RustTyped

(* The Rust side, one step per action: only Write replaces the session,    *)
(* and then nobody holds a guard.                                          *)
LEMMA RunsKeepLock ==
  ASSUME LockInv, NEW f \in Futures, Runs(f)
  PROVE  LockInv' /\ (inner'.id # inner.id => readers = {})
<1>0. fut[f] \in FutureRecs /\ inner \in Sessions /\ made \in Nat
  BY DEF LockInv, RustTyped
<1>1. CASE Start(f)
  <2>1. readers \ {f} \subseteq readers'
    BY <1>1, AdmitKeeps DEF Start, Stay
  <2>2. PICK stage \in {"connecting", "waiting"} : Goes(f, stage)
    BY <1>1 DEF Start
  <2>3. fut' \in [Futures -> FutureRecs] /\ HoldsGuard'
    BY <2>1, <2>2, StageMoves DEF Stages, InSession
  <2> QED  BY <1>1, <2>3 DEF Start, LockInv, RustTyped
<1>2. CASE Connect(f)
  <2>1. inner' = inner /\ readers \ {f} \subseteq readers'
    BY <1>2, LeaveKeeps DEF Connect
  <2>2. CASE made' = made + 1 /\ fut' = [fut EXCEPT ![f].stage = "waiting", ![f].id = made + 1]
    <3> DEFINE n   == made + 1
               rec == [fut[f] EXCEPT !.stage = "waiting", !.id = n]
    <3>0. n \in Nat
      BY <1>0
    <3> HIDE DEF n
    <3>1. rec \in FutureRecs /\ rec.stage = "waiting"
      BY <1>0, <3>0 DEF FutureRecs, Stages
    <3>2. fut' = [fut EXCEPT ![f] = rec]
      BY <1>0, <2>2 DEF LockInv, RustTyped, FutureRecs, n
    <3> HIDE DEF rec
    <3>3. fut' \in [Futures -> FutureRecs] /\ HoldsGuard'
      BY <2>1, <3>1, <3>2, OneFutureMoves DEF InSession
    <3> QED  BY <2>1, <2>2, <3>0, <3>3 DEF LockInv, RustTyped, n
  <2>3. CASE Finish(f, FALSE, EmptyCache) /\ UNCHANGED made
    <3>1. fut' \in [Futures -> FutureRecs] /\ HoldsGuard'
      BY <2>1, <2>3, FinishMoves, ConstantsTyped
    <3> QED  BY <2>1, <2>3, <3>1 DEF LockInv, RustTyped
  <2> QED  BY <1>2, <2>2, <2>3 DEF Connect
<1>3. CASE Write(f)
  <2>1. inner' \in Sessions
    BY <1>0, <1>3, ConstantsTyped DEF Write, NewSession, Sessions, RustStatuses, FutureRecs
  <2>2. fut' \in [Futures -> FutureRecs] /\ HoldsGuard'
    BY <1>3, <2>1, ModelTyped, FinishMoves, LeaveKeeps DEF Write
  <2> QED  BY <1>3, <2>1, <2>2 DEF Write, LockInv, RustTyped
<1>4. CASE Enter(f)
  <2>1. UNCHANGED <<inner, made>> /\ f \in readers
    BY <1>4 DEF Enter
  <2>2. ASSUME Leave(f), NEW stage \in {"connecting", "batch"}, Goes(f, stage)
        PROVE  LockInv' /\ inner' = inner
    <3>1. fut' \in [Futures -> FutureRecs] /\ HoldsGuard'
      BY <2>2, LeaveKeeps, StageMoves DEF Stages, InSession
    <3> QED  BY <2>1, <3>1 DEF LockInv, RustTyped
  <2>3. ASSUME Leave(f), Finish(f, TRUE, Model(inner)) \/ Finish(f, FALSE, EmptyCache)
        PROVE  LockInv' /\ inner' = inner
    <3>1. fut' \in [Futures -> FutureRecs] /\ HoldsGuard'
      BY <1>0, <2>3, LeaveKeeps, FinishMoves, ModelTyped, ConstantsTyped
    <3> QED  BY <2>1, <3>1 DEF LockInv, RustTyped
  <2>4. CASE Works(f) /\ Stay /\
             fut' = [fut EXCEPT ![f].stage = "working",
                                ![f].career = IF fut[f].op = "set_career" THEN @ ELSE inner.career]
    <3> DEFINE rec == [fut[f] EXCEPT !.stage = "working",
                         !.career = IF fut[f].op = "set_career" THEN @ ELSE inner.career]
    <3>1. rec \in FutureRecs
      BY <1>0 DEF FutureRecs, Stages, Sessions
    <3>2. fut' = [fut EXCEPT ![f] = rec]
      BY <1>0, <2>4 DEF LockInv, RustTyped, FutureRecs
    <3> HIDE DEF rec
    <3>3. fut' \in [Futures -> FutureRecs] /\ HoldsGuard'
      BY <2>1, <2>4, <3>1, <3>2, OneFutureMoves DEF Stay
    <3> QED  BY <2>1, <3>3 DEF LockInv, RustTyped
  <2> QED  BY <1>4, <2>2, <2>3, <2>4 DEF Enter, TestsInner
<1>5. CASE Publish(f)
  <2>1. inner' \in Sessions /\ inner'.id = inner.id
    BY <1>0, <1>5 DEF Publish, Sessions, FutureRecs
  <2>2. f \in readers
    BY <1>5 DEF Publish, LockInv, HoldsGuard, InSession
  <2>3. fut' \in [Futures -> FutureRecs] /\ HoldsGuard'
    BY <1>5, <2>2, StageMoves DEF Publish, Stay, Stages
  <2> QED  BY <1>5, <2>1, <2>3 DEF Publish, LockInv, RustTyped
<1>6. OnCareerPage(f) \in Sessions /\ OnCareerPage(f).id = inner.id
  BY <1>0 DEF OnCareerPage, Sessions, FutureRecs, RustStatuses
<1>7. CASE Succeed(f)
  <2>1. inner' \in Sessions /\ inner'.id = inner.id
    BY <1>6, <1>7 DEF Succeed
  <2>2. fut' \in [Futures -> FutureRecs] /\ HoldsGuard'
    BY <1>7, <2>1, ModelTyped, FinishMoves, LeaveKeeps DEF Succeed
  <2> QED  BY <1>7, <2>1, <2>2 DEF Succeed, LockInv, RustTyped
<1>8. CASE Fail(f)
  <2>1. inner' \in Sessions /\ inner'.id = inner.id
    BY <1>0, <1>6, <1>8 DEF Fail
  <2>2. fut' \in [Futures -> FutureRecs] /\ HoldsGuard'
    BY <1>8, ConstantsTyped, FinishMoves, LeaveKeeps DEF Fail
  <2> QED  BY <1>8, <2>1, <2>2 DEF Fail, LockInv, RustTyped
<1>9. CASE EndBatch(f)
  <2>1. fut' \in [Futures -> FutureRecs] /\ HoldsGuard'
    BY <1>9, ConstantsTyped, FinishMoves DEF EndBatch, Stay
  <2> QED  BY <1>9, <2>1 DEF EndBatch, LockInv, RustTyped
<1>10. CASE Drop(f)
  <2>1. fut' \in [Futures -> FutureRecs] /\ HoldsGuard'
    BY <1>10, ConstantsTyped, LeaveKeeps, OneFutureMoves DEF Drop, InSession
  <2> QED  BY <1>10, <2>1 DEF Drop, LockInv, RustTyped
<1> QED  BY <1>1, <1>2, <1>3, <1>4, <1>5, <1>7, <1>8, <1>9, <1>10 DEF Runs

(* The session is replaced only while nobody works in it.                  *)
LEMMA NextKeepsLock ==
  PyTyped /\ LockInv /\ [Next]_vars =>
    /\ LockInv'
    /\ inner'.id # inner.id => \A f \in Futures : fut[f].stage \notin InSession
<1> SUFFICES ASSUME PyTyped, LockInv, [Next]_vars
             PROVE  /\ LockInv'
                    /\ inner'.id # inner.id => \A f \in Futures : fut[f].stage \notin InSession
  OBVIOUS
<1>1. ASSUME NEW t \in Tasks, Calls(t)
      PROVE  LockInv' /\ inner' = inner
  BY <1>1, CallKeepsLock DEF Calls, Call
<1>2. ASSUME NEW t \in Tasks, Resume(t) \/ Cancel(t)
      PROVE  LockInv' /\ inner' = inner
  <2> DEFINE f == py[t].future
  <2>1. f \in Futures /\ UNCHANGED <<inner, readers, made>>
    BY <1>2 DEF PyTyped, Resume, Cancel
  <2>2. PICK rec \in {FreeFuture, [fut[f] EXCEPT !.task = Nobody]} : fut' = [fut EXCEPT ![f] = rec]
    BY <1>2 DEF Resume, Cancel
  <2> HIDE DEF f
  <2> QED  BY <2>1, <2>2, LeavingKeepsLock
<1>3. ASSUME NEW f \in Futures, Runs(f)
      PROVE  LockInv' /\ (inner'.id # inner.id => readers = {})
  BY <1>3, RunsKeepLock
<1>4. CASE UNCHANGED vars
  BY <1>4 DEF vars, LockInv, RustTyped, HoldsGuard
<1>5. readers = {} => \A f \in Futures : fut[f].stage \notin InSession
  BY DEF LockInv, HoldsGuard
<1> QED  BY <1>1, <1>2, <1>3, <1>4, <1>5 DEF Next, Rest

(* No operation continues in a session that was replaced under it, for     *)
(* every number of tasks and futures and whatever is cancelled.            *)
THEOREM NoSwap == Spec => NoSwapUnderOperation
<1>1. Init => GuardInv /\ LockInv
  BY ConstantsTyped, InitGuard DEF Init, LockInv, RustTyped, HoldsGuard, InSession
<1>2. GuardInv /\ LockInv /\ [Next]_vars => (GuardInv /\ LockInv)'
  BY NextKeepsGuard, NextKeepsLock DEF GuardInv
<1>3. GuardInv /\ LockInv /\ [Next]_vars =>
        [inner'.id # inner.id =>
          \A f \in Futures : fut[f].stage \notin {"working", "published", "listing"}]_inner
  BY NextKeepsLock DEF GuardInv, InSession
<1> QED  BY <1>1, <1>2, <1>3, PTL DEF Spec, NoSwapUnderOperation

-----------------------------------------------------------------------------
(* The status.  What it needs of the lock is proved first: whoever waits   *)
(* for it waits behind a writer.                                           *)

Members(q) == { q[i] : i \in 1..Len(q) }

(* Nobody waits twice.                                                     *)
Line(q) == q \in Seq(Futures) /\ \A i, j \in 1..Len(q) : q[i] = q[j] => i = j

(* Who waits is not among the readers, and the first is a writer.          *)
QueueInv ==
  /\ Line(queue)
  /\ Members(queue) \cap readers = {}
  /\ \A f \in Members(queue) : fut[f].stage = "waiting"
  /\ \A f \in readers : f \in Futures /\ fut[f].stage \in {"waiting"} \cup InSession
  /\ queue # <<>> => Writes(queue[1])

-----------------------------------------------------------------------------
(* The queue.                                                              *)

LEMMA LeastIndex ==
  ASSUME NEW T, T \subseteq Nat, T # {}
  PROVE  \E m \in T : \A y \in T : m <= y
<1>1. \E x \in T : \A y \in T : ~(<<y, x>> \in OpToRel(<, Nat))
  BY NatLessThanWellFounded, WFMin
<1>2. \E x \in T : \A y \in T : ~(y < x)
  BY <1>1 DEF OpToRel
<1> QED  BY <1>2

LEMMA MinIsMember ==
  ASSUME NEW T, T \subseteq Nat, T # {}
  PROVE  Min(T) \in T
BY LeastIndex DEF Min

(* Leaving the queue, from any place in it.                                *)
LEMMA Removed ==
  ASSUME NEW q, Line(q), NEW f
  PROVE  /\ Line(RemoveFirst(q, f))
         /\ Members(RemoveFirst(q, f)) \subseteq Members(q) \ {f}
<1> DEFINE r == RemoveFirst(q, f)
<1>1. q \in Seq(Futures) /\ Len(q) \in Nat
  BY LenProperties DEF Line
<1>2. CASE \A i \in 1..Len(q) : q[i] # f
  <2>1. r = q
    BY <1>2 DEF RemoveFirst
  <2> QED  BY <1>2, <2>1 DEF Members
<1>3. CASE \E i \in 1..Len(q) : q[i] = f
  <2> DEFINE I == { i \in 1..Len(q) : q[i] = f }
             k == Min(I)
             a == SubSeq(q, 1, k - 1)
             b == SubSeq(q, k + 1, Len(q))
  <2>1. k \in I
    <3>1. I \subseteq Nat /\ I # {}
      BY <1>1, <1>3
    <3> HIDE DEF I
    <3> QED  BY <3>1, MinIsMember
  <2>2. r = a \o b
    <3>1. I # {}
      BY <1>3
    <3>2. r = RemoveAt(q, k)
      BY <1>3, <3>1, Zenon DEF RemoveFirst, SelectInSeq
    <3> QED  BY <3>2 DEF RemoveAt
  <2>3. k \in 1..Len(q) /\ q[k] = f
    BY <2>1
  <2> HIDE DEF k, r
  <2>4. \A i \in 1..Len(q) : q[i] \in Futures
    BY <1>1, ElementOfSeq
  <2>5. /\ a \in Seq(Futures) /\ Len(a) = k - 1
        /\ \A i \in 1..(k - 1) : a[i] = q[i]
    <3>1. /\ a \in Seq(Futures) /\ Len(a) = IF 1 <= k - 1 THEN (k - 1) - 1 + 1 ELSE 0
          /\ \A i \in 1..((k - 1) - 1 + 1) : a[i] = q[1 + i - 1]
      BY <1>1, <2>3, <2>4, SubSeqProperties
    <3> QED  BY <2>3, <3>1
  <2>6. /\ b \in Seq(Futures) /\ Len(b) = Len(q) - k
        /\ \A i \in 1..(Len(q) - k) : b[i] = q[k + i]
    <3>1. /\ b \in Seq(Futures) /\ Len(b) = IF k + 1 <= Len(q) THEN Len(q) - (k + 1) + 1 ELSE 0
          /\ \A i \in 1..(Len(q) - (k + 1) + 1) : b[i] = q[(k + 1) + i - 1]
      BY <1>1, <2>3, <2>4, SubSeqProperties
    <3> QED  BY <1>1, <2>3, <3>1
  <2> HIDE DEF a, b
  <2>7. /\ r \in Seq(Futures) /\ Len(r) = Len(q) - 1
        /\ \A i \in 1..Len(r) : r[i] = q[IF i < k THEN i ELSE i + 1]
    <3>1. /\ r \in Seq(Futures) /\ Len(r) = Len(a) + Len(b)
          /\ \A i \in 1..(Len(a) + Len(b)) : r[i] = IF i <= Len(a) THEN a[i] ELSE b[i - Len(a)]
      BY <2>2, <2>5, <2>6, ConcatProperties
    <3>2. Len(r) = Len(q) - 1
      BY <1>1, <2>3, <2>5, <2>6, <3>1
    <3>3. ASSUME NEW i \in 1..Len(r) PROVE r[i] = q[IF i < k THEN i ELSE i + 1]
      <4>1. CASE i < k
        BY <1>1, <2>3, <2>5, <3>1, <3>2, <4>1
      <4>2. CASE ~(i < k)
        <5>1. i - (k - 1) \in 1..(Len(q) - k) /\ k + (i - (k - 1)) = i + 1
          BY <1>1, <2>3, <3>2, <4>2
        <5>2. r[i] = b[i - (k - 1)]
          BY <1>1, <2>3, <2>5, <3>1, <4>2
        <5> QED  BY <2>6, <4>2, <5>1, <5>2
      <4> QED  BY <4>1, <4>2
    <3> QED  BY <3>1, <3>2, <3>3
  <2>8. Line(r)
    <3>1. ASSUME NEW i \in 1..Len(r), NEW j \in 1..Len(r), r[i] = r[j]
          PROVE  i = j
      <4> DEFINE m == IF i < k THEN i ELSE i + 1
                 n == IF j < k THEN j ELSE j + 1
      <4>1. m \in 1..Len(q) /\ n \in 1..Len(q)
        BY <1>1, <2>3, <2>7
      <4>2. q[m] = q[n]
        BY <2>7, <3>1
      <4>3. m = n
        BY <4>1, <4>2 DEF Line
      <4> QED  BY <2>3, <4>3
    <3> QED  BY <2>7, <3>1 DEF Line
  <2>9. ASSUME NEW i \in 1..Len(r)
        PROVE  r[i] \in Members(q) \ {f}
    <3> DEFINE m == IF i < k THEN i ELSE i + 1
    <3>1. m \in 1..Len(q) /\ m # k
      BY <1>1, <2>3, <2>7
    <3>2. r[i] = q[m]
      BY <2>7
    <3>3. q[m] # q[k]
      BY <2>3, <3>1 DEF Line
    <3> QED  BY <2>3, <3>1, <3>2, <3>3 DEF Members
  <2>10. Members(r) \subseteq Members(q) \ {f}
    BY <2>9 DEF Members
  <2> QED  BY <2>8, <2>10 DEF r
<1> QED  BY <1>2, <1>3

(* Whoever is still in the queue after an admission waits behind a writer. *)
LEMMA Admitted ==
  ASSUME NEW rs, NEW q, Line(q), Members(q) \cap rs = {}, Admit(rs, q)
  PROVE  /\ Line(queue') /\ Members(queue') \subseteq Members(q)
         /\ readers' \subseteq rs \cup Members(q)
         /\ Members(queue') \cap readers' = {}
         /\ queue' # <<>> => Writes(queue'[1])
<1> DEFINE P == { i \in 1..Len(q) : \A j \in 1..i : ~Writes(q[j]) }
           W == { i \in 1..Len(q) : Writes(q[i]) }
           k == LeadingReaders(q)
<1>1. q \in Seq(Futures) /\ Len(q) \in Nat
  BY LenProperties DEF Line
<1>2. queue' = SubSeq(q, k + 1, Len(q)) /\ k = Cardinality(P)
  BY DEF Admit, LeadingReaders
<1>3. /\ k \in 0..Len(q)
      /\ k < Len(q) => Writes(q[k + 1])
  <2>1. CASE W = {}
    <3>1. P = 1..Len(q)
      BY <1>1, <2>1
    <3>2. Cardinality(1..Len(q)) = Len(q)
      BY <1>1, FS_Interval
    <3>3. k = Len(q)
      BY <1>2, <3>1, <3>2
    <3> HIDE DEF k
    <3> QED  BY <1>1, <3>3
  <2>2. CASE W # {}
    <3>1. PICK w \in W : \A y \in W : w <= y
      <4>1. W \subseteq Nat
        BY <1>1
      <4> HIDE DEF W
      <4> QED  BY <2>2, <4>1, LeastIndex
    <3>2. w \in 1..Len(q) /\ Writes(q[w])
      BY <3>1
    <3>3. P = 1..(w - 1)
      <4>1. ASSUME NEW i \in 1..Len(q), i < w
            PROVE  i \in P
        BY <1>1, <3>1, <4>1
      <4>2. ASSUME NEW i \in P
            PROVE  i \in 1..(w - 1)
        BY <1>1, <3>2, <4>2
      <4>3. \A i \in 1..(w - 1) : i \in 1..Len(q) /\ i < w
        BY <1>1, <3>2
      <4> HIDE DEF P
      <4> QED  BY <4>1, <4>2, <4>3
    <3>4. Cardinality(1..(w - 1)) = w - 1
      BY <1>1, <3>2, FS_Interval
    <3>5. k = w - 1
      BY <1>2, <3>3, <3>4
    <3> HIDE DEF k
    <3> QED  BY <1>1, <3>2, <3>5
  <2> QED  BY <2>1, <2>2
<1> HIDE DEF k, P, W
<1>4. /\ queue' \in Seq(Futures) /\ Len(queue') = Len(q) - k
      /\ \A i \in 1..Len(queue') : queue'[i] = q[k + i]
  <2>1. \A i \in 1..Len(q) : q[i] \in Futures
    BY <1>1, ElementOfSeq
  <2>2. /\ queue' \in Seq(Futures) /\ Len(queue') = IF k + 1 <= Len(q) THEN Len(q) - (k + 1) + 1 ELSE 0
        /\ \A i \in 1..(Len(q) - (k + 1) + 1) : queue'[i] = q[(k + 1) + i - 1]
    BY <1>1, <1>2, <1>3, <2>1, SubSeqProperties
  <2>3. Len(queue') = Len(q) - k
    BY <1>1, <1>3, <2>2
  <2>4. \A i \in 1..Len(queue') : i \in 1..(Len(q) - (k + 1) + 1) /\ (k + 1) + i - 1 = k + i
    BY <1>1, <1>3, <2>3
  <2> QED  BY <2>2, <2>3, <2>4
<1>5. ASSUME NEW i \in 1..Len(queue'), NEW j \in 1..Len(queue'), queue'[i] = queue'[j]
      PROVE  i = j
  <2>1. k + i \in 1..Len(q) /\ k + j \in 1..Len(q)
    BY <1>1, <1>3, <1>4
  <2>2. k + i = k + j
    BY <1>4, <1>5, <2>1 DEF Line
  <2> QED  BY <1>1, <1>3, <1>4, <2>2
<1>6. Line(queue')
  BY <1>4, <1>5 DEF Line
<1>7. ASSUME NEW i \in 1..Len(queue')
      PROVE  queue'[i] \in Members(q)
  <2>1. k + i \in 1..Len(q)
    BY <1>1, <1>3, <1>4
  <2> QED  BY <1>4, <2>1 DEF Members
<1>8. Members(queue') \subseteq Members(q)
  BY <1>7 DEF Members
<1>9. readers' = rs \cup { q[i] : i \in 1..k }
  BY DEF Admit, k
<1>10. readers' \subseteq rs \cup Members(q)
  BY <1>1, <1>3, <1>9 DEF Members
<1>11. ASSUME NEW i \in 1..Len(queue'), queue'[i] \in readers'
      PROVE  FALSE
  <2>1. k + i \in 1..Len(q) /\ queue'[i] = q[k + i]
    BY <1>1, <1>3, <1>4
  <2>2. PICK j \in 1..k : q[j] = q[k + i]
    BY <1>7, <1>9, <1>11, <2>1
  <2>3. j = k + i
    BY <1>1, <1>3, <2>1, <2>2 DEF Line
  <2> QED  BY <1>3, <2>3
<1>12. Members(queue') \cap readers' = {}
  BY <1>11 DEF Members
<1>13. ASSUME queue' # <<>>
      PROVE  Writes(queue'[1])
  <2>1. 1 \in 1..Len(queue')
    BY <1>4, <1>13, EmptySeq
  <2> QED  BY <1>1, <1>3, <1>4, <2>1
<1> QED  BY <1>6, <1>8, <1>10, <1>12, <1>13

(* A future that goes away.                                                *)
LEMMA LeaveKeepsQueue ==
  ASSUME QueueInv, NEW f \in Futures, Leave(f),
         \A g \in Futures : g # f => fut'[g] = fut[g]
  PROVE  QueueInv'
<1> DEFINE q  == RemoveFirst(queue, f)
           rs == readers \ {f}
<1>1. Line(q) /\ Members(q) \subseteq Members(queue) \ {f}
  BY Removed DEF QueueInv
<1>2. Members(q) \cap rs = {} /\ Admit(rs, q)
  BY <1>1 DEF QueueInv, Leave
<1> HIDE DEF q, rs
<1>3. /\ Line(queue') /\ Members(queue') \subseteq Members(q)
      /\ readers' \subseteq rs \cup Members(q)
      /\ Members(queue') \cap readers' = {}
      /\ queue' # <<>> => Writes(queue'[1])
  BY <1>1, <1>2, Admitted
<1>4. \A g \in Members(queue') \cup readers' : g \in Futures /\ g # f /\ fut'[g] = fut[g]
  <2>1. \A g \in Members(queue) \cup readers : g \in Futures
    BY ElementOfSeq DEF QueueInv, Line, Members
  <2> QED  BY <1>1, <1>3, <2>1 DEF rs
<1>5. queue' # <<>> => queue'[1] \in Members(queue')
  BY <1>3, EmptySeq DEF Line, Members
<1>6. (queue # <<>> => Writes(queue[1]))'
  BY <1>3, <1>4, <1>5 DEF Writes
<1>7. /\ \A g \in Members(queue') : fut'[g].stage = "waiting"
      /\ \A g \in readers' : g \in Futures /\ fut'[g].stage \in {"waiting"} \cup InSession
  BY <1>1, <1>3, <1>4 DEF QueueInv, rs
<1> QED  BY <1>3, <1>6, <1>7 DEF QueueInv, Line, Members, InSession

(* A future that takes its place at the end.                               *)
LEMMA InLine ==
  ASSUME QueueInv, NEW f \in Futures, f \notin Members(queue)
  PROVE  /\ Line(Append(queue, f))
         /\ Members(Append(queue, f)) = Members(queue) \cup {f}
         /\ Append(queue, f) # <<>>
         /\ Append(queue, f)[1] = IF queue = <<>> THEN f ELSE queue[1]
<1> DEFINE q == Append(queue, f)
<1>1. queue \in Seq(Futures) /\ Len(queue) \in Nat
  BY LenProperties DEF QueueInv, Line
<1>2. /\ q \in Seq(Futures) /\ Len(q) = Len(queue) + 1
      /\ \A i \in 1..Len(queue) : q[i] = queue[i]
      /\ q[Len(queue) + 1] = f
  BY <1>1, AppendProperties
<1> HIDE DEF q
<1>3. ASSUME NEW i \in 1..Len(q)
      PROVE  \/ i \in 1..Len(queue) /\ q[i] = queue[i]
             \/ i = Len(queue) + 1 /\ q[i] = f
  BY <1>1, <1>2
<1>4. \A i \in 1..Len(queue) : queue[i] \in Members(queue)
  BY DEF Members
<1>5. Line(q)
  <2>1. ASSUME NEW i \in 1..Len(q), NEW j \in 1..Len(q), q[i] = q[j]
        PROVE  i = j
    BY <1>3, <1>4, <2>1 DEF QueueInv, Line
  <2> QED  BY <1>2, <2>1 DEF Line
<1>6. Members(q) = Members(queue) \cup {f}
  <2>1. Members(q) \subseteq Members(queue) \cup {f}
    BY <1>3, <1>4 DEF Members
  <2>2. Len(queue) + 1 \in 1..Len(q) /\ \A i \in 1..Len(queue) : i \in 1..Len(q)
    BY <1>1, <1>2
  <2>3. Members(queue) \cup {f} \subseteq Members(q)
    BY <1>2, <2>2 DEF Members
  <2> QED  BY <2>1, <2>3
<1>7. q # <<>> /\ q[1] = IF queue = <<>> THEN f ELSE queue[1]
  <2>1. queue = <<>> => Len(queue) = 0
    BY EmptySeq
  <2>2. queue # <<>> => 1 \in 1..Len(queue)
    BY <1>1, EmptySeq
  <2> QED  BY <1>1, <1>2, <2>1, <2>2, EmptySeq
<1> QED  BY <1>5, <1>6, <1>7 DEF q

(* A future whose place in the queue, if it has one, is not touched.       *)
LEMMA StayKeepsQueue ==
  ASSUME QueueInv, NEW f \in Futures, Stay, LockInv,
         \A g \in Futures : g # f => fut'[g] = fut[g],
         \/ f \notin Members(queue) \cup readers
         \/ f \in readers /\ fut'[f].stage \in InSession
         \/ UNCHANGED <<fut[f].stage, fut[f].op, fut[f].id>>
  PROVE  QueueInv'
<1>1. UNCHANGED <<queue, readers>> /\ Members(queue)' = Members(queue)
  BY DEF Stay, Members
<1>2. \A g \in Members(queue) \cup readers : g \in Futures
  BY ElementOfSeq DEF QueueInv, Line, Members
<1>3. queue # <<>> => queue[1] \in Members(queue)
  BY EmptySeq DEF QueueInv, Line, Members
<1>4. \A g \in Members(queue) : UNCHANGED <<fut[g].stage, fut[g].op, fut[g].id>>
  BY <1>2 DEF QueueInv
<1>5. \A g \in readers : fut'[g].stage \in {"waiting"} \cup InSession
  BY <1>2 DEF QueueInv
<1>6. (queue # <<>> => Writes(queue[1]))'
  BY <1>1, <1>3, <1>4 DEF QueueInv, Writes
<1> QED  BY <1>1, <1>2, <1>4, <1>5, <1>6 DEF QueueInv, Line, InSession

LEMMA NotInLine ==
  ASSUME QueueInv, NEW f \in Futures, fut[f].stage \notin {"waiting"} \cup InSession
  PROVE  f \notin Members(queue) \cup readers
BY DEF QueueInv

(* One step per action that the queue or a future in it takes part in.     *)
LEMMA RunsKeepQueue ==
  ASSUME LockInv, QueueInv, NEW f \in Futures, Runs(f)
  PROVE  QueueInv'
<1>0. fut \in [Futures -> FutureRecs]
  BY DEF LockInv, RustTyped
<1>1. \A g \in Futures : g # f => fut'[g] = fut[g]
  BY <1>0 DEF Runs, Start, Connect, Write, Enter, TestsInner, Publish, Succeed, Fail, EndBatch,
     Drop, Goes, Finish
<1>2. \A g \in Members(queue) : g \in Futures /\ fut[g].stage = "waiting"
  BY ElementOfSeq DEF QueueInv, Line, Members
<1>3. CASE Leave(f)
  BY <1>1, <1>3, LeaveKeepsQueue
<1>4. CASE Start(f)
  <2>1. f \notin Members(queue) \cup readers
    BY <1>4, NotInLine DEF Start, InSession
  <2>2. CASE Stay
    BY <1>1, <2>1, <2>2, StayKeepsQueue
  <2>3. CASE Goes(f, "waiting") /\ Admit(readers, Append(queue, f))
    <3> DEFINE q == Append(queue, f)
    <3>1. /\ Line(q) /\ Members(q) = Members(queue) \cup {f}
          /\ Members(q) \cap readers = {}
      BY <2>1, InLine DEF QueueInv
    <3>2. Admit(readers, q)
      BY <2>3
    <3> HIDE DEF q
    <3>3. /\ Line(queue') /\ Members(queue') \subseteq Members(q)
          /\ readers' \subseteq readers \cup Members(q)
          /\ Members(queue') \cap readers' = {}
          /\ queue' # <<>> => Writes(queue'[1])
      BY <3>1, <3>2, Admitted
    <3>4. fut'[f].stage = "waiting" /\ fut'[f].op = fut[f].op /\ fut'[f].id = fut[f].id
      BY <1>0, <2>3 DEF Goes, FutureRecs
    <3>5. \A g \in Futures : fut'[g].op = fut[g].op /\ fut'[g].id = fut[g].id
      BY <1>1, <3>4
    <3>6. \A g \in Members(q) : g \in Futures /\ fut'[g].stage = "waiting"
      BY <1>1, <1>2, <3>1, <3>4
    <3>7. queue' # <<>> => queue'[1] \in Members(queue')
      BY <3>3, EmptySeq DEF Line, Members
    <3>8. (queue # <<>> => Writes(queue[1]))'
      BY <3>3, <3>5, <3>6, <3>7 DEF Writes
    <3>9. \A g \in readers' : g \in Futures /\ fut'[g].stage \in {"waiting"} \cup InSession
      BY <1>1, <2>1, <3>3, <3>6 DEF QueueInv
    <3> QED  BY <3>3, <3>6, <3>8, <3>9 DEF QueueInv, Line, Members, InSession
  <2> QED  BY <1>4, <2>2, <2>3 DEF Start
<1>5. CASE Connect(f)
  <2>1. f \notin Members(queue) \cup readers
    BY <1>5, NotInLine DEF Connect, InSession
  <2>2. CASE /\ fut' = [fut EXCEPT ![f].stage = "waiting", ![f].id = made + 1]
             /\ queue' = Append(queue, f) /\ UNCHANGED readers
    <3>1. /\ Line(queue') /\ Members(queue') = Members(queue) \cup {f}
          /\ queue'[1] = IF queue = <<>> THEN f ELSE queue[1]
      BY <2>1, <2>2, InLine
    <3>2. fut'[f].stage = "waiting" /\ fut'[f].id = made + 1 /\ made \in Nat
      BY <1>0, <2>2 DEF FutureRecs, LockInv, RustTyped
    <3>3. \A g \in Members(queue') : g \in Futures /\ fut'[g].stage = "waiting"
      BY <1>1, <1>2, <3>1, <3>2
    <3>4. queue # <<>> => queue[1] \in Members(queue)
      BY EmptySeq DEF QueueInv, Line, Members
    <3>5. (queue # <<>> => Writes(queue[1]))'
      BY <1>1, <1>2, <2>1, <3>1, <3>2, <3>4 DEF QueueInv, Writes
    <3>6. /\ Members(queue') \cap readers' = {}
          /\ \A g \in readers' : g \in Futures /\ fut'[g].stage \in {"waiting"} \cup InSession
      BY <1>1, <2>1, <2>2, <3>1 DEF QueueInv
    <3> QED  BY <3>1, <3>3, <3>5, <3>6 DEF QueueInv, Line, Members, InSession
  <2> QED  BY <1>3, <1>5, <2>2 DEF Connect
<1>6. CASE Enter(f)
  <2>1. CASE Stay /\ f \in readers /\
             fut' = [fut EXCEPT ![f].stage = "working",
                                ![f].career = IF fut[f].op = "set_career" THEN @ ELSE inner.career]
    <3>1. fut'[f].stage \in InSession
      BY <1>0, <2>1 DEF FutureRecs, InSession
    <3> QED  BY <1>1, <2>1, <3>1, StayKeepsQueue
  <2> QED  BY <1>3, <1>6, <2>1 DEF Enter, TestsInner
<1>7. CASE Publish(f)
  <2>1. f \in readers /\ Stay
    BY <1>7 DEF Publish, LockInv, HoldsGuard, InSession
  <2>2. fut'[f].stage \in InSession
    BY <1>0, <1>7 DEF Publish, Goes, InSession, FutureRecs
  <2> QED  BY <1>1, <2>1, <2>2, StayKeepsQueue
<1>8. CASE EndBatch(f)
  <2>1. f \notin Members(queue) \cup readers /\ Stay
    BY <1>8, NotInLine DEF EndBatch, InSession
  <2> QED  BY <1>1, <2>1, StayKeepsQueue
<1> QED  BY <1>3, <1>4, <1>5, <1>6, <1>7, <1>8 DEF Runs, Write, Succeed, Fail, Drop

LEMMA NextKeepsQueue == PyTyped /\ LockInv /\ QueueInv /\ [Next]_vars => QueueInv'
<1> SUFFICES ASSUME PyTyped, LockInv, QueueInv, [Next]_vars
             PROVE  QueueInv'
  OBVIOUS
<1>0. fut \in [Futures -> FutureRecs]
  BY DEF LockInv, RustTyped
<1>1. ASSUME NEW t \in Tasks, Calls(t)
      PROVE  QueueInv'
  <2>1. PICK name, career : Call(t, name, career)
    BY <1>1 DEF Calls
  <2>2. Stay
    BY <2>1 DEF Call, Stay
  <2>3. CASE UNCHANGED fut
    BY <2>2, <2>3 DEF Stay, QueueInv, Members, Line, Writes, InSession
  <2>4. CASE \E op : Spawn(t, name, op, career)
    <3>1. PICK f \in Futures : /\ fut[f].stage = "free"
                               /\ \A g \in Futures : g # f => fut'[g] = fut[g]
      BY <1>0, <2>4 DEF Spawn
    <3>2. f \notin Members(queue) \cup readers
      BY <3>1, NotInLine DEF InSession
    <3> QED  BY <2>2, <3>1, <3>2, StayKeepsQueue
  <2> QED  BY <2>1, <2>3, <2>4 DEF Call
<1>2. ASSUME NEW t \in Tasks, Resume(t) \/ Cancel(t)
      PROVE  QueueInv'
  <2>0. PICK f \in Futures : f = py[t].future
    BY <1>2 DEF PyTyped, Resume, Cancel
  <2>1. Stay
    BY <1>2 DEF Resume, Cancel, Stay
  <2>2. \A g \in Futures : g # f => fut'[g] = fut[g]
    BY <1>0, <1>2, <2>0 DEF Resume, Cancel
  <2>3. CASE fut[f].stage = "done"
    <3>1. f \notin Members(queue) \cup readers
      BY <2>3, NotInLine DEF InSession
    <3> QED  BY <2>1, <2>2, <3>1, StayKeepsQueue
  <2>4. CASE fut[f].stage # "done"
    <3>1. UNCHANGED <<fut[f].stage, fut[f].op, fut[f].id>>
      BY <1>0, <1>2, <2>0, <2>4 DEF Resume, Cancel, FutureRecs
    <3> QED  BY <2>1, <2>2, <3>1, StayKeepsQueue
  <2> QED  BY <2>3, <2>4
<1>3. CASE UNCHANGED vars
  BY <1>3 DEF vars, QueueInv, Members, Line, Writes, InSession
<1> QED  BY <1>1, <1>2, <1>3, RunsKeepQueue DEF Next, Rest

-----------------------------------------------------------------------------
(* The status.  Without cancellation each future belongs to the task that  *)
(* awaits it, and only a guarded one changes the session.                  *)

Quiet == face = "wrapper" /\ cancels = 0

Method(name) == IF name = "close" THEN "reset" ELSE name

Owned ==
  /\ \A f \in Futures : fut[f].stage # "free" =>
       /\ fut[f].task \in Tasks /\ py[fut[f].task].future = f
       /\ py[fut[f].task].name \in WrapperMethods
       /\ fut[f].op = Method(py[fut[f].task].name)
  /\ \A t \in Tasks : py[t] # Idle =>
       /\ py[t].future \in Futures
       /\ fut[py[t].future].stage # "free" /\ fut[py[t].future].task = t

(* What the stage of a future says of its method.                          *)
Kinds == \A f \in Futures :
  /\ fut[f].id # 0 \/ fut[f].stage = "connecting" => fut[f].op = "init_session"
  /\ fut[f].stage = "batch" => fut[f].op = "scrape_courses"
  /\ fut[f].stage \in InSession =>
       \/ fut[f].op = "set_career"
       \/ fut[f].op = "scrape_course_info" /\ inner.status = "ON_CAREER_PAGE"

(* The copy's status as it will be when a task has read the record of its  *)
(* future.                                                                 *)
Told(name, rec) ==
  IF rec.stage = "done" /\ name = "close" THEN EmptyCache.status
  ELSE IF rec.stage = "done" /\ rec.ok /\ name \in {"init_session", "set_career", "get_state"}
    THEN rec.model.status
    ELSE cache.status

Agreed ==
  /\ \A t \in Guarded : Told(py[t].name, fut[py[t].future]) = NormalizeStatus(inner.status)
  /\ Guarded = {} => cache.status = NormalizeStatus(inner.status)

StatusInv == cancels \in Nat /\ (Quiet => Owned /\ Kinds /\ Agreed)

(* The task of a future, and what it holds when the method is guarded.     *)
LEMMA Owner ==
  ASSUME GuardInv, Quiet, Owned, Agreed, NEW f \in Futures, fut[f].stage # "free"
  PROVE  LET t == fut[f].task
         IN  /\ t \in Tasks /\ t # Nobody /\ py[t].future = f
             /\ py[t].name \in WrapperMethods /\ fut[f].op = Method(py[t].name)
             /\ fut[f].op # "get_session_data" =>
                  /\ Guarded = {t}
                  /\ Told(py[t].name, fut[f]) = NormalizeStatus(inner.status)
<1> DEFINE t == fut[f].task
<1>1. /\ t \in Tasks /\ t # Nobody /\ py[t].future = f
      /\ py[t].name \in WrapperMethods /\ fut[f].op = Method(py[t].name)
  BY PyAssumption DEF Owned
<1>2. ASSUME fut[f].op # "get_session_data"
      PROVE  Guarded = {t} /\ Told(py[t].name, fut[f]) = NormalizeStatus(inner.status)
  <2>1. py[t] # Idle
    BY <1>1, PyAssumption DEF Idle
  <2>2. t \in Guarded
    BY <1>1, <1>2, <2>1 DEF Guarded, Guards, Quiet, Method
  <2>3. Guarded = {t}
    BY <2>2 DEF GuardInv, OneOperation
  <2> QED  BY <1>1, <2>2, <2>3 DEF Agreed
<1> QED  BY <1>1, <1>2

(* A future that is given another record by its own step.                  *)
LEMMA StatusMoves ==
  ASSUME GuardInv, Quiet, Owned, Kinds, Agreed, fut \in [Futures -> FutureRecs],
         NEW f \in Futures, fut[f].stage # "free", NEW rec,
         fut' = [fut EXCEPT ![f] = rec], UNCHANGED <<face, active, cache, py>>,
         rec.task = fut[f].task, rec.op = fut[f].op, rec.stage # "free",
         rec.id # 0 \/ rec.stage = "connecting" => rec.op = "init_session",
         rec.stage = "batch" => rec.op = "scrape_courses",
         rec.stage \in InSession =>
           \/ rec.op = "set_career"
           \/ rec.op = "scrape_course_info" /\ inner'.status = "ON_CAREER_PAGE",
         inner'.status # inner.status => rec.op # "get_session_data",
         rec.op # "get_session_data" =>
           Told(py[fut[f].task].name, rec) = NormalizeStatus(inner'.status)
  PROVE  Owned' /\ Kinds' /\ Agreed'
<1> DEFINE t == fut[f].task
<1>1. /\ fut'[f] = rec
      /\ \A g \in Futures : g # f => fut'[g] = fut[g]
  OBVIOUS
<1>2. /\ t \in Tasks /\ t # Nobody /\ py[t].future = f
      /\ py[t].name \in WrapperMethods /\ fut[f].op = Method(py[t].name)
      /\ fut[f].op # "get_session_data" => Guarded = {t}
  BY Owner
<1>3. Owned'
  <2>1. \A g \in Futures : /\ fut'[g].stage # "free" <=> fut[g].stage # "free"
                            /\ fut'[g].task = fut[g].task /\ fut'[g].op = fut[g].op
    BY <1>1
  <2> QED  BY <2>1 DEF Owned
<1>4. ASSUME NEW g \in Futures, g # f, fut[g].stage \in InSession, fut[g].op # "set_career"
      PROVE  inner'.status = "ON_CAREER_PAGE"
  <2>1. fut[g].op = "scrape_course_info" /\ inner.status = "ON_CAREER_PAGE"
    BY <1>4 DEF Kinds
  <2>2. fut[g].stage # "free" /\ fut[g].op # "get_session_data"
    BY <1>4, <2>1 DEF InSession
  <2>3. Guarded = {fut[g].task} /\ py[fut[g].task].future = g
    BY <2>2, Owner
  <2>4. fut[f].op = "get_session_data"
    BY <1>2, <1>4, <2>3
  <2> QED  BY <2>1, <2>4
<1>5. Kinds'
  <2>1. ASSUME NEW g \in Futures, g # f
        PROVE  /\ fut'[g].id # 0 \/ fut'[g].stage = "connecting" => fut'[g].op = "init_session"
               /\ fut'[g].stage = "batch" => fut'[g].op = "scrape_courses"
               /\ fut'[g].stage \in InSession =>
                    \/ fut'[g].op = "set_career"
                    \/ fut'[g].op = "scrape_course_info" /\ inner'.status = "ON_CAREER_PAGE"
    BY <1>1, <1>4, <2>1 DEF Kinds
  <2> QED  BY <1>1, <2>1 DEF Kinds, InSession
<1>6. Guarded' = Guarded
  BY DEF Guarded, Guards
<1>7. Agreed'
  <2>1. CASE fut[f].op # "get_session_data"
    <3>1. Guarded' = {t} /\ Told(py[t].name, fut[py[t].future])' = Told(py[t].name, rec)
      BY <1>1, <1>2, <1>6, <2>1 DEF Told, EmptyCache, Model
    <3> QED  BY <2>1, <3>1 DEF Agreed, NormalizeStatus
  <2>2. CASE fut[f].op = "get_session_data"
    <3>1. inner'.status = inner.status
      BY <2>2
    <3>2. ASSUME NEW u \in Guarded
          PROVE  fut'[py[u].future] = fut[py[u].future]
      <4>1. py[u].future \in Futures /\ fut[py[u].future].task = u
        BY <3>2 DEF Guarded, Owned
      <4>2. py[u].future # f
        BY <1>2, <2>2, <3>2, <4>1 DEF Guarded, Guards, Quiet, Method
      <4> QED  BY <1>1, <4>1, <4>2
    <3> QED  BY <1>6, <3>1, <3>2 DEF Agreed, Told
  <2> QED  BY <2>1, <2>2
<1> QED  BY <1>3, <1>5, <1>7

(* A future that ends: its task is there to be told.                       *)
LEMMA FinishTells ==
  ASSUME GuardInv, Quiet, Owned, Kinds, Agreed, fut \in [Futures -> FutureRecs],
         NEW f \in Futures, fut[f].stage # "free", NEW ok \in BOOLEAN, NEW model,
         Finish(f, ok, model), UNCHANGED <<face, active, cache, py>>,
         inner'.status # inner.status => fut[f].op # "get_session_data",
         LET name == py[fut[f].task].name
             now  == NormalizeStatus(inner'.status)
         IN  fut[f].op # "get_session_data" =>
               \/ name = "close" /\ now = EmptyCache.status
               \/ ok /\ name \in {"init_session", "set_career", "get_state"} /\ now = model.status
               \/ /\ name # "close" /\ now = cache.status
                  /\ ok => name \notin {"init_session", "set_career", "get_state"}
  PROVE  Owned' /\ Kinds' /\ Agreed'
<1> DEFINE rec  == [fut[f] EXCEPT !.stage = "done", !.ok = ok, !.model = model]
           name == py[fut[f].task].name
<1>1. fut[f].task # Nobody
  BY Owner
<1>2. fut' = [fut EXCEPT ![f] = rec]
  BY <1>1 DEF Finish
<1>3. /\ rec.stage = "done" /\ rec.ok = ok /\ rec.model = model
      /\ rec.task = fut[f].task /\ rec.op = fut[f].op /\ rec.id = fut[f].id
  BY DEF FutureRecs
<1> HIDE DEF rec
<1>4. rec.op # "get_session_data" => Told(name, rec) = NormalizeStatus(inner'.status)
  BY <1>3 DEF Told
<1>5. rec.id # 0 => rec.op = "init_session"
  BY <1>3 DEF Kinds
<1> QED  BY <1>2, <1>3, <1>4, <1>5, StatusMoves DEF InSession

(* A future that goes on to another stage.                                 *)
LEMMA StageTells ==
  ASSUME GuardInv, Quiet, Owned, Kinds, Agreed, fut \in [Futures -> FutureRecs],
         NEW f \in Futures, fut[f].stage \notin {"free", "done"}, NEW rec,
         fut' = [fut EXCEPT ![f] = rec], UNCHANGED <<face, active, cache, py>>,
         rec.task = fut[f].task, rec.op = fut[f].op, rec.stage \notin {"free", "done"},
         rec.id # 0 \/ rec.stage = "connecting" => rec.op = "init_session",
         rec.stage = "batch" => rec.op = "scrape_courses",
         rec.stage \in InSession =>
           \/ rec.op = "set_career"
           \/ rec.op = "scrape_course_info" /\ inner.status = "ON_CAREER_PAGE",
         inner'.status = inner.status
  PROVE  Owned' /\ Kinds' /\ Agreed'
<1> DEFINE name == py[fut[f].task].name
<1>1. fut[f].op # "get_session_data" => Told(name, fut[f]) = NormalizeStatus(inner.status)
  BY Owner
<1>2. fut[f].op # "get_session_data" => Told(name, rec) = NormalizeStatus(inner.status)
  BY <1>1 DEF Told
<1> QED  BY <1>2, StatusMoves

(* One step per action.                                                    *)
LEMMA RunsKeepStatus ==
  ASSUME GuardInv, LockInv, Quiet, Owned, Kinds, Agreed, NEW f \in Futures, Runs(f)
  PROVE  Owned' /\ Kinds' /\ Agreed'
<1> DEFINE t    == fut[f].task
           name == py[t].name
           op   == fut[f].op
<1>1. /\ fut \in [Futures -> FutureRecs] /\ fut[f] \in FutureRecs
      /\ inner \in Sessions /\ made \in Nat
  BY DEF LockInv, RustTyped
<1>2. /\ fut[f].stage \notin {"free", "done"}
      /\ UNCHANGED <<face, active, cache, py>>
  BY DEF Runs, Start, Connect, Write, Enter, Publish, Succeed, Fail, EndBatch, Drop, PySide
<1>3. t # Nobody /\ name \in WrapperMethods /\ op = Method(name)
  BY <1>2, Owner
<1>4. op # "get_session_data" => cache.status = NormalizeStatus(inner.status)
  BY <1>2, Owner DEF Told
<1>5. /\ fut[f].id # 0 \/ fut[f].stage = "connecting" => op = "init_session"
      /\ fut[f].stage = "batch" => op = "scrape_courses"
      /\ fut[f].stage \in InSession =>
           \/ op = "set_career"
           \/ op = "scrape_course_info" /\ inner.status = "ON_CAREER_PAGE"
  BY DEF Kinds
<1>6. NormalizeStatus("CREATED") = EmptyCache.status
  BY DEF EmptyCache, Model, NoSession
<1>7. ASSUME NEW stage \in {"connecting", "waiting", "batch", "published", "listing"},
             Goes(f, stage), inner'.status = inner.status,
             stage = "connecting" => op = "init_session",
             stage = "batch" => op = "scrape_courses",
             stage \in InSession => fut[f].stage \in InSession
      PROVE  Owned' /\ Kinds' /\ Agreed'
  <2> DEFINE rec == [fut[f] EXCEPT !.stage = stage]
  <2>1. /\ rec.stage = stage /\ rec.task = t /\ rec.op = op /\ rec.id = fut[f].id
        /\ fut' = [fut EXCEPT ![f] = rec]
    BY <1>1, <1>7 DEF Goes, FutureRecs
  <2> HIDE DEF rec
  <2> QED  BY <1>1, <1>2, <1>5, <1>7, <2>1, StageTells
<1>8. ASSUME Finish(f, FALSE, EmptyCache), name # "close", inner'.status = inner.status
      PROVE  Owned' /\ Kinds' /\ Agreed'
  BY <1>1, <1>2, <1>4, <1>8, FinishTells
<1>9. CASE Start(f)
  <2>1. inner' = inner
    BY <1>9 DEF Start
  <2>2. PICK stage \in {"connecting", "waiting"} :
          Goes(f, stage) /\ (stage = "connecting" => op = "init_session")
    BY <1>9 DEF Start
  <2> QED  BY <1>7, <2>1, <2>2 DEF InSession
<1>10. CASE Connect(f)
  <2>1. inner' = inner /\ op = "init_session" /\ name # "close"
    BY <1>3, <1>5, <1>10 DEF Connect, Method
  <2>2. CASE fut' = [fut EXCEPT ![f].stage = "waiting", ![f].id = made + 1]
    <3> DEFINE rec == [fut[f] EXCEPT !.stage = "waiting", !.id = made + 1]
    <3>1. /\ rec.stage = "waiting" /\ rec.task = t /\ rec.op = op
          /\ fut' = [fut EXCEPT ![f] = rec]
      BY <1>1, <2>2 DEF FutureRecs
    <3> HIDE DEF rec
    <3> QED  BY <1>1, <1>2, <2>1, <3>1, StageTells DEF InSession
  <2> QED  BY <1>8, <1>10, <2>1, <2>2 DEF Connect
<1>11. CASE Write(f)
  <2>1. Writes(f) /\ Finish(f, TRUE, Model(inner'))
    BY <1>11 DEF Write
  <2>2. CASE op = "reset"
    <3>1. inner' = NoSession /\ name = "close"
      BY <1>3, <1>11, <2>2 DEF Write, Method, WrapperMethods, RustMethods
    <3>2. inner'.status = "CREATED"
      BY <3>1 DEF NoSession
    <3> QED  BY <1>1, <1>2, <1>6, <2>1, <2>2, <3>1, <3>2, FinishTells
  <2>3. CASE op # "reset"
    <3>1. op = "init_session" /\ name = "init_session"
      BY <1>3, <1>5, <2>1, <2>3 DEF Writes, Method
    <3>2. Model(inner').status = NormalizeStatus(inner'.status)
      BY DEF Model
    <3> QED  BY <1>1, <1>2, <2>1, <3>1, <3>2, FinishTells
  <2> QED  BY <2>2, <2>3
<1>12. CASE Enter(f)
  <2>1. inner' = inner /\ op # "reset" /\ name # "close"
    BY <1>3, <1>12 DEF Enter, Writes, Method
  <2>2. op # "aenter"
    BY <1>3 DEF Method, WrapperMethods, RustMethods
  <2>3. CASE Finish(f, FALSE, EmptyCache)
    BY <1>8, <2>1, <2>3
  <2>4. CASE op \in {"get_state", "get_session_data"} /\ Finish(f, TRUE, Model(inner))
    <3>1. op # "get_session_data" => name = "get_state"
      BY <1>3, <2>1, <2>4 DEF Method
    <3>2. Model(inner).status = NormalizeStatus(inner.status)
      BY DEF Model
    <3> QED  BY <1>1, <1>2, <2>1, <2>4, <3>1, <3>2, FinishTells
  <2>5. CASE op = "scrape_courses" /\ Goes(f, "batch")
    BY <1>7, <2>1, <2>5 DEF InSession
  <2>6. CASE Works(f) /\
             fut' = [fut EXCEPT ![f].stage = "working",
                                ![f].career = IF fut[f].op = "set_career" THEN @ ELSE inner.career]
    <3> DEFINE rec == [fut[f] EXCEPT !.stage = "working",
                         !.career = IF fut[f].op = "set_career" THEN @ ELSE inner.career]
    <3>1. /\ rec.stage = "working" /\ rec.task = t /\ rec.op = op /\ rec.id = fut[f].id
          /\ fut' = [fut EXCEPT ![f] = rec]
      BY <1>1, <2>6 DEF FutureRecs
    <3>2. \/ op = "set_career"
          \/ op = "scrape_course_info" /\ inner.status = "ON_CAREER_PAGE"
      BY <2>6 DEF Works
    <3> HIDE DEF rec
    <3> QED  BY <1>1, <1>2, <1>5, <2>1, <3>1, <3>2, StageTells
  <2> QED  BY <1>12, <2>2, <2>3, <2>4, <2>5, <2>6 DEF Enter
<1>13. CASE Publish(f)
  <2>1. inner'.status = inner.status
    BY <1>1, <1>13 DEF Publish, Sessions
  <2>2. PICK stage \in {"published", "listing"} : Goes(f, stage)
    BY <1>13 DEF Publish
  <2>3. fut[f].stage \in InSession
    BY <1>13 DEF Publish, InSession
  <2> QED  BY <1>7, <2>1, <2>2, <2>3
<1>14. OnCareerPage(f).status = "ON_CAREER_PAGE"
  BY <1>1 DEF OnCareerPage, Sessions
<1>15. CASE Succeed(f)
  <2>1. inner' = OnCareerPage(f) /\ Finish(f, TRUE, Model(inner'))
    BY <1>15 DEF Succeed
  <2>2. Model(inner').status = NormalizeStatus(inner'.status)
    BY DEF Model
  <2>3. CASE op = "set_career"
    <3>1. name = "set_career"
      BY <1>3, <2>3 DEF Method
    <3> QED  BY <1>1, <1>2, <2>1, <2>2, <2>3, <3>1, FinishTells
  <2>4. CASE op # "set_career"
    <3>1. op = "scrape_course_info" /\ inner'.status = inner.status
      BY <1>5, <1>14, <1>15, <2>1, <2>4 DEF Succeed, InSession
    <3>2. name = "scrape_course_info"
      BY <1>3, <3>1 DEF Method
    <3> QED  BY <1>1, <1>2, <1>4, <2>1, <3>1, <3>2, FinishTells
  <2> QED  BY <2>3, <2>4
<1>16. CASE Fail(f)
  <2>1. op \in {"set_career", "scrape_course_info"} /\ name # "close"
    BY <1>3, <1>5, <1>16 DEF Fail, InSession, Method
  <2>2. inner'.status = inner.status
    BY <1>5, <1>14, <1>16 DEF Fail, InSession
  <2>3. Finish(f, FALSE, EmptyCache)
    BY <1>16 DEF Fail
  <2> QED  BY <1>8, <2>1, <2>2, <2>3
<1>17. CASE EndBatch(f)
  <2>1. op = "scrape_courses" /\ name = "scrape_courses" /\ inner' = inner
    BY <1>3, <1>5, <1>17 DEF EndBatch, Method
  <2>2. PICK ok \in BOOLEAN : Finish(f, ok, EmptyCache)
    BY <1>17 DEF EndBatch
  <2> QED  BY <1>1, <1>2, <1>4, <2>1, <2>2, FinishTells
<1>18. ~Drop(f)
  BY <1>3 DEF Drop
<1> QED  BY <1>9, <1>10, <1>11, <1>12, <1>13, <1>15, <1>16, <1>17, <1>18 DEF Runs

(* When no guarded operation is active, nobody waits for the lock.         *)
LEMMA NobodyWaits ==
  ASSUME GuardInv, QueueInv, Quiet, Owned, Kinds, Agreed, Guarded = {}
  PROVE  queue = <<>>
<1> SUFFICES ASSUME queue # <<>> PROVE FALSE
  OBVIOUS
<1>1. PICK f \in Futures : f = queue[1]
  BY ElementOfSeq, EmptySeq DEF QueueInv, Line
<1>2. f \in Members(queue)
  BY <1>1, EmptySeq DEF QueueInv, Line, Members
<1>3. fut[f].stage = "waiting" /\ fut[f].op \in {"reset", "init_session"}
  BY <1>1, <1>2 DEF QueueInv, Writes, Kinds
<1> QED  BY <1>3, Owner

(* A call: the new future belongs to its task; a close that finds no       *)
(* session clears the copy of none.                                        *)
LEMMA CallKeepsStatus ==
  ASSUME GuardInv, LockInv, QueueInv, Quiet, Owned, Kinds, Agreed, NEW t \in Tasks, Calls(t)
  PROVE  Owned' /\ Kinds' /\ Agreed'
<1>1. PICK name, career : name \in WrapperMethods /\ Call(t, name, career)
  BY DEF Calls, Quiet
<1>2. /\ py[t] = Idle /\ UNCHANGED <<face, inner, cancels>>
      /\ name # "get_session_data" => Guarded = {}
      /\ fut \in [Futures -> FutureRecs]
      /\ DOMAIN py = Tasks
  BY <1>1 DEF Call, Guards, Quiet, GuardInv, PyTyped, OneOperation, LockInv, RustTyped
<1>3. CASE name = "close" /\ ~IsInitialized
  <2>1. cache' = EmptyCache /\ UNCHANGED <<fut, py>>
    BY <1>1, <1>3 DEF Call
  <2>2. Guarded = {} /\ Guarded' = {}
    BY <1>2, <1>3, <2>1 DEF Guarded, Guards
  <2>3. inner = NoSession
    BY <1>3, <2>2, NobodyWaits DEF IsInitialized
  <2>4. cache'.status = NormalizeStatus(inner'.status)
    BY <1>2, <2>1, <2>3 DEF EmptyCache, Model
  <2> QED  BY <1>2, <2>1, <2>2, <2>4 DEF Owned, Kinds, Agreed, NormalizeStatus
<1>4. CASE ~(name = "close" /\ ~IsInitialized)
  <2> DEFINE rec == [FreeFuture EXCEPT !.op = Method(name), !.stage = "start", !.task = t,
                                       !.career = career]
  <2>1. Spawn(t, name, Method(name), career) /\ cache' = cache
    BY <1>1, <1>4 DEF Call, Method
  <2>2. PICK f \in Futures : /\ fut[f].stage = "free" /\ fut' = [fut EXCEPT ![f] = rec]
                             /\ py' = [py EXCEPT ![t] = [name |-> name, future |-> f]]
    BY <2>1 DEF Spawn
  <2>3. rec.op = Method(name) /\ rec.stage = "start" /\ rec.task = t /\ rec.id = 0
    BY DEF FreeFuture
  <2> HIDE DEF rec
  <2>4. /\ fut'[f] = rec /\ py'[t] = [name |-> name, future |-> f]
        /\ \A g \in Futures : g # f => fut'[g] = fut[g]
        /\ \A u \in Tasks : u # t => py'[u] = py[u]
    BY <1>2, <2>2
  <2>5. \A g \in Futures : fut[g].stage # "free" => fut[g].task # t
    BY <1>2, PyAssumption DEF Owned, Idle
  <2>6. \A u \in Tasks : py[u] # Idle => u # t /\ py[u].future # f
    BY <1>2, <2>2 DEF Owned
  <2>7. Owned'
    <3>1. ASSUME NEW g \in Futures, fut'[g].stage # "free"
          PROVE  /\ fut'[g].task \in Tasks /\ py'[fut'[g].task].future = g
                 /\ py'[fut'[g].task].name \in WrapperMethods
                 /\ fut'[g].op = Method(py'[fut'[g].task].name)
      <4>1. CASE g = f
        BY <1>1, <2>3, <2>4, <4>1
      <4>2. CASE g # f
        BY <2>4, <2>5, <3>1, <4>2 DEF Owned
      <4> QED  BY <4>1, <4>2
    <3>2. ASSUME NEW u \in Tasks, py'[u] # Idle
          PROVE  /\ py'[u].future \in Futures
                 /\ fut'[py'[u].future].stage # "free" /\ fut'[py'[u].future].task = u
      <4>1. CASE u = t
        BY <2>3, <2>4, <4>1
      <4>2. CASE u # t
        BY <2>4, <2>6, <3>2, <4>2 DEF Owned
      <4> QED  BY <4>1, <4>2
    <3> QED  BY <3>1, <3>2 DEF Owned, Method
  <2>8. Kinds'
    BY <1>2, <2>3, <2>4 DEF Kinds, InSession
  <2>9. Agreed'
    <3>1. \A u \in Guarded : /\ u # t /\ py'[u] = py[u]
                             /\ fut'[py[u].future] = fut[py[u].future]
      BY <2>4, <2>6 DEF Guarded, Owned
    <3>2. CASE name = "get_session_data"
      <4>1. Guarded' = Guarded
        BY <1>2, <2>4, <3>2 DEF Guarded, Guards
      <4> QED  BY <1>2, <2>1, <3>1, <4>1 DEF Agreed, Told
    <3>3. CASE name # "get_session_data"
      <4>1. Guarded = {} /\ Guarded' = {t}
        <5>1. Guarded = {}
          BY <1>2, <3>3
        <5>2. py'[t] # Idle /\ Guards(name)
          BY <2>4, <3>3, PyAssumption DEF Idle, Guards, Quiet
        <5>3. \A u \in Tasks : u \in Guarded' <=> u = t
          BY <1>2, <2>4, <5>1, <5>2 DEF Guarded, Guards
        <5> QED  BY <5>1, <5>3 DEF Guarded
      <4>2. cache'.status = NormalizeStatus(inner'.status)
        BY <1>2, <2>1, <4>1 DEF Agreed
      <4>3. Told(py[t].name, fut[py[t].future])' = cache'.status
        BY <2>3, <2>4 DEF Told
      <4> QED  BY <4>1, <4>2, <4>3 DEF Agreed, NormalizeStatus
    <3> QED  BY <3>2, <3>3
  <2> QED  BY <2>7, <2>8, <2>9
<1> QED  BY <1>3, <1>4

(* A task that takes its result.                                           *)
LEMMA ResumeKeepsStatus ==
  ASSUME GuardInv, LockInv, Quiet, Owned, Kinds, Agreed, NEW t \in Tasks, Resume(t)
  PROVE  Owned' /\ Kinds' /\ Agreed'
<1>1. PICK f \in Futures : /\ f = py[t].future /\ fut[f].stage = "done"
                           /\ fut' = [fut EXCEPT ![f] = FreeFuture]
  BY DEF Resume, GuardInv, PyTyped
<1>2. /\ py' = [py EXCEPT ![t] = Idle] /\ UNCHANGED <<face, inner, cancels>>
      /\ cache' = Synced(t, f)
      /\ fut \in [Futures -> FutureRecs] /\ DOMAIN py = Tasks
  BY <1>1 DEF Resume, Quiet, GuardInv, PyTyped, LockInv, RustTyped
<1>3. /\ fut'[f] = FreeFuture /\ py'[t] = Idle
      /\ \A g \in Futures : g # f => fut'[g] = fut[g]
      /\ \A u \in Tasks : u # t => py'[u] = py[u]
  BY <1>1, <1>2
<1>4. py[t] # Idle /\ fut[f].task = t /\ py[t].name \in WrapperMethods
  BY <1>1, PyAssumption DEF Owned, Idle
<1>5. /\ \A g \in Futures : g # f /\ fut[g].stage # "free" => fut[g].task # t
      /\ \A u \in Tasks : u # t /\ py[u] # Idle => py[u].future # f
  BY <1>1, <1>4 DEF Owned
<1>6. FreeFuture.stage = "free" /\ FreeFuture.id = 0
  BY DEF FreeFuture
<1>7. Owned'
  <2>1. ASSUME NEW g \in Futures, fut'[g].stage # "free"
        PROVE  /\ fut'[g].task \in Tasks /\ py'[fut'[g].task].future = g
               /\ py'[fut'[g].task].name \in WrapperMethods
               /\ fut'[g].op = Method(py'[fut'[g].task].name)
    BY <1>3, <1>5, <1>6, <2>1 DEF Owned
  <2>2. ASSUME NEW u \in Tasks, py'[u] # Idle
        PROVE  /\ py'[u].future \in Futures
               /\ fut'[py'[u].future].stage # "free" /\ fut'[py'[u].future].task = u
    BY <1>3, <1>5, <2>2 DEF Owned
  <2> QED  BY <2>1, <2>2 DEF Owned, Method
<1>8. Kinds'
  BY <1>2, <1>3, <1>6 DEF Kinds, InSession
<1>9. Agreed'
  <2>1. CASE py[t].name = "get_session_data"
    <3>1. cache' = cache
      BY <1>2, <2>1 DEF Synced
    <3>2. Guarded' = Guarded
      BY <1>2, <1>3, <2>1 DEF Guarded, Guards
    <3>3. \A u \in Guarded : /\ py'[u] = py[u]
                             /\ fut'[py[u].future] = fut[py[u].future]
      BY <1>3, <1>5, <2>1 DEF Guarded, Guards, Owned
    <3> QED  BY <1>2, <3>1, <3>2, <3>3 DEF Agreed, Told
  <2>2. CASE py[t].name # "get_session_data"
    <3>1. t \in Guarded
      BY <1>4, <2>2 DEF Guarded, Guards, Quiet
    <3>2. Guarded' = {}
      BY <1>2, <1>3, <3>1 DEF GuardInv, OneOperation, Guarded, Guards
    <3>3. cache'.status = Told(py[t].name, fut[f])
      BY <1>1, <1>2 DEF Synced, Told
    <3>4. cache'.status = NormalizeStatus(inner'.status)
      BY <1>1, <1>2, <3>1, <3>3 DEF Agreed
    <3> QED  BY <3>2, <3>4 DEF Agreed, NormalizeStatus
  <2> QED  BY <2>1, <2>2
<1> QED  BY <1>7, <1>8, <1>9

LEMMA NextKeepsStatus ==
  GuardInv /\ LockInv /\ QueueInv /\ StatusInv /\ [Next]_vars => StatusInv'
<1> SUFFICES ASSUME GuardInv, LockInv, QueueInv, StatusInv, [Next]_vars
             PROVE  StatusInv'
  OBVIOUS
<1>1. ASSUME NEW t \in Tasks, Calls(t)
      PROVE  StatusInv'
  <2>1. UNCHANGED <<face, cancels>>
    BY <1>1 DEF Calls, Call
  <2>2. Quiet' => Owned' /\ Kinds' /\ Agreed'
    BY <1>1, <2>1, CallKeepsStatus DEF StatusInv, Quiet
  <2> QED  BY <2>1, <2>2 DEF StatusInv
<1>2. ASSUME NEW t \in Tasks, Resume(t)
      PROVE  StatusInv'
  <2>1. UNCHANGED <<face, cancels>>
    BY <1>2 DEF Resume
  <2>2. Quiet' => Owned' /\ Kinds' /\ Agreed'
    BY <1>2, <2>1, ResumeKeepsStatus DEF StatusInv, Quiet
  <2> QED  BY <2>1, <2>2 DEF StatusInv
<1>3. ASSUME NEW t \in Tasks, Cancel(t)
      PROVE  StatusInv'
  <2>1. cancels' = cancels + 1
    BY <1>3 DEF Cancel
  <2>2. cancels' \in Nat /\ cancels' # 0
    BY <2>1 DEF StatusInv
  <2> QED  BY <2>2 DEF StatusInv, Quiet
<1>4. ASSUME NEW f \in Futures, Runs(f)
      PROVE  StatusInv'
  <2>1. UNCHANGED <<face, cancels>>
    BY <1>4 DEF Runs, Start, Connect, Write, Enter, Publish, Succeed, Fail, EndBatch, Drop, PySide
  <2>2. Quiet' => Owned' /\ Kinds' /\ Agreed'
    BY <1>4, <2>1, RunsKeepStatus DEF StatusInv, Quiet
  <2> QED  BY <2>1, <2>2 DEF StatusInv
<1>5. CASE UNCHANGED vars
  BY <1>5 DEF vars, StatusInv, Quiet, Owned, Kinds, Agreed, Told, Guarded, Guards, Method,
     InSession, NormalizeStatus
<1> QED  BY <1>1, <1>2, <1>3, <1>4, <1>5 DEF Next, Rest

LEMMA InitStatus == Init => QueueInv /\ StatusInv
<1> SUFFICES ASSUME Init PROVE QueueInv /\ StatusInv
  OBVIOUS
<1>1. QueueInv
  <2>1. queue = <<>> /\ queue \in Seq(Futures) /\ Len(queue) = 0 /\ readers = {}
    BY EmptySeq DEF Init
  <2> QED  BY <2>1 DEF QueueInv, Line, Members
<1>2. Owned /\ Kinds /\ Agreed
  <2>1. FreeFuture.stage = "free" /\ FreeFuture.id = 0
    BY DEF FreeFuture
  <2>2. Guarded = {}
    BY DEF Init, Guarded
  <2>3. cache.status = NormalizeStatus(inner.status)
    BY DEF Init, EmptyCache, Model
  <2> QED  BY <2>1, <2>2, <2>3 DEF Init, Owned, Kinds, Agreed, InSession
<1> QED  BY <1>1, <1>2 DEF Init, StatusInv

(* Without cancellation the wrapper's status is the session's own whenever *)
(* no operation is active, for every number of tasks, futures, careers and *)
(* calls.                                                                  *)
THEOREM StatusIsCurrent == Spec => []StatusCurrent
<1> DEFINE Inv == GuardInv /\ LockInv /\ QueueInv /\ StatusInv
<1>1. Init => Inv
  BY ConstantsTyped, InitGuard, InitStatus DEF Init, LockInv, RustTyped, HoldsGuard, InSession
<1>2. Inv /\ [Next]_vars => Inv'
  BY NextKeepsGuard, NextKeepsLock, NextKeepsQueue, NextKeepsStatus DEF GuardInv
<1>3. Inv => StatusCurrent
  BY DEF GuardInv, OneOperation, StatusInv, Quiet, Agreed, StatusCurrent
<1> HIDE DEF Inv
<1> QED  BY <1>1, <1>2, <1>3, PTL DEF Spec
=============================================================================
