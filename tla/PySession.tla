------------------------------ MODULE PySession ------------------------------
(***************************************************************************)
(* PySiaSession of rust/src/http/py_session.rs and SiaSession of           *)
(* src/sia_scraper/session.py around it.  Python tasks call methods; each  *)
(* awaits a Rust future that tokio runs in parallel.  The futures share    *)
(* Arc<RwLock<Option<SiaSession>>>, a fair lock; the Python wrapper admits *)
(* one operation at a time and keeps a copy of the last state it was given.*)
(* A cancelled task leaves at once; its future is dropped later, or ends   *)
(* first.  What an operation does inside a session is SiaSession's matter: *)
(* here it ends well, or fails and leaves what it had published.           *)
(***************************************************************************)
EXTENDS Integers, Sequences, SequencesExt, FiniteSets, SessionModel

CONSTANTS
  Tasks,            (* asyncio tasks                                        *)
  Futures,          (* Rust futures that may exist at a time                *)
  Nobody,           (* no task, no future                                   *)
  Careers, NoCareer,(* search codes                                         *)
  Faces,            (* "wrapper": session.py; "rust": PySiaSession directly *)
  MaxCalls,         (* bound on the calls of a behaviour                    *)
  MaxCancels        (* bound on the cancelled tasks                         *)

ASSUME PyAssumption ==
  /\ Nobody \notin Tasks \cup Futures
  /\ NoCareer \notin Careers
  /\ Faces \subseteq {"wrapper", "rust"}
  /\ MaxCalls \in Nat /\ MaxCancels \in Nat

VARIABLES
  face,             (* whose methods the tasks call                         *)
  inner,            (* the Option<SiaSession>, with an identity             *)
  readers,          (* the futures that hold a read guard                   *)
  queue,            (* those that wait for the lock, first come first served*)
  fut,              (* per future: its method, stage and result             *)
  active,           (* _active_operation                                    *)
  cache,            (* the wrapper's _status, _career_code, _course_list    *)
  py,               (* per task: the method it is in and the future awaited *)
  made,             (* the sessions created so far                          *)
  calls, cancels    (* counters for the bounds                              *)

vars == <<face, inner, readers, queue, fut, active, cache, py, made, calls, cancels>>

NoSession == [id |-> 0, status |-> "CREATED", career |-> NoCareer, list |-> NoCareer]
NewSession(id) == [NoSession EXCEPT !.id = id, !.status = "SESSION_SET"]

Model(s) == [status |-> NormalizeStatus(s.status), career |-> s.career, list |-> s.list]
EmptyCache == Model(NoSession)

FreeFuture == [op |-> "none", stage |-> "free", task |-> Nobody, career |-> NoCareer,
               id |-> 0, ok |-> FALSE, model |-> EmptyCache]
Idle == [name |-> "none", future |-> Nobody]

Init ==
  /\ face \in Faces
  /\ inner = NoSession
  /\ readers = {}
  /\ queue = <<>>
  /\ fut = [f \in Futures |-> FreeFuture]
  /\ active = "none"
  /\ cache = EmptyCache
  /\ py = [t \in Tasks |-> Idle]
  /\ made = 0
  /\ calls = 0
  /\ cancels = 0

-----------------------------------------------------------------------------
(* The lock: readers share it, and wait behind a writer that waits.        *)

(* A write follows a new session, or clears the old one.                   *)
Writes(f) == fut[f].op = "reset" \/ fut[f].id # 0

LeadingReaders(q) ==
  Cardinality({ i \in 1..Len(q) : \A j \in 1..i : ~Writes(q[j]) })

Admit(rs, q) ==
  LET k == LeadingReaders(q)
  IN  /\ readers' = rs \cup { q[i] : i \in 1..k }
      /\ queue' = SubSeq(q, k + 1, Len(q))

Leave(f) == Admit(readers \ {f}, RemoveFirst(queue, f))

Stay == UNCHANGED <<readers, queue>>

-----------------------------------------------------------------------------
(* The Python side.                                                        *)

RustMethods    == {"init_session", "set_career", "scrape_course_info", "scrape_courses",
                   "get_state", "get_session_data"}
WrapperMethods == RustMethods \cup {"close"}
DirectMethods  == RustMethods \cup {"aenter", "reset"}

GuardsAllButInit(name) == face = "wrapper" /\ name \notin {"get_session_data", "init_session"}

(* Every method of the wrapper but get_session_data enters _operation.     *)
Guards(name) == face = "wrapper" /\ name # "get_session_data"

(* try_read fails while a writer waits.                                    *)
IsInitialized == queue = <<>> /\ inner # NoSession

Spawn(t, name, op, career) ==
  /\ \E f \in Futures : fut[f].stage = "free"
  /\ LET f == CHOOSE g \in Futures : fut[g].stage = "free"
     IN  /\ fut' = [fut EXCEPT ![f] = [FreeFuture EXCEPT !.op = op, !.stage = "start",
                                                         !.task = t, !.career = career]]
         /\ py' = [py EXCEPT ![t] = [name |-> name, future |-> f]]

(* A call; one that finds another operation active raises                  *)
(* ConcurrentAccessError and changes nothing.                              *)
Call(t, name, career) ==
  /\ py[t] = Idle
  /\ calls < MaxCalls
  /\ calls' = calls + 1
  /\ Guards(name) => active = "none"
  /\ IF name = "close" /\ ~IsInitialized
       THEN cache' = EmptyCache /\ UNCHANGED <<fut, py, active>>
       ELSE /\ Spawn(t, name, IF name = "close" THEN "reset" ELSE name, career)
            /\ active' = IF Guards(name) THEN name ELSE active
            /\ UNCHANGED cache
  /\ UNCHANGED <<face, inner, readers, queue, made, cancels>>

Released(t) == IF Guards(py[t].name) THEN "none" ELSE active

(* _sync_state_from_rust, after the calls that return a state; an error    *)
(* leaves the copy as it was.                                              *)
Synced(t, f) ==
  IF py[t].name = "close" THEN EmptyCache
  ELSE IF fut[f].ok /\ py[t].name \in {"init_session", "set_career", "get_state"}
    THEN fut[f].model
    ELSE cache

Resume(t) ==
  LET f == py[t].future
  IN  /\ f # Nobody
      /\ fut[f].stage = "done"
      /\ cache' = IF face = "wrapper" THEN Synced(t, f) ELSE cache
      /\ active' = Released(t)
      /\ fut' = [fut EXCEPT ![f] = FreeFuture]
      /\ py' = [py EXCEPT ![t] = Idle]
      /\ UNCHANGED <<face, inner, readers, queue, made, calls, cancels>>

CancelWithoutFinally(t) ==
  LET f == py[t].future
  IN  /\ f # Nobody
      /\ cancels < MaxCancels
      /\ cancels' = cancels + 1
      /\ fut' = [fut EXCEPT ![f] = IF @.stage = "done" THEN FreeFuture ELSE [@ EXCEPT !.task = Nobody]]
      /\ py' = [py EXCEPT ![t] = Idle]
      /\ UNCHANGED <<face, inner, readers, queue, active, cache, made, calls>>

(* CancelledError at the await: _operation's finally runs, and the future  *)
(* is told.                                                                *)
Cancel(t) ==
  LET f == py[t].future
  IN  /\ f # Nobody
      /\ cancels < MaxCancels
      /\ cancels' = cancels + 1
      /\ active' = Released(t)
      /\ fut' = [fut EXCEPT ![f] = IF @.stage = "done" THEN FreeFuture ELSE [@ EXCEPT !.task = Nobody]]
      /\ py' = [py EXCEPT ![t] = Idle]
      /\ UNCHANGED <<face, inner, readers, queue, cache, made, calls>>

-----------------------------------------------------------------------------
(* The Rust side: what a future does between two awaits.                   *)

Goes(f, stage) == fut' = [fut EXCEPT ![f].stage = stage]

(* A future that ends hands its result to the task, if one still waits.    *)
Finish(f, ok, model) ==
  fut' = [fut EXCEPT ![f] = IF @.task = Nobody THEN FreeFuture
                            ELSE [@ EXCEPT !.stage = "done", !.ok = ok, !.model = model]]

PySide == UNCHANGED <<face, active, cache, py, calls, cancels>>

Start(f) ==
  /\ fut[f].stage = "start"
  /\ IF fut[f].op = "init_session"
       THEN Goes(f, "connecting") /\ Stay
       ELSE /\ Goes(f, "waiting")
            /\ Admit(readers, Append(queue, f))
  /\ UNCHANGED <<inner, made>> /\ PySide

(* SiaSession::new and its init_session.                                   *)
Connect(f) ==
  /\ fut[f].stage = "connecting"
  /\ \/ /\ made' = made + 1
        /\ fut' = [fut EXCEPT ![f].stage = "waiting", ![f].id = made + 1]
        /\ queue' = Append(queue, f)
        /\ UNCHANGED readers
     \/ Finish(f, FALSE, EmptyCache) /\ Leave(f) /\ UNCHANGED made
  /\ UNCHANGED inner /\ PySide

Write(f) ==
  /\ fut[f].stage = "waiting"
  /\ Writes(f) /\ queue # <<>> /\ Head(queue) = f
  /\ readers = {}
  /\ inner' = IF fut[f].op = "reset" THEN NoSession ELSE NewSession(fut[f].id)
  /\ Finish(f, TRUE, Model(inner'))
  /\ Leave(f)
  /\ UNCHANGED made /\ PySide

(* With the read guard: what is read at once is returned at once, a batch  *)
(* takes a clone and leaves, a navigation or a scrape keeps the guard.     *)
Works(f) ==
  \/ fut[f].op = "set_career" /\ inner # NoSession
  \/ fut[f].op = "scrape_course_info" /\ inner.status = "ON_CAREER_PAGE"

EnterWithoutGuard(f) ==
  /\ fut[f].stage = "waiting"
  /\ f \in readers /\ ~Writes(f)
  /\ IF Works(f) THEN Goes(f, "working")
     ELSE Finish(f, inner # NoSession, Model(inner))
  /\ Leave(f)
  /\ UNCHANGED <<inner, made>> /\ PySide

TestsHoldingGuard(f) ==
  \/ inner = NoSession /\ Goes(f, "connecting") /\ Stay
  \/ inner # NoSession /\ Finish(f, TRUE, Model(inner)) /\ Leave(f)

(* __aenter__ gives its guard back before it initialises.                  *)
TestsInner(f) ==
  /\ IF inner = NoSession THEN Goes(f, "connecting") ELSE Finish(f, TRUE, Model(inner))
  /\ Leave(f)

Enter(f) ==
  /\ fut[f].stage = "waiting"
  /\ f \in readers /\ ~Writes(f)
  /\ \/ fut[f].op = "aenter" /\ TestsInner(f)
     \/ /\ fut[f].op # "aenter" /\ inner = NoSession
        /\ Finish(f, FALSE, EmptyCache)
        /\ Leave(f)
     \/ /\ fut[f].op = "scrape_course_info" /\ inner.status = "SESSION_SET"
        /\ Finish(f, FALSE, EmptyCache)
        /\ Leave(f)
     \/ /\ fut[f].op \in {"get_state", "get_session_data"} /\ inner # NoSession
        /\ Finish(f, TRUE, Model(inner))
        /\ Leave(f)
     \/ /\ fut[f].op = "scrape_courses" /\ inner # NoSession
        /\ Goes(f, "batch")
        /\ Leave(f)
     \/ /\ Works(f)
        /\ fut' = [fut EXCEPT ![f].stage = "working",
                              ![f].career = IF fut[f].op = "set_career" THEN @ ELSE inner.career]
        /\ Stay
  /\ UNCHANGED <<inner, made>> /\ PySide

(* The POSTs of a navigation publish the career, the first and the last    *)
(* shown here: another navigation under way may publish its own between.   *)
Publish(f) ==
  /\ fut[f].stage \in {"working", "published"}
  /\ inner' = [inner EXCEPT !.career = fut[f].career]
  /\ Goes(f, IF fut[f].stage = "working" THEN "published" ELSE "listing")
  /\ Stay /\ UNCHANGED made /\ PySide

(* The end of a navigation; it does not write the career again.            *)
OnCareerPage(f) ==
  [inner EXCEPT !.status = "ON_CAREER_PAGE", !.list = fut[f].career]

Succeed(f) ==
  /\ fut[f].stage = "listing"
  /\ inner' = OnCareerPage(f)
  /\ Finish(f, TRUE, Model(inner'))
  /\ Leave(f)
  /\ UNCHANGED made /\ PySide

(* A scrape can still fail after its navigation.                           *)
Fail(f) ==
  /\ fut[f].stage \in {"working", "published", "listing"}
  /\ \/ UNCHANGED inner
     \/ /\ fut[f].stage = "listing" /\ fut[f].op = "scrape_course_info"
        /\ inner' = OnCareerPage(f)
  /\ Finish(f, FALSE, EmptyCache)
  /\ Leave(f)
  /\ UNCHANGED made /\ PySide

(* The batch runs on its clone.                                            *)
EndBatch(f) ==
  /\ fut[f].stage = "batch"
  /\ \E ok \in BOOLEAN : Finish(f, ok, EmptyCache)
  /\ Stay /\ UNCHANGED <<inner, made>> /\ PySide

(* The future of a cancelled task is dropped, and its guard with it.       *)
Drop(f) ==
  /\ fut[f].stage \notin {"free", "done"}
  /\ fut[f].task = Nobody
  /\ fut' = [fut EXCEPT ![f] = FreeFuture]
  /\ Leave(f)
  /\ UNCHANGED <<inner, made>> /\ PySide

-----------------------------------------------------------------------------
Calls(t) ==
  \E name \in IF face = "wrapper" THEN WrapperMethods ELSE DirectMethods :
    \E career \in IF name = "set_career" THEN Careers ELSE {NoCareer} : Call(t, name, career)

Runs(f) ==
  \/ Start(f) \/ Connect(f) \/ Write(f) \/ Enter(f)
  \/ Publish(f) \/ Succeed(f) \/ Fail(f) \/ EndBatch(f) \/ Drop(f)

(* Nobody has to call again; what is under way has to end (Terminates).    *)
Rest == calls = MaxCalls /\ UNCHANGED vars

Next ==
  \/ \E t \in Tasks : Calls(t) \/ Resume(t) \/ Cancel(t)
  \/ \E f \in Futures : Runs(f)
  \/ Rest

(* tokio polls every woken future, requests time out, and the event loop   *)
(* resumes every task whose future is done.                                *)
Fairness ==
  /\ \A t \in Tasks : WF_vars(Resume(t))
  /\ \A f \in Futures : WF_vars(Runs(f))

Spec == Init /\ [][Next]_vars /\ Fairness

-----------------------------------------------------------------------------
Guarded == { t \in Tasks : py[t] # Idle /\ Guards(py[t].name) }

(* _operation admits one operation at a time and is left by the one that   *)
(* entered it, however it ends: returned, failed or cancelled.             *)
OneOperation ==
  /\ \A t, u \in Guarded : t = u
  /\ active = "none" <=> Guarded = {}
  /\ \A t \in Guarded : active = py[t].name

(* Without cancellation the wrapper's status is the session's own whenever *)
(* no operation is active: a close has cleared both, an init_session that  *)
(* failed neither, and a set_career or a scrape that failed keeps the page.*)
StatusCurrent ==
  face = "wrapper" /\ cancels = 0 /\ active = "none" =>
    cache.status = NormalizeStatus(inner.status)

(* A reset or a second initialisation waits for the operations that work   *)
(* in the session: none ever continues in one that was replaced.           *)
NoSwapUnderOperation ==
  [][ inner'.id # inner.id =>
        \A f \in Futures : fut[f].stage \notin {"working", "published", "listing"} ]_inner

(* Every call returns: no future waits for the lock for ever, behind       *)
(* cancelled or failed ones either.                                        *)
Terminates == \A t \in Tasks : py[t] # Idle ~> py[t] = Idle

=============================================================================
