----------------------------- MODULE SiaSession ------------------------------
(***************************************************************************)
(* SiaSession of rust/src/http/sia_session.rs: the operations that move a  *)
(* session through the catalog, cut at every await that lets another       *)
(* caller or the server act.  A session is a shared SessionState behind a  *)
(* lock; sessions cloned with clone_with_owned_state own a copy of it but  *)
(* share the HTTP client, hence the cookies, hence the server's session.   *)
(* The one-shot functions of rust/src/lib.rs each make a session, and a    *)
(* client, of their own: it goes by the name of the caller.                *)
(***************************************************************************)
EXTENDS AdfServer, Retry

CONSTANTS
  Callers,          (* tasks that call methods                              *)
  Sessions, Root,   (* SiaSession values; Root is the one created first     *)
  NoSession,        (* the state of a session not yet cloned                *)
  Careers,          (* the (search_code, electives) arguments of set_career *)
  CourseIndices,    (* the course_index arguments of the scrapes            *)
  OneShots,         (* the one-shot functions in use                        *)
  Config,           (* the RetryConfig                                      *)
  TransportErrors,  (* what client.post can fail with                       *)
  Faults,           (* the faults the environment may inject, see below     *)
  MaxCalls          (* bound on the calls of a behaviour                    *)

(* lost_request: the server never sees it; lost_response: it does, but the *)
(* client gets a transport error, of which a ParseError is the body that   *)
(* broke off; http_error: an error page, nothing done;                     *)
(* bad_page: a first page without token or window id; cancel: the future of*)
(* an operation is dropped at an await.                                    *)
ASSUME SessionAssumption ==
  /\ Root \in Sessions
  /\ Careers \subseteq Codes \X BOOLEAN
  /\ CourseIndices \subseteq Int
  /\ OneShots \subseteq {"init_session", "set_career", "course_xml"}
  /\ Sessions \cap Callers = {}
  /\ Faults \subseteq {"lost_request", "lost_response", "http_error", "bad_page", "cancel"}
  /\ MaxCalls \in Nat
  /\ Config.max_attempts \in Nat \ {0}

VARIABLES
  srv,              (* per cookie jar: the server's session                 *)
  state,            (* per session: its SessionState                        *)
  call,             (* per caller: the operation under way                  *)
  pc,               (* idle | send | sent | answered | received | navigated *)
                    (* | sleeping                                           *)
  step,             (* per caller: the place in the operation's actions     *)
  attempt,          (* per caller: the counter of the request's retry loop  *)
  local,            (* per caller: set_career's own copy of the state       *)
  request,          (* per caller: the encoded body, resent as it is        *)
  response,         (* per caller: the answer                               *)
  xml,              (* per caller: the course page fetched                  *)
  result,           (* per caller: what its last operation returned         *)
  calls             (* the operations begun so far                          *)

caller_vars == <<call, pc, step, attempt, local, request, response, xml, result>>
vars == <<srv, state, call, pc, step, attempt, local, request, response, xml, result, calls>>

-----------------------------------------------------------------------------
AllSessions == Sessions \cup Callers
Jars        == {Root} \cup Callers
Jar(s)      == IF s \in Sessions THEN Root ELSE s

(* SessionState::default                                                   *)
DefaultState ==
  [ token |-> NoToken, window |-> FALSE, page_id |-> "1",
    career_code |-> NoCode, career_name |-> NoCode, is_electives |-> FALSE,
    status |-> "CREATED", course_list |-> NoList ]

(* `from` is a history: the page the server showed when the call began.    *)
NoCall     == [name |-> "none", session |-> Root, code |-> NoCode, electives |-> FALSE,
               index |-> -1, from |-> "search"]
NoRequest  == [action |-> "none", token |-> NoToken, code |-> NoCode, electives |-> FALSE,
               index |-> -1, rows |-> 0]
NoResponse == [status |-> 0, token |-> NoToken, window |-> FALSE, list |-> NoList,
               name |-> NotAvailable, course |-> NoCourse]
NoResult   == [kind |-> "none", call |-> NoCall, error |-> Error("None"), course |-> NoCourse]

Ok(c, course) == [kind |-> "ok", call |-> call[c], error |-> Error("None"), course |-> course]
Err(cl, e)    == [kind |-> "err", call |-> cl, error |-> e, course |-> NoCourse]

IsOneShot(cl) == cl.session \in Callers

Actions(cl) ==
  (IF cl.name = "init_session" \/ IsOneShot(cl) THEN <<"GET">> ELSE <<>>)
    \o (IF cl.name = "init_session" THEN <<>> ELSE CareerActions(cl.electives))
    \o (IF cl.name \in {"scrape", "course_xml"} THEN CourseActions ELSE <<>>)

Session(c) == call[c].session
Server(c)  == srv[Jar(Session(c))]
Action(c)  == Actions(call[c])[step[c]]
Navigating(c) == Action(c) \notin {"GET", "SELECT_ROW", "COURSE_PAGE_LINK", "BACK_BTTN"}

Init ==
  /\ srv = [j \in Jars |-> InitialServer]
  /\ state = [s \in AllSessions |-> IF s = Root THEN DefaultState ELSE NoSession]
  /\ call = [c \in Callers |-> NoCall]
  /\ pc = [c \in Callers |-> "idle"]
  /\ step = [c \in Callers |-> 1]
  /\ attempt = [c \in Callers |-> 1]
  /\ local = [c \in Callers |-> DefaultState]
  /\ request = [c \in Callers |-> NoRequest]
  /\ response = [c \in Callers |-> NoResponse]
  /\ xml = [c \in Callers |-> NoCourse]
  /\ result = [c \in Callers |-> NoResult]
  /\ calls = 0

-----------------------------------------------------------------------------
(* Beginning and ending an operation.  What a caller keeps between two     *)
(* operations is its last result only.                                     *)

Return(c, r) ==
  /\ result' = [result EXCEPT ![c] = r]
  /\ pc' = [pc EXCEPT ![c] = "idle"]
  /\ call' = [call EXCEPT ![c] = NoCall]
  /\ step' = [step EXCEPT ![c] = 1]
  /\ attempt' = [attempt EXCEPT ![c] = 1]
  /\ local' = [local EXCEPT ![c] = DefaultState]
  /\ request' = [request EXCEPT ![c] = NoRequest]
  /\ response' = [response EXCEPT ![c] = NoResponse]
  /\ xml' = [xml EXCEPT ![c] = NoCourse]

Fail(c, e) == Return(c, Err(call[c], e))

Ready(c, s) ==
  /\ pc[c] = "idle"
  /\ state[s] # NoSession
  /\ calls < MaxCalls
  /\ calls' = calls + 1

Begin(c, cl, copy) ==
  /\ call' = [call EXCEPT ![c] = [cl EXCEPT !.from = srv[Jar(cl.session)].page]]
  /\ pc' = [pc EXCEPT ![c] = "send"]
  /\ local' = [local EXCEPT ![c] = copy]
  /\ result' = [result EXCEPT ![c] = NoResult]
  /\ UNCHANGED <<step, attempt, request, response, xml>>

Refuse(c, cl) == Return(c, Err(cl, Error("InvalidInput")))

InitSession(c, s) ==
  /\ Ready(c, s)
  /\ Begin(c, [NoCall EXCEPT !.name = "init_session", !.session = s], state[s])
  /\ UNCHANGED <<srv, state>>

(* set_career reads the state once and works on that copy.                 *)
Selecting(st, code, electives) ==
  [st EXCEPT !.career_code = code, !.is_electives = electives]

SetCareer(c, s, code, electives) ==
  LET cl == [NoCall EXCEPT !.name = "set_career", !.session = s,
                           !.code = code, !.electives = electives]
  IN  /\ Ready(c, s)
      /\ IF code \in FourParts
           THEN Begin(c, cl, Selecting(state[s], code, electives))
           ELSE Refuse(c, cl)
      /\ UNCHANGED <<srv, state>>

(* scrape_course_info and scrape_course_prereqs: the checks on a snapshot, *)
(* then the whole navigation again for the career of that snapshot.        *)
Scrapable(s, index) ==
  /\ state[s].status \in {"ON_CAREER_PAGE", "ON_COURSE_PAGE"}
  /\ 0 <= index /\ index < state[s].course_list.len

(* s is the session whose state is read, t the one that works on it.       *)
Scrape(c, s, t, index) ==
  LET code      == state[s].career_code
      electives == state[s].is_electives
      cl        == [NoCall EXCEPT !.name = "scrape", !.session = t, !.code = code,
                                  !.electives = electives, !.index = index]
  IN  /\ Ready(c, s)
      /\ IF Scrapable(s, index) /\ code \in FourParts
           THEN Begin(c, cl, Selecting(state[s], code, electives))
           ELSE Refuse(c, cl)
      /\ UNCHANGED srv

ScrapeCourse(c, index) == Scrape(c, Root, Root, index) /\ UNCHANGED state

(* A batch, of one course: it runs on a clone_with_owned_state.            *)
ScrapeBatch(c, clone, index) ==
  /\ \A d \in Callers : Session(d) # clone
  /\ Scrape(c, Root, clone, index)
  /\ state' = [state EXCEPT ![clone] = state[Root]]

(* init_sia_session, set_career and get_course_xml of lib.rs, and their    *)
(* JSON forms: a new session, a new cookie jar, and no look at the index.  *)
OneShot(c, name, career, index) ==
  LET cl == [NoCall EXCEPT !.name = name, !.session = c, !.index = index]
  IN  /\ pc[c] = "idle"
      /\ calls < MaxCalls /\ calls' = calls + 1
      /\ Begin(c, [cl EXCEPT !.code = career[1], !.electives = career[2]], DefaultState)
      /\ srv' = [srv EXCEPT ![c] = InitialServer]
      /\ state' = [state EXCEPT ![c] = DefaultState]

InitSiaSession(c) == OneShot(c, "init_session", <<NoCode, FALSE>>, NoCall.index)

SetCareerOnce(c, career) == OneShot(c, "set_career", career, NoCall.index)

GetCourseXml(c, career, index) == OneShot(c, "course_xml", career, index)

-----------------------------------------------------------------------------
(* Sending.  The body of a navigation step and of SELECT_ROW comes from    *)
(* the operation's copy, the others from a fresh get_state().              *)

StaleSource(c) == local[c]

Source(c) ==
  IF Action(c) \in {"COURSE_PAGE_LINK", "BACK_BTTN"} THEN state[Session(c)] ELSE local[c]

CompleteWithoutWindow(st) == st.token # NoToken

(* state_as_request_builder: the trio of tokens every POST needs.          *)
Complete(st) == st.token # NoToken /\ st.window

Buildable(c) ==
  \/ Action(c) = "GET"
  \/ /\ Complete(Source(c))
     /\ Action(c) = "CAMPUS_ELECTIVES_DD" => call[c].code \in NumericCampus

Body(c) ==
  [ action |-> Action(c), token |-> IF Action(c) = "GET" THEN NoToken ELSE Source(c).token,
    code |-> call[c].code, electives |-> call[c].electives, index |-> call[c].index,
    rows |-> IF Action(c) = "SELECT_ROW" THEN local[c].course_list.len ELSE 0 ]

Send(c) ==
  /\ pc[c] = "send"
  /\ IF Buildable(c)
       THEN /\ request' = [request EXCEPT ![c] = Body(c)]
            /\ attempt' = [attempt EXCEPT ![c] = 1]
            /\ pc' = [pc EXCEPT ![c] = "sent"]
            /\ UNCHANGED <<call, step, local, response, xml, result>>
       ELSE Fail(c, Error("InvalidInput"))
  /\ UNCHANGED <<srv, state, calls>>

-----------------------------------------------------------------------------
(* The server and the network.                                             *)

ServerNow(c, p) == srv' = [srv EXCEPT ![Jar(Session(c))] = p.srv]

Answered(c, r) ==
  /\ response' = [response EXCEPT ![c] = r]
  /\ pc' = [pc EXCEPT ![c] = "answered"]
  /\ UNCHANGED <<state, call, step, attempt, local, request, xml, result, calls>>

(* What the parsers find on the page: the token and the window id, each on *)
(* its own.                                                                *)
Found(c) ==
  IF request[c].action = "GET" /\ "bad_page" \in Faults
    THEN [token : BOOLEAN, window : BOOLEAN]
    ELSE {[token |-> TRUE, window |-> TRUE]}

Serve(c) ==
  /\ pc[c] = "sent"
  /\ \E p \in Processed(Server(c), request[c]) :
       /\ ServerNow(c, p)
       /\ \E found \in Found(c) :
            Answered(c, [status |-> 200,
                         token |-> IF found.token THEN p.srv.token ELSE NoToken,
                         window |-> found.window,
                         list |-> p.list, name |-> p.name, course |-> p.course])

ServeError(c) ==
  /\ pc[c] = "sent"
  /\ "http_error" \in Faults
  /\ \E s \in {404, 503} : Answered(c, [NoResponse EXCEPT !.status = s])
  /\ UNCHANGED srv

(* The retry loop of init_session and post_request after an attempt failed.*)
Retries(c, e) == ShouldRetry(e, Config) /\ attempt[c] < Config.max_attempts

AttemptFailed(c, e) ==
  IF Retries(c, e)
    THEN /\ pc' = [pc EXCEPT ![c] = "sleeping"]
         /\ response' = [response EXCEPT ![c] = NoResponse]
         /\ UNCHANGED <<call, step, attempt, local, request, xml, result>>
    ELSE Fail(c, e)

(* do_init_session turns every client error into a NetworkError.           *)
Surfaced(c, e) == IF Action(c) = "GET" THEN Error("Network") ELSE e

(* What the server made of a request whose answer nobody reads.            *)
Unanswered(c) ==
  \/ srv' = srv
  \/ \E p \in Processed(Server(c), request[c]) : ServerNow(c, p)

Lose(c) ==
  /\ pc[c] = "sent"
  /\ \E e \in TransportErrors :
       /\ \/ "lost_request" \in Faults /\ e.kind # "Parse" /\ UNCHANGED srv
          \/ "lost_response" \in Faults /\ \E p \in Processed(Server(c), request[c]) : ServerNow(c, p)
       /\ AttemptFailed(c, Surfaced(c, e))
  /\ UNCHANGED <<state, calls>>

WakeUncounted(c) ==
  /\ pc[c] = "sleeping"
  /\ pc' = [pc EXCEPT ![c] = "sent"]
  /\ UNCHANGED <<srv, state, call, step, attempt, local, request, response, xml, result, calls>>

(* The next attempt sends the same body.                                   *)
Wake(c) ==
  /\ pc[c] = "sleeping"
  /\ attempt' = [attempt EXCEPT ![c] = @ + 1]
  /\ pc' = [pc EXCEPT ![c] = "sent"]
  /\ UNCHANGED <<srv, state, call, step, local, request, response, xml, result, calls>>

Cancel(c) ==
  /\ "cancel" \in Faults
  /\ pc[c] # "idle"
  /\ IF pc[c] = "sent" THEN Unanswered(c) ELSE UNCHANGED srv
  /\ Return(c, [NoResult EXCEPT !.kind = "cancelled", !.call = call[c]])
  /\ UNCHANGED <<state, calls>>

-----------------------------------------------------------------------------
(* The answer reaches the client.                                          *)

WithToken(st, token) == IF token = NoToken THEN st ELSE [st EXCEPT !.token = token]

Received(c) ==
  /\ pc' = [pc EXCEPT ![c] = "received"]
  /\ UNCHANGED <<srv, call, step, attempt, local, request, response, xml, result, calls>>

DiscardsToken(c) ==
  /\ pc[c] = "answered"
  /\ Action(c) # "GET"
  /\ UNCHANGED state
  /\ Received(c)

(* do_post_request stores the token of any answer, whatever its status.    *)
ReceivePost(c) ==
  /\ pc[c] = "answered"
  /\ Action(c) # "GET"
  /\ state' = [state EXCEPT ![Session(c)] = WithToken(@, response[c].token)]
  /\ Received(c)

ForgetsToken(st, r) ==
  [st EXCEPT !.token = r.token, !.window = r.window, !.page_id = "0",
             !.status = "SESSION_SET"]

Initialised(st, r) ==
  [WithToken(st, r.token) EXCEPT !.window = @ \/ r.window, !.page_id = "0",
                                 !.status = "SESSION_SET"]

NextAction(c) ==
  /\ step' = [step EXCEPT ![c] = @ + 1]
  /\ pc' = [pc EXCEPT ![c] = "send"]
  /\ response' = [response EXCEPT ![c] = NoResponse]
  /\ UNCHANGED <<call, attempt, request, result>>

(* What follows a GET: a one-shot call goes on with its new session.       *)
AfterGet(c, st) ==
  LET cl == call[c]
  IN  IF cl.name = "init_session" THEN Return(c, Ok(c, NoCourse))
      ELSE IF cl.code \notin FourParts THEN Fail(c, Error("InvalidInput"))
      ELSE /\ local' = [local EXCEPT ![c] = Selecting(st, cl.code, cl.electives)]
           /\ NextAction(c)
           /\ UNCHANGED xml

(* do_init_session; the status is checked inside the retry loop here.      *)
ReceiveGet(c) ==
  LET st == Initialised(state[Session(c)], response[c])
  IN  /\ pc[c] = "answered"
      /\ Action(c) = "GET"
      /\ \/ /\ response[c].status >= 400
            /\ AttemptFailed(c, StatusError(response[c].status))
            /\ UNCHANGED state
         \/ /\ response[c].status < 400
            /\ state' = [state EXCEPT ![Session(c)] = st]
            /\ AfterGet(c, st)
      /\ UNCHANGED <<srv, calls>>

FailReceived(c, e) == Fail(c, e) /\ UNCHANGED <<srv, state, calls>>

(* extract_career_name, on the answer to FACULTY_DD                        *)
NameAfter(c) ==
  IF Action(c) = "FACULTY_DD" THEN response[c].name ELSE local[c].career_name

PublishesCodeOnly(c) ==
  [WithToken(state[Session(c)], response[c].token) EXCEPT
     !.career_code  = call[c].code,
     !.career_name  = NameAfter(c)]

(* One turn of set_career's loop: the selection is published to the shared *)
(* state, and the copy is taken anew.                                      *)
Published(c) ==
  [WithToken(state[Session(c)], response[c].token) EXCEPT
     !.career_code  = call[c].code,
     !.career_name  = NameAfter(c),
     !.is_electives = call[c].electives]

Publish(c) ==
  /\ state' = [state EXCEPT ![Session(c)] = Published(c)]
  /\ local' = [local EXCEPT ![c] = Published(c)]
  /\ IF Action(c) = "SHOW_COURSES_BTTN"
       THEN /\ pc' = [pc EXCEPT ![c] = "navigated"]
            /\ UNCHANGED <<call, step, attempt, request, response, result>>
       ELSE NextAction(c)
  /\ UNCHANGED <<srv, xml, calls>>

CareerAnswer(c) ==
  /\ pc[c] = "received"
  /\ Navigating(c)
  /\ \/ /\ response[c].status >= 400
        /\ FailReceived(c, StatusError(response[c].status))
     \/ /\ response[c].status < 400
        /\ Action(c) = "FACULTY_DD" /\ call[c].code \notin NumericCareer
        /\ FailReceived(c, Error("InvalidInput"))
     \/ /\ response[c].status < 400
        /\ Action(c) = "FACULTY_DD" => call[c].code \in NumericCareer
        /\ Publish(c)

KeepsOldList(c) == [state[Session(c)] EXCEPT !.status = "ON_CAREER_PAGE"]

Listed(c) ==
  [state[Session(c)] EXCEPT !.status = "ON_CAREER_PAGE",
                            !.course_list = response[c].list]

(* The end of set_career: the table of the last answer becomes the list.   *)
ShowCourses(c) ==
  /\ pc[c] = "navigated"
  /\ state' = [state EXCEPT ![Session(c)] = Listed(c)]
  /\ IF call[c].name = "set_career"
       THEN Return(c, Ok(c, NoCourse))
       ELSE /\ local' = [local EXCEPT ![c] = Listed(c)]
            /\ NextAction(c)
            /\ UNCHANGED xml
  /\ UNCHANGED <<srv, calls>>

(* The status of the answer to SELECT_ROW is not looked at.                *)
RowSelected(c) ==
  /\ pc[c] = "received"
  /\ Action(c) = "SELECT_ROW"
  /\ NextAction(c)
  /\ UNCHANGED <<srv, state, local, xml, calls>>

CourseOpened(c) ==
  /\ pc[c] = "received"
  /\ Action(c) = "COURSE_PAGE_LINK"
  /\ IF response[c].status >= 400
       THEN Fail(c, StatusError(response[c].status))
       ELSE /\ xml' = [xml EXCEPT ![c] = response[c].course]
            /\ NextAction(c)
            /\ UNCHANGED local
  /\ UNCHANGED <<srv, state, calls>>

(* Neither is the status of the way back.  Then a scrape parses the page:  *)
(* what is not a course page is a ParseError.                              *)
WentBack(c) ==
  /\ pc[c] = "received"
  /\ Action(c) = "BACK_BTTN"
  /\ state' = [state EXCEPT ![Session(c)].status = "ON_CAREER_PAGE"]
  /\ IF call[c].name = "scrape" /\ xml[c] = NoCourse
       THEN Fail(c, Error("Parse"))
       ELSE Return(c, Ok(c, xml[c]))
  /\ UNCHANGED <<srv, calls>>

-----------------------------------------------------------------------------
Start(c) ==
  \/ InitSession(c, Root)
  \/ \E career \in Careers : SetCareer(c, Root, career[1], career[2])
  \/ \E index \in CourseIndices :
       \/ ScrapeCourse(c, index)
       \/ \E clone \in Sessions \ {Root} : ScrapeBatch(c, clone, index)
  \/ "init_session" \in OneShots /\ InitSiaSession(c)
  \/ \E career \in Careers :
       \/ "set_career" \in OneShots /\ SetCareerOnce(c, career)
       \/ /\ "course_xml" \in OneShots
          /\ \E index \in CourseIndices : GetCourseXml(c, career, index)

Progress(c) ==
  \/ Send(c) \/ Serve(c) \/ ServeError(c) \/ Lose(c) \/ Wake(c)
  \/ ReceivePost(c) \/ ReceiveGet(c)
  \/ CareerAnswer(c) \/ ShowCourses(c) \/ RowSelected(c) \/ CourseOpened(c) \/ WentBack(c)

Rest == (\A c \in Callers : pc[c] = "idle") /\ calls = MaxCalls /\ UNCHANGED vars

Next ==
  \/ \E c \in Callers : Start(c) \/ Progress(c) \/ Cancel(c)
  \/ Rest

(* Every request ends, by an answer or by the client's timeout, every      *)
(* sleep too, and the executor polls what is ready.                        *)
Spec == Init /\ [][Next]_vars /\ (\A c \in Callers : WF_vars(Progress(c)))

-----------------------------------------------------------------------------
Succeeded(c, names) == result[c].kind = "ok" /\ result[c].call.name \in names

(* Every POST carries the token of the page the server shows: what each    *)
(* answer brings is stored before the next body is built, along every path *)
(* through the requests of a course, eleven at most (docs/QUIRKS.md:19).   *)
FreshRequests ==
  \A c \in Callers :
    pc[c] = "sent" /\ request[c].action # "GET" => request[c].token = Server(c).token

(* A scrape that succeeds returns the course it was asked for, of the      *)
(* career that was selected when it began, whatever earlier operations     *)
(* left selected on the server's page.  It has to begin on the search      *)
(* page: no state records that a failed BACK left the server on a course.  *)
(* get_course_xml of lib.rs returns that course's page too, or, for an     *)
(* index outside the list, one that is no course's.                        *)
ScrapedRightCourse ==
  \A c \in Callers :
    LET cl == result[c].call
    IN  Succeeded(c, {"scrape", "course_xml"}) /\ cl.from = "search" =>
          \/ result[c].course = [career |-> cl.code, index |-> cl.index]
          \/ /\ cl.name = "course_xml" /\ result[c].course = NoCourse
             /\ cl.index \notin 0..(state[cl.session].course_list.len - 1)

(* After a navigation that began on the search page and succeeded, the     *)
(* four fields that describe the career agree: code, kind, the list the    *)
(* server showed for them, and the name, which is the one the server lists *)
(* for that code, or "N/A" where it lists none: never the name of the      *)
(* career selected before, which the first two steps publish with the new  *)
(* code.                                                                   *)
CareerCoherent ==
  \A c \in Callers :
    /\ pc[c] = "idle" /\ Succeeded(c, {"set_career", "scrape", "course_xml"})
    /\ result[c].call.from = "search"
    =>
      LET cl == result[c].call
          st == state[cl.session]
      IN  /\ st.status = "ON_CAREER_PAGE"
          /\ st.career_code = cl.code /\ st.is_electives = cl.electives
          /\ st.career_name \in Names(cl.code)
          /\ st.course_list.career = cl.code

(* A session that says it is on the career page can send its next request: *)
(* it has the trio of tokens, whatever failed or was cancelled on the way  *)
(* and whatever a later init_session did not find.                         *)
ReadyOnCareerPage ==
  \A s \in AllSessions :
    state[s] # NoSession /\ state[s].status = "ON_CAREER_PAGE" =>
      state[s].token # NoToken /\ state[s].window

(* The code and the kind of a career are always those of one request: two  *)
(* callers that select careers at once never leave a mixture.              *)
SelectionRequested ==
  \A s \in AllSessions :
    state[s] # NoSession /\ state[s].career_code # NoCode =>
      <<state[s].career_code, state[s].is_electives>> \in Careers

(* Once a session has a token it has one until it is made anew: no answer, *)
(* error page or cancelled request takes it away, and no caller puts back  *)
(* a copy from before there was one.                                       *)
TokenNeverLost ==
  [][ \A s \in Sessions :
        state[s] # NoSession /\ state[s].token # NoToken => state'[s].token # NoToken ]_state

(* Every operation ends.                                                   *)
Terminates == \A c \in Callers : pc[c] # "idle" ~> pc[c] = "idle"

-----------------------------------------------------------------------------
(* What the repository says of the program and the program does not do.    *)

(* docs/QUIRKS.md:19, "each POST uses the latest ViewState", for a session *)
(* whose clone scrapes a batch.                                            *)
RootRequestsFresh ==
  \A c \in Callers :
    pc[c] = "sent" /\ Session(c) = Root /\ request[c].action # "GET"
      => request[c].token = srv[Root].token
=============================================================================
