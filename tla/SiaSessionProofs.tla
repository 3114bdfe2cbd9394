--------------------------- MODULE SiaSessionProofs ---------------------------
(***************************************************************************)
(* Proofs about SiaSession for any number of callers, clones and careers,  *)
(* any faults and any answers: what a session remembers stays usable, and  *)
(* a session that is alone with the server's cookies sends fresh tokens    *)
(* and fetches the course that it was asked for.                           *)
(***************************************************************************)
EXTENDS SiaSession, SequenceTheorems, TLAPS

Fields == {"token", "window", "page_id", "career_code", "career_name",
           "is_electives", "status", "course_list"}

IsState(st) == DOMAIN st = Fields /\ st.window \in BOOLEAN

(* What one state promises on its own.                                     *)
StateOK(st) ==
  /\ st.status \in {"ON_CAREER_PAGE", "ON_COURSE_PAGE"} => Complete(st)
  /\ st.career_code # NoCode => <<st.career_code, st.is_electives>> \in Careers

(* Neither the token nor the window id is ever taken away.                 *)
Grows(old, new) ==
  /\ old.token # NoToken => new.token # NoToken
  /\ old.window => new.window

Shapes ==
  /\ DOMAIN state = AllSessions
  /\ DOMAIN pc = Callers /\ DOMAIN call = Callers
  /\ DOMAIN step = Callers /\ DOMAIN local = Callers

StatesOK ==
  \A s \in AllSessions : state[s] # NoSession => IsState(state[s]) /\ StateOK(state[s])

(* A caller's copy is never ahead of the state it was taken from, and a    *)
(* request after the first is under way only with the trio of tokens.      *)
CallerOK(c) ==
  LET st == state[Session(c)]
  IN  /\ pc[c] = "idle" => Session(c) = Root /\ step[c] = 1
      /\ pc[c] # "idle" =>
           /\ Session(c) \in Sessions \cup {c}
           /\ IsState(st) /\ StateOK(st)
           /\ Grows(local[c], st)
           /\ call[c].name = "init_session" => Action(c) = "GET"
           /\ call[c].name # "init_session" => <<call[c].code, call[c].electives>> \in Careers
           /\ pc[c] # "send" /\ Action(c) # "GET" => Complete(st)
           /\ pc[c] = "navigated" => Action(c) # "GET"

(* A clone has a token only because the session it is a copy of had one.   *)
RootFirst ==
  /\ IsState(state[Root])
  /\ \A s \in Sessions :
       state[s] # NoSession /\ state[s].token # NoToken => state[Root].token # NoToken
  /\ \A c \in Callers :
       Session(c) \in Sessions \ {Root} => state[Root].token # NoToken

(* The inductive invariant.                                                *)
SessionInv ==
  /\ Shapes
  /\ StatesOK
  /\ \A c \in Callers : CallerOK(c)
  /\ RootFirst

Others(c) ==
  \A d \in Callers \ {c} :
    pc'[d] = pc[d] /\ call'[d] = call[d] /\ step'[d] = step[d] /\ local'[d] = local[d]

(* What every step does: besides the invariant, no session loses its token.*)
TokensKept ==
  \A s \in Sessions :
    state[s] # NoSession /\ state[s].token # NoToken => state'[s].token # NoToken

Kept == SessionInv' /\ TokensKept

-----------------------------------------------------------------------------
(* A step of a caller that is at work changes the state of its session     *)
(* only, and lets it grow: the others keep what they rely on.              *)
LEMMA Frame ==
  ASSUME SessionInv, NEW c \in Callers, pc[c] # "idle", Shapes', Others(c),
         \A s \in AllSessions \ {Session(c)} : state'[s] = state[s],
         IsState(state'[Session(c)]), StateOK(state'[Session(c)]),
         Grows(state[Session(c)], state'[Session(c)]),
         CallerOK(c)',
         call'[c].session \in {Session(c), Root}
  PROVE  Kept
<1> DEFINE t == Session(c)
<1>1. t \in AllSessions /\ t \in Sessions \cup {c} /\ IsState(state[t])
  BY DEF SessionInv, CallerOK, AllSessions
<1>2. Root \in Sessions /\ Sessions \cap Callers = {}
  BY SessionAssumption
<1>3. StatesOK'
  BY DEF SessionInv, StatesOK
<1>4. \A d \in Callers : CallerOK(d)'
  <2> SUFFICES ASSUME NEW d \in Callers, d # c PROVE CallerOK(d)'
    OBVIOUS
  <2>1. /\ pc'[d] = pc[d] /\ call'[d] = call[d] /\ step'[d] = step[d] /\ local'[d] = local[d]
    BY DEF Others
  <2>2. Session(d)' = Session(d) /\ Action(d)' = Action(d)
    BY <2>1 DEF Session, Action
  <2>3. CallerOK(d)
    BY DEF SessionInv
  <2>4. CASE pc[d] = "idle"
    BY <2>1, <2>2, <2>3, <2>4 DEF CallerOK
  <2>5. CASE pc[d] # "idle"
    <3>1. Session(d) \in AllSessions
      BY <2>3, <2>5 DEF CallerOK, AllSessions
    <3>2. CASE Session(d) # t
      <4>1. state'[Session(d)] = state[Session(d)]
        BY <3>1, <3>2
      <4> QED BY <2>1, <2>2, <2>3, <2>5, <4>1 DEF CallerOK
    <3>3. CASE Session(d) = t
      BY <2>1, <2>2, <2>3, <2>5, <3>3 DEF CallerOK, Grows, Complete
    <3> QED BY <3>2, <3>3
  <2> QED BY <2>4, <2>5
<1>5. RootFirst'
  <2>1. RootFirst
    BY DEF SessionInv
  <2>2. IsState(state'[Root]) /\ (state[Root].token # NoToken => state'[Root].token # NoToken)
    BY <1>1, <1>2, <2>1 DEF RootFirst, Grows, AllSessions
  <2>3. ASSUME NEW d \in Callers, Session(d)' \in Sessions \ {Root}
        PROVE  state[Root].token # NoToken
    <3>1. Session(d)' = Session(d)
      BY <2>3 DEF Others, Session
    <3> QED BY <2>1, <2>3, <3>1 DEF RootFirst
  <2>4. ASSUME NEW s \in Sessions, state'[s] # NoSession, state'[s].token # NoToken
        PROVE  state'[Root].token # NoToken
    <3>1. CASE s # t
      <4>1. state'[s] = state[s]
        BY <3>1 DEF AllSessions
      <4> QED BY <2>1, <2>2, <2>4, <4>1 DEF RootFirst
    <3>2. CASE s = t /\ s # Root
      BY <2>1, <2>2, <3>2 DEF RootFirst, Session
    <3>3. CASE s = t /\ s = Root
      BY <2>4, <3>3
    <3> QED BY <3>1, <3>2, <3>3
  <2> QED BY <2>2, <2>3, <2>4 DEF RootFirst
<1>6. TokensKept
  BY <1>1 DEF TokensKept, Grows, AllSessions
<1>7. SessionInv'
  BY <1>3, <1>4, <1>5 DEF SessionInv
<1> QED BY <1>6, <1>7 DEF Kept

(* The same for a step that ends the operation.                            *)
LEMMA ReturnKeeps ==
  ASSUME SessionInv, NEW c \in Callers, pc[c] # "idle", NEW r, Return(c, r),
         DOMAIN state' = AllSessions,
         \A s \in AllSessions \ {Session(c)} : state'[s] = state[s],
         IsState(state'[Session(c)]), StateOK(state'[Session(c)]),
         Grows(state[Session(c)], state'[Session(c)])
  PROVE  Kept
<1> USE DEF Return
<1>1. Shapes
  BY DEF SessionInv
<1>2. Shapes'
  BY <1>1 DEF Shapes
<1>3. Others(c)
  BY <1>1 DEF Shapes, Others
<1>4. pc'[c] = "idle" /\ call'[c] = NoCall /\ step'[c] = 1
  BY <1>1 DEF Shapes
<1>5. NoCall.session = Root
  BY DEF NoCall
<1>6. CallerOK(c)'
  BY <1>4, <1>5 DEF CallerOK, Session
<1> QED BY <1>2, <1>3, <1>4, <1>5, <1>6, Frame

(* And for one that only moves on, the state of the session as it was.     *)
LEMMA MoveKeeps ==
  ASSUME SessionInv, NEW c \in Callers, pc[c] # "idle",
         NEW p, p # "idle", pc' = [pc EXCEPT ![c] = p],
         UNCHANGED <<state, call, step, local>>,
         pc[c] = "send" => Action(c) = "GET" \/ Complete(state[Session(c)]) \/ p = "send",
         p = "navigated" => Action(c) # "GET"
  PROVE  Kept
<1>1. Shapes
  BY DEF SessionInv
<1>2. Shapes' /\ Others(c)
  BY <1>1 DEF Shapes, Others
<1>3. CallerOK(c)
  BY DEF SessionInv
<1>4. /\ pc'[c] = p /\ Session(c)' = Session(c) /\ Action(c)' = Action(c)
      /\ state' = state /\ call' = call /\ step' = step /\ local' = local
  BY <1>1 DEF Shapes, Session, Action
<1>5. CallerOK(c)'
  BY <1>3, <1>4 DEF CallerOK
<1>6. /\ IsState(state'[Session(c)]) /\ StateOK(state'[Session(c)])
      /\ Grows(state[Session(c)], state'[Session(c)])
  BY <1>3, <1>4 DEF CallerOK, Grows
<1>7. call'[c].session = Session(c)
  BY <1>4 DEF Session
<1> QED BY <1>2, <1>4, <1>5, <1>6, <1>7, Frame

LEMMA SameStateKeeps ==
  ASSUME SessionInv, NEW c \in Callers, pc[c] # "idle", NEW r, Return(c, r), state' = state
  PROVE  Kept
<1>1. CallerOK(c) /\ Shapes
  BY DEF SessionInv
<1>2. /\ IsState(state[Session(c)]) /\ StateOK(state[Session(c)])
      /\ Grows(state[Session(c)], state[Session(c)])
  BY <1>1 DEF CallerOK, Grows
<1> QED BY <1>1, <1>2, ReturnKeeps DEF Shapes

-----------------------------------------------------------------------------
(* The actions that leave every state alone.                               *)
LEMMA SendKeeps ==
  ASSUME SessionInv, NEW c \in Callers, Send(c)
  PROVE  Kept
<1>1. pc[c] = "send" /\ state' = state /\ CallerOK(c)
  BY DEF Send, SessionInv
<1>2. CASE Buildable(c)
  <2>1. UNCHANGED <<state, call, step, local>> /\ pc' = [pc EXCEPT ![c] = "sent"]
    BY <1>2 DEF Send
  <2>2. Action(c) = "GET" \/ Complete(local[c]) \/ Complete(state[Session(c)])
    BY <1>2 DEF Buildable, Source
  <2>3. Complete(local[c]) => Complete(state[Session(c)])
    BY <1>1 DEF CallerOK, Grows, Complete
  <2> QED BY <1>1, <2>1, <2>2, <2>3, MoveKeeps
<1>3. CASE ~Buildable(c)
  BY <1>1, <1>3, SameStateKeeps DEF Send, Fail
<1> QED BY <1>2, <1>3

LEMMA AttemptKeeps ==
  ASSUME SessionInv, NEW c \in Callers, pc[c] \notin {"idle", "send"}, NEW e,
         AttemptFailed(c, e), state' = state
  PROVE  Kept
<1>1. CASE Retries(c, e)
  <2>1. UNCHANGED <<state, call, step, local>> /\ pc' = [pc EXCEPT ![c] = "sleeping"]
    BY <1>1 DEF AttemptFailed
  <2> QED BY <2>1, MoveKeeps
<1>2. CASE ~Retries(c, e)
  BY <1>2, SameStateKeeps DEF AttemptFailed, Fail
<1> QED BY <1>1, <1>2

LEMMA NetworkKeeps ==
  ASSUME SessionInv, NEW c \in Callers,
         Serve(c) \/ ServeError(c) \/ Lose(c) \/ Wake(c) \/ Cancel(c)
  PROVE  Kept
<1>1. CASE Serve(c) \/ ServeError(c)
  <2>1. /\ pc[c] = "sent" /\ pc' = [pc EXCEPT ![c] = "answered"]
        /\ UNCHANGED <<state, call, step, local>>
    BY <1>1 DEF Serve, ServeError, Answered
  <2> QED BY <2>1, MoveKeeps
<1>2. CASE Lose(c)
  <2>1. pc[c] = "sent" /\ state' = state
    BY <1>2 DEF Lose
  <2>2. PICK e \in TransportErrors : AttemptFailed(c, Surfaced(c, e))
    BY <1>2 DEF Lose
  <2> QED BY <2>1, <2>2, AttemptKeeps
<1>3. CASE Wake(c)
  <2>1. /\ pc[c] = "sleeping" /\ pc' = [pc EXCEPT ![c] = "sent"]
        /\ UNCHANGED <<state, call, step, local>>
    BY <1>3 DEF Wake
  <2> QED BY <2>1, MoveKeeps
<1>4. CASE Cancel(c)
  BY <1>4, SameStateKeeps DEF Cancel
<1> QED BY <1>1, <1>2, <1>3, <1>4
-----------------------------------------------------------------------------
(* The values a session's state is set to.                                 *)
LEMMA WithTokenKeeps ==
  ASSUME NEW st, NEW t, IsState(st), StateOK(st)
  PROVE  /\ IsState(WithToken(st, t)) /\ StateOK(WithToken(st, t))
         /\ Grows(st, WithToken(st, t))
<1>1. CASE t = NoToken
  BY <1>1 DEF WithToken, Grows
<1>2. CASE t # NoToken
  <2> DEFINE new == [st EXCEPT !.token = t]
  <2>1. WithToken(st, t) = new
    BY <1>2 DEF WithToken
  <2>2. /\ DOMAIN new = Fields /\ new.token = t /\ new.window = st.window
        /\ new.status = st.status /\ new.career_code = st.career_code
        /\ new.is_electives = st.is_electives
    BY DEF IsState, Fields
  <2> HIDE DEF new
  <2> QED BY <1>2, <2>1, <2>2 DEF IsState, StateOK, Complete, Grows
<1> QED BY <1>1, <1>2

LEMMA InitialisedKeeps ==
  ASSUME NEW st, NEW r, IsState(st), StateOK(st)
  PROVE  /\ IsState(Initialised(st, r)) /\ StateOK(Initialised(st, r))
         /\ Grows(st, Initialised(st, r))
<1> DEFINE old == WithToken(st, r.token)
           new == Initialised(st, r)
<1>1. IsState(old) /\ StateOK(old) /\ Grows(st, old)
  BY WithTokenKeeps
<1> HIDE DEF old
<1>2. /\ DOMAIN new = Fields /\ new.token = old.token /\ new.window = (old.window \/ r.window)
      /\ new.status = "SESSION_SET" /\ new.career_code = old.career_code
      /\ new.is_electives = old.is_electives
  BY <1>1 DEF Initialised, old, IsState, Fields
<1> HIDE DEF new
<1>3. new.window \in BOOLEAN /\ (old.window => new.window)
  BY <1>1, <1>2 DEF IsState
<1> QED BY <1>1, <1>2, <1>3 DEF IsState, StateOK, Complete, Grows, new

LEMMA PublishedKeeps ==
  ASSUME NEW c \in Callers, IsState(state[Session(c)]), StateOK(state[Session(c)]),
         <<call[c].code, call[c].electives>> \in Careers
  PROVE  /\ IsState(Published(c)) /\ StateOK(Published(c))
         /\ Grows(state[Session(c)], Published(c))
<1> DEFINE st  == state[Session(c)]
           old == WithToken(st, response[c].token)
           new == Published(c)
<1>1. IsState(old) /\ StateOK(old) /\ Grows(st, old)
  BY WithTokenKeeps
<1> HIDE DEF old
<1>2. /\ DOMAIN new = Fields /\ new.token = old.token /\ new.window = old.window
      /\ new.status = old.status /\ new.career_code = call[c].code
      /\ new.is_electives = call[c].electives
  BY <1>1 DEF Published, old, IsState, Fields
<1> HIDE DEF new
<1> QED BY <1>1, <1>2 DEF IsState, StateOK, Complete, Grows, new

LEMMA ListedKeeps ==
  ASSUME NEW c \in Callers, IsState(state[Session(c)]), StateOK(state[Session(c)]),
         Complete(state[Session(c)])
  PROVE  /\ IsState(Listed(c)) /\ StateOK(Listed(c))
         /\ Grows(state[Session(c)], Listed(c)) /\ Complete(Listed(c))
<1> DEFINE st  == state[Session(c)]
           new == Listed(c)
<1>1. /\ DOMAIN new = Fields /\ new.token = st.token /\ new.window = st.window
      /\ new.career_code = st.career_code /\ new.is_electives = st.is_electives
  BY DEF Listed, IsState, Fields
<1> HIDE DEF new
<1> QED BY <1>1 DEF IsState, StateOK, Complete, Grows, new

LEMMA SelectingKeeps ==
  ASSUME NEW st, NEW code, NEW electives, IsState(st)
  PROVE  Selecting(st, code, electives).token = st.token
         /\ Selecting(st, code, electives).window = st.window
BY DEF Selecting, IsState, Fields

-----------------------------------------------------------------------------
(* The actions that store an answer.                                       *)
LEMMA StoreKeeps ==
  ASSUME SessionInv, NEW c \in Callers, pc[c] # "idle", NEW st,
         state' = [state EXCEPT ![Session(c)] = st],
         IsState(st), StateOK(st), Grows(state[Session(c)], st)
  PROVE  /\ Session(c) \in AllSessions
         /\ DOMAIN state' = AllSessions /\ state'[Session(c)] = st
         /\ \A s \in AllSessions \ {Session(c)} : state'[s] = state[s]
         /\ \A r : Return(c, r) => Kept
<1>1. Session(c) \in AllSessions /\ DOMAIN state = AllSessions
  BY DEF SessionInv, CallerOK, Shapes, AllSessions
<1>2. /\ DOMAIN state' = AllSessions /\ state'[Session(c)] = st
      /\ \A s \in AllSessions \ {Session(c)} : state'[s] = state[s]
  BY <1>1
<1>3. ASSUME NEW r, Return(c, r) PROVE Kept
  BY <1>2, <1>3, ReturnKeeps
<1> QED BY <1>1, <1>2, <1>3

(* A step that goes on with the operation: c's place and copy are what     *)
(* remains to be shown.                                                    *)
LEMMA AdvanceKeeps ==
  ASSUME SessionInv, NEW c \in Callers, pc[c] # "idle", Shapes', Others(c), call' = call,
         \A s \in AllSessions \ {Session(c)} : state'[s] = state[s],
         IsState(state'[Session(c)]), StateOK(state'[Session(c)]),
         Grows(state[Session(c)], state'[Session(c)]),
         pc'[c] # "idle", Grows(local'[c], state'[Session(c)]),
         call[c].name = "init_session" => step'[c] = step[c],
         pc'[c] # "send" =>
           step'[c] = step[c] /\ Action(c) # "GET" /\ Complete(state'[Session(c)])
  PROVE  Kept
<1>1. CallerOK(c)
  BY DEF SessionInv
<1>2. Session(c)' = Session(c) /\ call'[c].session = Session(c)
  BY DEF Session
<1>3. step'[c] = step[c] => Action(c)' = Action(c)
  BY DEF Action
<1>4. CallerOK(c)'
  BY <1>1, <1>2, <1>3 DEF CallerOK
<1> QED BY <1>2, <1>4, Frame

LEMMA ReceivePostKeeps ==
  ASSUME SessionInv, NEW c \in Callers, ReceivePost(c)
  PROVE  Kept
<1> DEFINE st  == state[Session(c)]
           new == WithToken(st, response[c].token)
<1>1. /\ pc[c] = "answered" /\ pc[c] # "idle" /\ Action(c) # "GET"
      /\ pc' = [pc EXCEPT ![c] = "received"]
      /\ state' = [state EXCEPT ![Session(c)] = new]
      /\ call' = call /\ step' = step /\ local' = local
  BY DEF ReceivePost, Received
<1>2. CallerOK(c) /\ Shapes
  BY DEF SessionInv
<1>3. IsState(new) /\ StateOK(new) /\ Grows(st, new)
  BY <1>1, <1>2, WithTokenKeeps DEF CallerOK
<1>4. /\ DOMAIN state' = AllSessions /\ state'[Session(c)] = new
      /\ \A s \in AllSessions \ {Session(c)} : state'[s] = state[s]
  BY <1>1, <1>3, StoreKeeps
<1> HIDE DEF new
<1>5. Grows(local[c], new) /\ Complete(new)
  BY <1>1, <1>2, <1>3 DEF CallerOK, Grows, Complete
<1>6. Shapes' /\ Others(c) /\ pc'[c] = "received"
  BY <1>1, <1>2, <1>4 DEF Shapes, Others
<1> QED BY <1>1, <1>3, <1>4, <1>5, <1>6, AdvanceKeeps

LEMMA ReceiveGetKeeps ==
  ASSUME SessionInv, NEW c \in Callers, ReceiveGet(c)
  PROVE  Kept
<1> DEFINE st  == state[Session(c)]
           new == Initialised(st, response[c])
           cl  == call[c]
<1>1. pc[c] = "answered" /\ pc[c] # "idle" /\ Action(c) = "GET" /\ CallerOK(c) /\ Shapes
  BY DEF ReceiveGet, SessionInv
<1>2. CASE state' = state /\ AttemptFailed(c, StatusError(response[c].status))
  BY <1>1, <1>2, AttemptKeeps
<1>3. CASE state' = [state EXCEPT ![Session(c)] = new] /\ AfterGet(c, new)
  <2>1. IsState(new) /\ StateOK(new) /\ Grows(st, new)
    BY <1>1, InitialisedKeeps DEF CallerOK
  <2>2. /\ DOMAIN state' = AllSessions /\ state'[Session(c)] = new
        /\ \A s \in AllSessions \ {Session(c)} : state'[s] = state[s]
        /\ \A r : Return(c, r) => Kept
    BY <1>1, <1>3, <2>1, StoreKeeps
  <2> DEFINE copy == Selecting(new, cl.code, cl.electives)
  <2>3. Grows(copy, new)
    BY <2>1, SelectingKeeps DEF Grows
  <2> HIDE DEF new, copy
  <2>4. CASE /\ cl.name # "init_session" /\ NextAction(c)
             /\ local' = [local EXCEPT ![c] = copy]
    <3>1. /\ Shapes' /\ Others(c) /\ call' = call /\ pc'[c] = "send" /\ local'[c] = copy
      BY <1>1, <2>2, <2>4 DEF Shapes, Others, NextAction
    <3> QED BY <1>1, <2>1, <2>2, <2>3, <2>4, <3>1, AdvanceKeeps
  <2> QED BY <1>3, <2>2, <2>4 DEF AfterGet, Fail, copy
<1> QED BY <1>2, <1>3 DEF ReceiveGet

LEMMA CareerAnswerKeeps ==
  ASSUME SessionInv, NEW c \in Callers, CareerAnswer(c)
  PROVE  Kept
<1>1. /\ pc[c] = "received" /\ pc[c] # "idle" /\ Action(c) # "GET" /\ CallerOK(c) /\ Shapes
  BY DEF CareerAnswer, Navigating, SessionInv
<1>2. ASSUME NEW e, FailReceived(c, e) PROVE Kept
  BY <1>1, <1>2, SameStateKeeps DEF FailReceived, Fail
<1>3. CASE Publish(c)
  <2> DEFINE st  == state[Session(c)]
             new == Published(c)
  <2>1. /\ IsState(st) /\ StateOK(st) /\ Complete(st) /\ call[c].name # "init_session"
        /\ <<call[c].code, call[c].electives>> \in Careers
    BY <1>1 DEF CallerOK
  <2>2. IsState(new) /\ StateOK(new) /\ Grows(st, new)
    BY <2>1, PublishedKeeps
  <2>3. /\ state' = [state EXCEPT ![Session(c)] = new]
        /\ local' = [local EXCEPT ![c] = new] /\ call' = call
        /\ \/ pc' = [pc EXCEPT ![c] = "navigated"] /\ step' = step
           \/ NextAction(c)
    BY <1>3 DEF Publish, NextAction
  <2> HIDE DEF new
  <2>4. /\ DOMAIN state' = AllSessions /\ state'[Session(c)] = new
        /\ \A s \in AllSessions \ {Session(c)} : state'[s] = state[s]
    BY <1>1, <2>2, <2>3, StoreKeeps
  <2>5. Grows(new, new) /\ Complete(new)
    BY <2>1, <2>2 DEF Grows, Complete
  <2>6. /\ Shapes' /\ Others(c) /\ local'[c] = new
        /\ \/ pc'[c] = "navigated" /\ step'[c] = step[c]
           \/ pc'[c] = "send"
    BY <1>1, <2>3, <2>4 DEF Shapes, Others, NextAction
  <2> QED BY <1>1, <2>1, <2>2, <2>3, <2>4, <2>5, <2>6, AdvanceKeeps
<1> QED BY <1>2, <1>3 DEF CareerAnswer

LEMMA ShowCoursesKeeps ==
  ASSUME SessionInv, NEW c \in Callers, ShowCourses(c)
  PROVE  Kept
<1> DEFINE st  == state[Session(c)]
           new == Listed(c)
<1>1. /\ pc[c] = "navigated" /\ pc[c] # "idle" /\ CallerOK(c) /\ Shapes
      /\ state' = [state EXCEPT ![Session(c)] = new]
  BY DEF ShowCourses, SessionInv
<1>2. IsState(st) /\ StateOK(st) /\ Complete(st) /\ call[c].name # "init_session"
  BY <1>1 DEF CallerOK
<1>3. IsState(new) /\ StateOK(new) /\ Grows(st, new) /\ Complete(new)
  BY <1>2, ListedKeeps
<1>4. /\ DOMAIN state' = AllSessions /\ state'[Session(c)] = new
      /\ \A s \in AllSessions \ {Session(c)} : state'[s] = state[s]
      /\ \A r : Return(c, r) => Kept
  BY <1>1, <1>3, StoreKeeps
<1>5. CASE local' = [local EXCEPT ![c] = new] /\ NextAction(c)
  <2> HIDE DEF new
  <2>1. Grows(new, new)
    BY DEF Grows
  <2>2. Shapes' /\ Others(c) /\ local'[c] = new /\ pc'[c] = "send" /\ call' = call
    BY <1>1, <1>4, <1>5 DEF Shapes, Others, NextAction
  <2> QED BY <1>1, <1>2, <1>3, <1>4, <2>1, <2>2, AdvanceKeeps
<1> QED BY <1>4, <1>5 DEF ShowCourses

LEMMA CourseStepsKeep ==
  ASSUME SessionInv, NEW c \in Callers, RowSelected(c) \/ CourseOpened(c) \/ WentBack(c)
  PROVE  Kept
<1> DEFINE st == state[Session(c)]
<1>1. /\ pc[c] = "received" /\ pc[c] # "idle" /\ Action(c) # "GET" /\ CallerOK(c) /\ Shapes
  BY DEF RowSelected, CourseOpened, WentBack, SessionInv
<1>2. /\ IsState(st) /\ StateOK(st) /\ Complete(st) /\ call[c].name # "init_session"
      /\ Grows(local[c], st) /\ Grows(st, st)
  BY <1>1 DEF CallerOK, Grows
<1>3. CASE NextAction(c) /\ state' = state /\ local' = local
  <2>1. Shapes' /\ Others(c) /\ pc'[c] = "send" /\ call' = call
    BY <1>1, <1>3 DEF Shapes, Others, NextAction
  <2> QED BY <1>1, <1>2, <1>3, <2>1, AdvanceKeeps
<1>4. ASSUME NEW e, Fail(c, e), state' = state PROVE Kept
  BY <1>1, <1>4, SameStateKeeps DEF Fail
<1>5. CASE WentBack(c)
  <2> DEFINE new == [st EXCEPT !.status = "ON_CAREER_PAGE"]
  <2>1. state' = [state EXCEPT ![Session(c)] = new]
    BY <1>5 DEF WentBack
  <2>2. /\ DOMAIN new = Fields /\ new.token = st.token /\ new.window = st.window
        /\ new.career_code = st.career_code /\ new.is_electives = st.is_electives
    BY <1>2 DEF IsState, Fields
  <2> HIDE DEF new
  <2>3. IsState(new) /\ StateOK(new) /\ Grows(st, new)
    BY <1>2, <2>2 DEF IsState, StateOK, Complete, Grows
  <2>4. \A r : Return(c, r) => Kept
    BY <1>1, <2>1, <2>3, StoreKeeps
  <2> QED BY <1>5, <2>4 DEF WentBack, Fail
<1> QED BY <1>3, <1>4, <1>5 DEF RowSelected, CourseOpened

-----------------------------------------------------------------------------
(* Beginning an operation.                                                 *)
CallFields == DOMAIN NoCall

LEMMA GetFirst ==
  ASSUME NEW cl, cl.name = "init_session"
  PROVE  Actions(cl)[1] = "GET"
<1>1. "init_session" \notin {"scrape", "course_xml"}
  OBVIOUS
<1> QED BY <1>1 DEF Actions

LEMMA OthersKeep ==
  ASSUME SessionInv, NEW c \in Callers, Others(c), NEW t,
         \A s \in AllSessions \ {t} : state'[s] = state[s],
         state'[t] = state[t] \/ \A d \in Callers : Session(d) # t
  PROVE  \A d \in Callers \ {c} : CallerOK(d)'
<1> SUFFICES ASSUME NEW d \in Callers \ {c} PROVE CallerOK(d)'
  OBVIOUS
<1>1. /\ pc'[d] = pc[d] /\ call'[d] = call[d] /\ step'[d] = step[d] /\ local'[d] = local[d]
  BY DEF Others
<1>2. Session(d)' = Session(d) /\ Action(d)' = Action(d) /\ CallerOK(d)
  BY <1>1 DEF Session, Action, SessionInv
<1>3. CASE pc[d] = "idle"
  BY <1>1, <1>2, <1>3 DEF CallerOK
<1>4. CASE pc[d] # "idle"
  <2>1. Session(d) \in AllSessions
    BY <1>2, <1>4 DEF CallerOK, AllSessions
  <2>2. state'[Session(d)] = state[Session(d)]
    BY <2>1
  <2> QED BY <1>1, <1>2, <1>4, <2>2 DEF CallerOK
<1> QED BY <1>3, <1>4

(* t is the session that will work; its state is that of before, or is one *)
(* nobody else works on.                                                   *)
LEMMA BeginKeeps ==
  ASSUME SessionInv, NEW c \in Callers, pc[c] = "idle", NEW cl, NEW copy, Begin(c, cl, copy),
         DOMAIN cl = CallFields, NEW t, t = cl.session, t \in Sessions \cup {c},
         DOMAIN state' = AllSessions, \A s \in AllSessions \ {t} : state'[s] = state[s],
         IsState(state'[t]), StateOK(state'[t]), Grows(copy, state'[t]),
         \/ state'[t] = state[t]
         \/ t # Root /\ \A d \in Callers : Session(d) # t,
         t \in Sessions \ {Root} =>
           /\ state[Root].token # NoToken
           /\ state'[t].token # NoToken,
         cl.name # "init_session" => <<cl.code, cl.electives>> \in Careers
  PROVE  Kept
<1> DEFINE begun == [cl EXCEPT !.from = srv[Jar(cl.session)].page]
<1>1. /\ Shapes /\ CallerOK(c) /\ StatesOK /\ RootFirst /\ Session(c) = Root /\ step[c] = 1
  BY DEF SessionInv, CallerOK
<1>2. Root \in Sessions /\ Sessions \cap Callers = {}
  BY SessionAssumption
<1>3. /\ call' = [call EXCEPT ![c] = begun] /\ pc' = [pc EXCEPT ![c] = "send"]
      /\ local' = [local EXCEPT ![c] = copy] /\ step' = step
  BY DEF Begin
<1>4. /\ begun.session = t /\ begun.name = cl.name /\ begun.code = cl.code
      /\ begun.electives = cl.electives
  BY DEF CallFields, NoCall
<1> HIDE DEF begun
<1>5. /\ pc'[c] = "send" /\ call'[c] = begun /\ local'[c] = copy /\ step'[c] = 1
      /\ Session(c)' = t /\ Shapes' /\ Others(c)
  BY <1>1, <1>3, <1>4 DEF Shapes, Session, Others
<1>6. Action(c)' = Actions(begun)[1]
  BY <1>5 DEF Action
<1>7. begun.name = "init_session" => Action(c)' = "GET"
  BY <1>6, GetFirst
<1>8. CallerOK(c)'
  BY <1>4, <1>5, <1>7 DEF CallerOK
<1>9. state'[Root] = state[Root]
  BY <1>2 DEF AllSessions
<1>10. StatesOK'
  BY <1>1 DEF StatesOK
<1>11. \A d \in Callers \ {c} : CallerOK(d)'
  BY <1>5, OthersKeep
<1>12. RootFirst'
  <2>1. ASSUME NEW s \in Sessions, state'[s] # NoSession, state'[s].token # NoToken
        PROVE  state'[Root].token # NoToken
    BY <1>1, <1>9, <2>1 DEF RootFirst, AllSessions
  <2>2. ASSUME NEW d \in Callers, Session(d)' \in Sessions \ {Root}
        PROVE  state'[Root].token # NoToken
    <3>1. d # c => Session(d)' = Session(d)
      BY <1>5 DEF Others, Session
    <3> QED BY <1>1, <1>5, <1>9, <2>2, <3>1 DEF RootFirst
  <2> QED BY <1>1, <1>9, <2>1, <2>2 DEF RootFirst
<1>13. TokensKept
  BY <1>1, <1>9 DEF TokensKept, RootFirst, AllSessions
<1>14. SessionInv'
  BY <1>5, <1>8, <1>10, <1>11, <1>12 DEF SessionInv
<1> QED BY <1>13, <1>14 DEF Kept

(* The same for a call refused at once; the clone of a batch is made       *)
(* nevertheless.                                                           *)
LEMMA RefuseKeeps ==
  ASSUME SessionInv, NEW c \in Callers, pc[c] = "idle", NEW cl, Refuse(c, cl),
         NEW t, t \in Sessions, DOMAIN state' = AllSessions,
         \A s \in AllSessions \ {t} : state'[s] = state[s],
         t = Root => state'[t] = state[t],
         t # Root => state'[t] = state[Root] /\ \A d \in Callers : Session(d) # t
  PROVE  Kept
<1>1. /\ Shapes /\ CallerOK(c) /\ StatesOK /\ RootFirst /\ Session(c) = Root /\ step[c] = 1
  BY DEF SessionInv, CallerOK
<1>2. Root \in Sessions
  BY SessionAssumption
<1>3. /\ call' = [call EXCEPT ![c] = NoCall] /\ pc' = [pc EXCEPT ![c] = "idle"]
      /\ local' = [local EXCEPT ![c] = DefaultState] /\ step' = [step EXCEPT ![c] = 1]
  BY DEF Refuse, Return
<1>4. NoCall.session = Root
  BY DEF NoCall
<1>5. /\ pc'[c] = "idle" /\ step'[c] = 1 /\ Session(c)' = Root /\ Shapes' /\ Others(c)
  BY <1>1, <1>3, <1>4 DEF Shapes, Session, Others
<1>6. CallerOK(c)'
  BY <1>5 DEF CallerOK
<1>7. state'[Root] = state[Root]
  BY <1>2 DEF AllSessions
<1>8. StatesOK'
  BY <1>1, <1>2 DEF StatesOK, AllSessions
<1>9. \A d \in Callers \ {c} : CallerOK(d)'
  BY <1>5, OthersKeep
<1>10. RootFirst'
  <2>1. ASSUME NEW s \in Sessions, state'[s] # NoSession, state'[s].token # NoToken
        PROVE  state'[Root].token # NoToken
    BY <1>1, <1>7, <2>1 DEF RootFirst, AllSessions
  <2>2. ASSUME NEW d \in Callers, Session(d)' \in Sessions \ {Root}
        PROVE  state'[Root].token # NoToken
    <3>1. d # c => Session(d)' = Session(d)
      BY <1>5 DEF Others, Session
    <3> QED BY <1>1, <1>5, <1>7, <2>2, <3>1 DEF RootFirst
  <2> QED BY <1>1, <1>7, <2>1, <2>2 DEF RootFirst
<1>11. TokensKept
  BY <1>1, <1>7 DEF TokensKept, RootFirst, AllSessions
<1>12. SessionInv'
  BY <1>5, <1>6, <1>8, <1>9, <1>10 DEF SessionInv
<1> QED BY <1>11, <1>12 DEF Kept

(* The calls that can begin.                                               *)
LEMMA ScrapeKeeps ==
  ASSUME SessionInv, NEW c \in Callers, NEW t \in Sessions, NEW index,
         Scrape(c, Root, t, index),
         DOMAIN state' = AllSessions, \A s \in AllSessions \ {t} : state'[s] = state[s],
         state'[t] = state[Root], t # Root => \A d \in Callers : Session(d) # t
  PROVE  Kept
<1> DEFINE st == state[Root]
           cl == [NoCall EXCEPT !.name = "scrape", !.session = t, !.code = st.career_code,
                                !.electives = st.is_electives, !.index = index]
           copy == Selecting(st, st.career_code, st.is_electives)
<1>1. pc[c] = "idle" /\ Root \in AllSessions /\ IsState(st) /\ StateOK(st) /\ RootFirst
  <2>1. pc[c] = "idle" /\ st # NoSession
    BY DEF Scrape, Ready
  <2>2. Root \in AllSessions
    BY SessionAssumption DEF AllSessions
  <2> QED BY <2>1, <2>2 DEF SessionInv, StatesOK
<1>2. CASE Refuse(c, cl)
  <2> HIDE DEF cl
  <2> QED BY <1>1, <1>2, RefuseKeeps
<1>3. CASE Scrapable(Root, index) /\ st.career_code \in FourParts /\ Begin(c, cl, copy)
  <2>1. st.career_code # NoCode
    BY <1>3, CodesAssumption
  <2>2. <<st.career_code, st.is_electives>> \in Careers
    BY <1>1, <2>1 DEF StateOK
  <2>3. /\ DOMAIN cl = CallFields /\ cl.session = t /\ cl.name = "scrape"
        /\ cl.code = st.career_code /\ cl.electives = st.is_electives
    BY DEF CallFields, NoCall
  <2>4. Grows(copy, st)
    BY <1>1, SelectingKeeps DEF Grows
  <2>5. st.token # NoToken
    BY <1>1, <1>3 DEF Scrapable, StateOK, Complete
  <2> HIDE DEF cl, copy
  <2> QED BY <1>1, <1>3, <2>2, <2>3, <2>4, <2>5, BeginKeeps
<1> QED BY <1>2, <1>3 DEF Scrape

LEMMA RootCallsKeep ==
  ASSUME SessionInv, NEW c \in Callers,
         \/ InitSession(c, Root)
         \/ \E career \in Careers : SetCareer(c, Root, career[1], career[2])
  PROVE  Kept
<1> DEFINE st == state[Root]
<1>1. /\ pc[c] = "idle" /\ DOMAIN state = AllSessions /\ Root \in Sessions
      /\ IsState(st) /\ StateOK(st) /\ state' = state
  <2>1. pc[c] = "idle" /\ st # NoSession /\ state' = state
    BY DEF InitSession, SetCareer, Ready
  <2>2. Root \in Sessions /\ Root \in AllSessions
    BY SessionAssumption DEF AllSessions
  <2> QED BY <2>1, <2>2 DEF SessionInv, StatesOK, Shapes
<1>2. CASE InitSession(c, Root)
  <2> DEFINE cl == [NoCall EXCEPT !.name = "init_session", !.session = Root]
  <2>1. Begin(c, cl, st)
    BY <1>2 DEF InitSession
  <2>2. DOMAIN cl = CallFields /\ cl.session = Root /\ cl.name = "init_session"
    BY DEF CallFields, NoCall
  <2>3. Grows(st, st)
    BY DEF Grows
  <2> HIDE DEF cl
  <2> QED BY <1>1, <2>1, <2>2, <2>3, BeginKeeps
<1>3. ASSUME NEW career \in Careers, SetCareer(c, Root, career[1], career[2]) PROVE Kept
  <2> DEFINE cl   == [NoCall EXCEPT !.name = "set_career", !.session = Root,
                                    !.code = career[1], !.electives = career[2]]
             copy == Selecting(st, career[1], career[2])
  <2>1. Begin(c, cl, copy) \/ Refuse(c, cl)
    BY <1>3 DEF SetCareer
  <2>2. /\ DOMAIN cl = CallFields /\ cl.session = Root /\ cl.name = "set_career"
        /\ cl.code = career[1] /\ cl.electives = career[2]
    BY DEF CallFields, NoCall
  <2>3. career = <<career[1], career[2]>>
    BY SessionAssumption
  <2>4. Grows(copy, st)
    BY <1>1, SelectingKeeps DEF Grows
  <2> HIDE DEF cl, copy
  <2>5. <<cl.code, cl.electives>> \in Careers
    BY <2>2, <2>3
  <2>6. CASE Begin(c, cl, copy)
    BY <1>1, <2>2, <2>4, <2>5, <2>6, BeginKeeps
  <2>7. CASE Refuse(c, cl)
    BY <1>1, <2>7, RefuseKeeps
  <2> QED BY <2>1, <2>6, <2>7
<1> QED BY <1>2, <1>3

LEMMA CourseCallsKeep ==
  ASSUME SessionInv, NEW c \in Callers, NEW index,
         ScrapeCourse(c, index) \/ \E clone \in Sessions \ {Root} : ScrapeBatch(c, clone, index)
  PROVE  Kept
<1>1. DOMAIN state = AllSessions /\ Root \in Sessions
  BY SessionAssumption DEF SessionInv, Shapes
<1>2. CASE ScrapeCourse(c, index)
  BY <1>1, <1>2, ScrapeKeeps DEF ScrapeCourse
<1>3. ASSUME NEW clone \in Sessions \ {Root}, ScrapeBatch(c, clone, index) PROVE Kept
  <2>1. /\ DOMAIN state' = AllSessions /\ state'[clone] = state[Root]
        /\ \A s \in AllSessions \ {clone} : state'[s] = state[s]
    BY <1>1, <1>3 DEF ScrapeBatch, AllSessions
  <2> QED BY <1>3, <2>1, ScrapeKeeps DEF ScrapeBatch
<1> QED BY <1>2, <1>3

LEMMA DefaultOK ==
  /\ IsState(DefaultState) /\ StateOK(DefaultState) /\ Grows(DefaultState, DefaultState)
  /\ DefaultState.token = NoToken
BY DEF DefaultState, IsState, StateOK, Grows, Fields

LEMMA OneShotKeeps ==
  ASSUME SessionInv, NEW c \in Callers, NEW name, NEW career, NEW index,
         OneShot(c, name, career, index),
         name # "init_session" => career \in Careers
  PROVE  Kept
<1> DEFINE cl == [[NoCall EXCEPT !.name = name, !.session = c, !.index = index]
                    EXCEPT !.code = career[1], !.electives = career[2]]
<1>1. pc[c] = "idle" /\ Begin(c, cl, DefaultState) /\ state' = [state EXCEPT ![c] = DefaultState]
  BY DEF OneShot
<1>2. c # Root /\ c \notin Sessions /\ Root \in Sessions
  BY SessionAssumption
<1>3. /\ DOMAIN cl = CallFields /\ cl.session = c /\ cl.name = name
      /\ cl.code = career[1] /\ cl.electives = career[2]
  BY DEF CallFields, NoCall
<1> HIDE DEF cl
<1>4. /\ DOMAIN state' = AllSessions /\ state'[c] = DefaultState
      /\ \A s \in AllSessions \ {c} : state'[s] = state[s]
  BY <1>1 DEF SessionInv, Shapes, AllSessions
<1>5. \A d \in Callers : Session(d) # c
  <2> SUFFICES ASSUME NEW d \in Callers PROVE Session(d) # c
    OBVIOUS
  <2>1. CallerOK(d)
    BY DEF SessionInv
  <2>2. CASE pc[d] = "idle"
    BY <1>2, <2>1, <2>2 DEF CallerOK
  <2>3. CASE pc[d] # "idle"
    BY <1>1, <1>2, <2>1, <2>3 DEF CallerOK
  <2> QED BY <2>2, <2>3
<1>6. name # "init_session" => <<career[1], career[2]>> \in Careers
  BY SessionAssumption
<1> QED BY <1>1, <1>2, <1>3, <1>4, <1>5, <1>6, DefaultOK, BeginKeeps

LEMMA StartKeeps ==
  ASSUME SessionInv, NEW c \in Callers, Start(c)
  PROVE  Kept
<1>1. ASSUME NEW index \in CourseIndices,
             \/ ScrapeCourse(c, index)
             \/ \E clone \in Sessions \ {Root} : ScrapeBatch(c, clone, index)
      PROVE  Kept
  BY <1>1, CourseCallsKeep
<1>2. CASE InitSiaSession(c)
  BY <1>2, OneShotKeeps DEF InitSiaSession
<1>3. ASSUME NEW career \in Careers, SetCareerOnce(c, career) PROVE Kept
  BY <1>3, OneShotKeeps DEF SetCareerOnce
<1>4. ASSUME NEW career \in Careers, NEW index, GetCourseXml(c, career, index) PROVE Kept
  BY <1>4, OneShotKeeps DEF GetCourseXml
<1> QED BY <1>1, <1>2, <1>3, <1>4, RootCallsKeep DEF Start

-----------------------------------------------------------------------------
LEMMA InitOK == Init => SessionInv
<1> SUFFICES ASSUME Init PROVE SessionInv
  OBVIOUS
<1>1. Root \in Sessions /\ Root \in AllSessions
  BY SessionAssumption DEF AllSessions
<1>2. /\ Shapes /\ state[Root] = DefaultState
      /\ \A s \in AllSessions : state[s] = NoSession \/ state[s] = DefaultState
  BY <1>1 DEF Init, Shapes
<1>3. \A c \in Callers : pc[c] = "idle" /\ step[c] = 1 /\ Session(c) = Root
  BY DEF Init, Session, NoCall
<1>4. StatesOK
  BY <1>2, DefaultOK DEF StatesOK
<1>5. \A c \in Callers : CallerOK(c)
  BY <1>3 DEF CallerOK
<1>6. RootFirst
  BY <1>2, <1>3, DefaultOK DEF RootFirst, AllSessions
<1> QED BY <1>2, <1>4, <1>5, <1>6 DEF SessionInv

LEMMA IdleKeeps ==
  ASSUME SessionInv, UNCHANGED vars
  PROVE  Kept
<1>1. /\ state' = state /\ pc' = pc /\ call' = call /\ step' = step /\ local' = local
  BY DEF vars
<1>2. \A c \in Callers : Session(c)' = Session(c) /\ Action(c)' = Action(c)
  BY <1>1 DEF Session, Action
<1>3. \A c \in Callers : CallerOK(c)'
  BY <1>1, <1>2 DEF CallerOK, SessionInv
<1>4. Shapes' /\ StatesOK' /\ RootFirst'
  BY <1>1, <1>2 DEF SessionInv, Shapes, StatesOK, RootFirst
<1>5. TokensKept
  BY <1>1 DEF TokensKept
<1> QED BY <1>3, <1>4, <1>5 DEF Kept, SessionInv

LEMMA NextKeeps ==
  ASSUME SessionInv, Next
  PROVE  Kept
<1>1. ASSUME NEW c \in Callers, Progress(c) \/ Cancel(c) PROVE Kept
  BY <1>1, SendKeeps, NetworkKeeps, ReceivePostKeeps, ReceiveGetKeeps, CareerAnswerKeeps,
     ShowCoursesKeeps, CourseStepsKeep DEF Progress
<1>2. CASE Rest
  <2>1. UNCHANGED vars
    BY <1>2 DEF Rest
  <2> QED BY <2>1, IdleKeeps
<1> QED BY <1>1, <1>2, StartKeeps DEF Next

(* The invariant holds throughout every behaviour.                         *)
THEOREM SessionInvariance == Spec => []SessionInv
<1>1. SessionInv /\ [Next]_vars => SessionInv'
  BY NextKeeps, IdleKeeps DEF Kept
<1> QED BY <1>1, InitOK, PTL DEF Spec

(* A session that says it is on the career page can send its next request, *)
(* for any number of callers, any faults and any order of their steps.     *)
THEOREM CareerPageReady == Spec => []ReadyOnCareerPage
<1>1. SessionInv => ReadyOnCareerPage
  BY DEF SessionInv, StatesOK, StateOK, Complete, ReadyOnCareerPage
<1> QED BY <1>1, SessionInvariance, PTL

(* The career of a session is always one that some request asked for.      *)
THEOREM SelectionsAreRequested == Spec => []SelectionRequested
<1>1. SessionInv => SelectionRequested
  BY DEF SessionInv, StatesOK, StateOK, SelectionRequested
<1> QED BY <1>1, SessionInvariance, PTL

(* No answer, fault, cancellation or other caller takes a token away.      *)
THEOREM TokensStay == Spec => TokenNeverLost
<1>1. SessionInv /\ [Next]_vars => [TokensKept]_state
  BY NextKeeps, IdleKeeps DEF Kept
<1>2. [][TokensKept]_state => TokenNeverLost
  BY PTL DEF TokenNeverLost, TokensKept
<1> QED BY <1>1, <1>2, SessionInvariance, PTL DEF Spec

-----------------------------------------------------------------------------
(***************************************************************************)
(* A session that is alone with the server's cookies, over a network that  *)
(* loses requests or answers with error pages, for any careers, lists and  *)
(* calls, one-shot calls among them: it never sends a stale token, and     *)
(* from the search page an operation that succeeds has selected the career *)
(* and fetched the course that it was asked for.                           *)
(***************************************************************************)

(* One caller, no clone: what the guard of the Python wrapper makes of a   *)
(* session whose batches are left out.                                     *)
Alone == Sessions = {Root} /\ \E c \in Callers : Callers = {c}

(* Without these three faults an answer that the server gave is read.      *)
AnswersRead == Faults \cap {"lost_response", "bad_page", "cancel"} = {}

ServerFields == {"token", "page", "code", "electives", "depth", "list"}

IsServer(sv) == DOMAIN sv = ServerFields /\ sv.token \in Nat

Settled(s) == state[s] # NoSession => state[s].token = srv[Jar(s)].token

(* An answer brings the server's token, or, on an error page, none.        *)
AnswerOK(c) == response[c].token \in {NoToken, Server(c).token}

Later == {"COURSE_PAGE_LINK", "BACK_BTTN"}
Filters == {"STUDY_LEVEL_DD", "CAMPUS_DD", "FACULTY_DD", "CAREER_DD", "TIPOLOGY_DD",
            "FACULTY_CAREER_DD", "CAMPUS_ELECTIVES_DD"}
Navigation  == Filters \cup {"SHOW_COURSES_BTTN"}
CourseNames == {"SELECT_ROW"} \cup Later

Known(cl) == cl.name \in {"init_session", "set_career", "scrape", "course_xml"}

Synchronous(c) ==
  LET st == state[Session(c)]
  IN  /\ pc[c] \notin {"idle", "answered"} => st.token = Server(c).token
      /\ pc[c] \in {"answered", "received", "navigated"} => AnswerOK(c)
      /\ pc[c] = "answered" /\ response[c].token = NoToken => st.token = Server(c).token
      /\ pc[c] = "answered" /\ response[c].status >= 400 => response[c].token = NoToken
      /\ pc[c] # "idle" => Known(call[c]) /\ step[c] \in DOMAIN Actions(call[c])
      /\ pc[c] = "navigated" => Action(c) = "SHOW_COURSES_BTTN"
      /\ pc[c] = "send" /\ Action(c) \notin Later \cup {"GET"} => local[c].token = Server(c).token
      /\ pc[c] \notin {"idle", "send"} => request[c].action = Action(c)
      /\ pc[c] \in {"sent", "sleeping"} /\ request[c].action # "GET" =>
           request[c].token = Server(c).token

(* The inductive invariant, beside SessionInv.                             *)
TokenInv ==
  /\ DOMAIN srv = Jars /\ \A j \in Jars : IsServer(srv[j])
  /\ DOMAIN request = Callers /\ DOMAIN response = Callers
  /\ \A s \in AllSessions :
       (\A c \in Callers : Session(c) = s => pc[c] # "answered") => Settled(s)
  /\ \A c \in Callers : Synchronous(c)

FreshInv == SessionInv /\ TokenInv

-----------------------------------------------------------------------------
LEMMA AloneFacts ==
  ASSUME Alone, NEW c \in Callers
  PROVE  /\ Callers = {c} /\ Sessions = {Root} /\ c # Root
         /\ AllSessions = {Root, c} /\ Jars = {Root, c}
         /\ Jar(Root) = Root /\ Jar(c) = c
BY SessionAssumption DEF Alone, AllSessions, Jars, Jar

(* The server answers each request it acts on with its next token.         *)
LEMMA ProcessedRotates ==
  ASSUME NEW sv, IsServer(sv), NEW req, NEW p \in Processed(sv, req)
  PROVE  p.srv.token = sv.token + 1 /\ IsServer(p.srv)
<1>1. /\ Rotated(sv).token = sv.token + 1 /\ IsServer(Rotated(sv))
  BY DEF Rotated, IsServer, ServerFields
<1>2. /\ Filtered(sv, req).token = sv.token + 1 /\ IsServer(Filtered(sv, req))
  BY <1>1 DEF Filtered, IsServer, ServerFields
<1>3. IsServer(InitialServer)
  BY DEF InitialServer, IsServer, ServerFields, NoToken
<1>4. p.srv \in { [InitialServer EXCEPT !.token = sv.token + 1], Rotated(sv) }
        \cup { [Rotated(sv) EXCEPT !.page = g] : g \in {"search", "course"} }
        \cup { [Filtered(sv, req) EXCEPT !.list = l] : l \in ListsAfter(sv, req) }
  BY DEF Processed
<1>5. sv.token + 1 \in Nat
  BY DEF IsServer
<1>6. CASE p.srv = [InitialServer EXCEPT !.token = sv.token + 1]
  BY <1>3, <1>5, <1>6 DEF IsServer, ServerFields
<1>7. ASSUME NEW g, p.srv = [Rotated(sv) EXCEPT !.page = g]
      PROVE  p.srv.token = sv.token + 1 /\ IsServer(p.srv)
  BY <1>1, <1>7 DEF IsServer, ServerFields
<1>8. ASSUME NEW l, p.srv = [Filtered(sv, req) EXCEPT !.list = l]
      PROVE  p.srv.token = sv.token + 1 /\ IsServer(p.srv)
  BY <1>2, <1>8 DEF IsServer, ServerFields
<1> QED BY <1>1, <1>4, <1>6, <1>7, <1>8

(* The elements of a concatenation.                                       *)
LEMMA Joined ==
  ASSUME NEW S, NEW s \in Seq(S), NEW T, NEW t \in Seq(T), NEW i \in 1..Len(s \o t)
  PROVE  /\ s \o t \in Seq(S \cup T) /\ Len(s) \in Nat /\ Len(t) \in Nat
         /\ Len(s \o t) = Len(s) + Len(t)
         /\ i <= Len(s) => (s \o t)[i] = s[i] /\ s[i] \in S
         /\ i > Len(s) => (s \o t)[i] = t[i - Len(s)] /\ i - Len(s) \in 1..Len(t)
<1>1. s \in Seq(S \cup T) /\ t \in Seq(S \cup T)
  OBVIOUS
<1>2. Len(s) \in Nat /\ Len(t) \in Nat /\ DOMAIN s = 1..Len(s) /\ DOMAIN t = 1..Len(t)
  BY LenProperties
<1>3. /\ s \o t \in Seq(S \cup T) /\ Len(s \o t) = Len(s) + Len(t)
      /\ i <= Len(s) => (s \o t)[i] = s[i]
      /\ i > Len(s) => (s \o t)[i] = t[i - Len(s)] /\ i - Len(s) \in 1..Len(t)
  BY <1>1, <1>2, ConcatProperties
<1>4. i <= Len(s) => s[i] \in S
  BY <1>2
<1> QED BY <1>2, <1>3, <1>4

(* Where an action stands in the selection of a career.                    *)
LEMMA CareerPlaces ==
  ASSUME NEW e
  PROVE  /\ CareerActions(e) \in Seq(Navigation) /\ Len(CareerActions(e)) \in Nat
         /\ Len(CareerActions(e)) > 3
         /\ \A i \in 1..Len(CareerActions(e)) :
              /\ CareerActions(e)[i] = "STUDY_LEVEL_DD" <=> i = 1
              /\ CareerActions(e)[i] = "FACULTY_DD" <=> i = 3
              /\ CareerActions(e)[i] = "SHOW_COURSES_BTTN" <=> i = Len(CareerActions(e))
<1> DEFINE A == <<"STUDY_LEVEL_DD", "CAMPUS_DD", "FACULTY_DD", "CAREER_DD", "TIPOLOGY_DD">>
           B == IF e THEN <<"FACULTY_CAREER_DD", "CAMPUS_ELECTIVES_DD">> ELSE <<>>
           C == <<"SHOW_COURSES_BTTN">>
<1>0. A \in Seq(Filters)
  BY DEF Filters
<1>a. Len(A) = 5
  OBVIOUS
<1>1. \A i \in 1..5 : /\ A[i] = "STUDY_LEVEL_DD" <=> i = 1
                      /\ A[i] = "FACULTY_DD" <=> i = 3
  OBVIOUS
<1>2. /\ B \in Seq({"FACULTY_CAREER_DD", "CAMPUS_ELECTIVES_DD"})
  <2>1. CASE e
    BY <2>1
  <2>2. CASE ~e
    BY <2>2
  <2> QED BY <2>1, <2>2
<1>3. C \in Seq({"SHOW_COURSES_BTTN"}) /\ Len(C) = 1 /\ C[1] = "SHOW_COURSES_BTTN"
  OBVIOUS
<1>4. CareerActions(e) = (A \o B) \o C
  BY DEF CareerActions
<1>5. {"FACULTY_CAREER_DD", "CAMPUS_ELECTIVES_DD"} \subseteq Filters
  BY DEF Filters
<1> HIDE DEF A, B, C
<1>6. B \in Seq(Filters) /\ Len(B) \in Nat
  BY <1>2, <1>5, LenProperties
<1> DEFINE AB == A \o B
<1>7. AB \in Seq(Filters) /\ Len(AB) = 5 + Len(B)
  <2>1. AB \in Seq(Filters) /\ Len(AB) = Len(A) + Len(B)
    BY <1>0, <1>6, ConcatProperties
  <2> QED BY <1>a, <2>1
<1>8. ASSUME NEW i \in 1..Len(AB)
      PROVE  /\ AB[i] = "STUDY_LEVEL_DD" <=> i = 1
             /\ AB[i] = "FACULTY_DD" <=> i = 3
             /\ AB[i] \in Filters
  <2>0. /\ i <= Len(A) => AB[i] = A[i]
        /\ i > Len(A) => AB[i] = B[i - Len(A)] /\ i - Len(A) \in 1..Len(B)
    BY <1>0, <1>2, Joined
  <2>1. i <= 5 => AB[i] = A[i]
    BY <1>a, <2>0
  <2>2. i > 5 => AB[i] = B[i - 5] /\ i - 5 \in 1..Len(B)
    BY <1>a, <2>0
  <2>3. AB[i] \in Filters
    BY <1>7
  <2>4. i > 5 => AB[i] \in {"FACULTY_CAREER_DD", "CAMPUS_ELECTIVES_DD"}
    BY <1>2, <2>2
  <2> QED BY <1>1, <1>6, <1>7, <2>1, <2>3, <2>4
<1> HIDE DEF AB
<1>9. AB \o C \in Seq(Navigation) /\ Len(AB \o C) = Len(AB) + 1
  <2>1. AB \in Seq(Navigation) /\ C \in Seq(Navigation)
    BY <1>3, <1>7 DEF Navigation
  <2>2. AB \o C \in Seq(Navigation)
    BY <2>1
  <2>3. Len(AB \o C) = Len(AB) + Len(C)
    BY <2>1, ConcatProperties
  <2> QED BY <1>3, <2>2, <2>3
<1>10. ASSUME NEW i \in 1..Len(AB \o C)
       PROVE  /\ (AB \o C)[i] = "STUDY_LEVEL_DD" <=> i = 1
              /\ (AB \o C)[i] = "FACULTY_DD" <=> i = 3
              /\ (AB \o C)[i] = "SHOW_COURSES_BTTN" <=> i = Len(AB \o C)
  <2>1. i <= Len(AB) => (AB \o C)[i] = AB[i]
    BY <1>3, <1>7, Joined
  <2>2. i > Len(AB) => (AB \o C)[i] = C[i - Len(AB)] /\ i - Len(AB) \in 1..Len(C)
    BY <1>3, <1>7, Joined
  <2>3. i > Len(AB) => (AB \o C)[i] = "SHOW_COURSES_BTTN" /\ i = Len(AB) + 1
    BY <1>3, <1>6, <1>7, <2>2
  <2>4. "SHOW_COURSES_BTTN" \notin Filters
    BY DEF Filters
  <2>5. CASE i <= Len(AB)
    <3>1. i \in 1..Len(AB)
      BY <1>6, <1>7, <2>5
    <3> QED BY <1>6, <1>7, <1>8, <1>9, <2>1, <2>4, <2>5, <3>1
  <2>6. CASE i > Len(AB)
    BY <1>6, <1>7, <1>9, <2>3, <2>6
  <2> QED BY <1>6, <1>7, <2>5, <2>6
<1>11. Len(AB \o C) \in Nat /\ Len(AB \o C) > 3
  BY <1>6, <1>7, <1>9
<1> QED BY <1>4, <1>9, <1>10, <1>11 DEF AB

(* The three parts of an operation's actions.                              *)
Opening(cl)   == IF cl.name = "init_session" \/ IsOneShot(cl) THEN <<"GET">> ELSE <<>>
Selection(cl) == IF cl.name = "init_session" THEN <<>> ELSE CareerActions(cl.electives)
Visit(cl)     == IF cl.name \in {"scrape", "course_xml"} THEN CourseActions ELSE <<>>

LEMMA ActionParts ==
  ASSUME NEW cl, Known(cl)
  PROVE  /\ Actions(cl) = (Opening(cl) \o Selection(cl)) \o Visit(cl)
         /\ Opening(cl) \in Seq({"GET"})
         /\ cl.name = "init_session" => Len(Opening(cl)) = 1
         /\ Selection(cl) \in Seq(Navigation)
         /\ Visit(cl) \in Seq(CourseNames)
         /\ cl.name \notin {"init_session", "set_career"} => Len(Visit(cl)) = 3
         /\ cl.name \in {"init_session", "set_career"} => Len(Visit(cl)) = 0
         /\ Len(Visit(cl)) = 3 =>
              /\ Visit(cl)[1] = "SELECT_ROW" /\ Visit(cl)[2] = "COURSE_PAGE_LINK"
              /\ Visit(cl)[3] = "BACK_BTTN"
<1>1. Actions(cl) = (Opening(cl) \o Selection(cl)) \o Visit(cl)
  BY DEF Actions, Opening, Selection, Visit
<1>2. Opening(cl) \in Seq({"GET"}) /\ (cl.name = "init_session" => Len(Opening(cl)) = 1)
  <2>1. CASE cl.name = "init_session" \/ IsOneShot(cl)
    <3>1. <<"GET">> \in Seq({"GET"}) /\ Len(<<"GET">>) = 1 /\ Opening(cl) = <<"GET">>
      BY <2>1 DEF Opening
    <3> QED BY <3>1
  <2>2. CASE ~(cl.name = "init_session" \/ IsOneShot(cl))
    BY <2>2 DEF Opening
  <2> QED BY <2>1, <2>2
<1>3. Selection(cl) \in Seq(Navigation)
  <2>1. CASE cl.name = "init_session"
    BY <2>1 DEF Selection
  <2>2. CASE cl.name # "init_session"
    BY <2>2, CareerPlaces DEF Selection
  <2> QED BY <2>1, <2>2
<1>4. /\ Visit(cl) \in Seq(CourseNames)
      /\ cl.name \notin {"init_session", "set_career"} => Len(Visit(cl)) = 3
      /\ cl.name \in {"init_session", "set_career"} => Len(Visit(cl)) = 0
      /\ Len(Visit(cl)) = 3 =>
           /\ Visit(cl)[1] = "SELECT_ROW" /\ Visit(cl)[2] = "COURSE_PAGE_LINK"
           /\ Visit(cl)[3] = "BACK_BTTN"
  <2>1. CASE cl.name \in {"scrape", "course_xml"}
    <3>1. CourseActions \in Seq(CourseNames)
      BY DEF CourseActions, CourseNames, Later
    <3>2. Visit(cl) = CourseActions
      BY <2>1 DEF Visit
    <3> QED BY <2>1, <3>1, <3>2 DEF CourseActions
  <2>2. CASE cl.name \notin {"scrape", "course_xml"}
    BY <2>2 DEF Known, Visit
  <2> QED BY <2>1, <2>2
<1> QED BY <1>1, <1>2, <1>3, <1>4

(* The three parts follow one another.                                     *)
LEMMA ActionPlaces ==
  ASSUME NEW cl, Known(cl)
  PROVE  LET g == Len(Opening(cl))
             k == Len(Selection(cl))
             v == Len(Visit(cl))
         IN  /\ g \in Nat /\ k \in Nat /\ v \in Nat /\ DOMAIN Actions(cl) = 1..(g + k + v)
             /\ \A n \in 1..(g + k + v) :
                  /\ n <= g => Actions(cl)[n] = "GET"
                  /\ n > g /\ n <= g + k => Actions(cl)[n] = Selection(cl)[n - g]
                  /\ n > g + k => Actions(cl)[n] = Visit(cl)[n - g - k]
<1> DEFINE A == Actions(cl)
           G == Opening(cl)
           C == Selection(cl)
           D == Visit(cl)
           g == Len(G)
           k == Len(C)
           v == Len(D)
<1>1. /\ G \in Seq({"GET"}) /\ C \in Seq(Navigation) /\ D \in Seq(CourseNames)
      /\ A = (G \o C) \o D /\ Len(G) = g /\ Len(C) = k /\ Len(D) = v
  BY ActionParts DEF Navigation
<1> HIDE DEF A, G, C, D, g, k, v
<1> DEFINE H == G \o C
<1>2. G \in Seq({"GET"} \cup Navigation) /\ C \in Seq({"GET"} \cup Navigation)
  BY <1>1
<1>3. H \in Seq({"GET"} \cup Navigation) /\ Len(H) = g + k /\ g \in Nat /\ k \in Nat /\ v \in Nat
  <2>1. H \in Seq({"GET"} \cup Navigation) /\ Len(H) = Len(G) + Len(C)
    BY <1>2, ConcatProperties
  <2>2. Len(G) \in Nat /\ Len(C) \in Nat /\ Len(D) \in Nat
    BY <1>1, <1>2, LenProperties
  <2>3. Len(G) = g /\ Len(C) = k /\ Len(D) = v
    BY <1>1
  <2> QED BY <2>1, <2>2, <2>3
<1>0. A = H \o D
  BY <1>1
<1>4. \A i \in 1..Len(H) : /\ i <= g => H[i] = "GET"
                           /\ i > g => H[i] = C[i - g]
  <2> SUFFICES ASSUME NEW i \in 1..Len(H)
               PROVE  (i <= g => H[i] = "GET") /\ (i > g => H[i] = C[i - g])
    OBVIOUS
  <2>1. /\ i <= Len(G) => H[i] = G[i] /\ G[i] \in {"GET"}
        /\ i > Len(G) => H[i] = C[i - Len(G)]
    BY <1>1, Joined
  <2> QED BY <1>1, <2>1
<1> HIDE DEF H
<1>5. H \in Seq({"GET"} \cup Navigation \cup CourseNames) /\ D \in Seq({"GET"} \cup Navigation \cup CourseNames)
  BY <1>1, <1>3
<1>6. A \in Seq({"GET"} \cup Navigation \cup CourseNames) /\ Len(A) = g + k + v
  <2>1. A \in Seq({"GET"} \cup Navigation \cup CourseNames) /\ Len(A) = Len(H) + Len(D)
    BY <1>0, <1>5, ConcatProperties
  <2>2. Len(D) = v
    BY <1>1
  <2> QED BY <1>3, <2>1, <2>2
<1>7. DOMAIN A = 1..(g + k + v)
  BY <1>6, LenProperties
<1>8. \A n \in 1..(g + k + v) : /\ n <= g + k => A[n] = H[n]
                                /\ n > g + k => A[n] = D[n - (g + k)]
  <2> SUFFICES ASSUME NEW n \in 1..(g + k + v)
               PROVE  (n <= g + k => A[n] = H[n]) /\ (n > g + k => A[n] = D[n - (g + k)])
    OBVIOUS
  <2>1. n \in 1..Len(H \o D)
    BY <1>0, <1>6
  <2>2. /\ n <= Len(H) => (H \o D)[n] = H[n]
        /\ n > Len(H) => (H \o D)[n] = D[n - Len(H)]
    BY <1>5, <2>1, Joined
  <2>3. Len(H) = g + k
    BY <1>3
  <2> QED BY <1>0, <2>2, <2>3
<1>9. ASSUME NEW n \in 1..(g + k + v)
      PROVE  /\ n <= g => A[n] = "GET"
             /\ n > g /\ n <= g + k => A[n] = C[n - g]
             /\ n > g + k => A[n] = D[n - g - k]
  <2>1. CASE n <= g + k
    <3>1. n \in 1..Len(H) /\ A[n] = H[n]
      BY <1>3, <1>8, <2>1
    <3> QED BY <1>3, <1>4, <2>1, <3>1
  <2>2. CASE n > g + k
    <3>1. n - (g + k) = n - g - k
      BY <1>3
    <3> QED BY <1>3, <1>8, <2>2, <3>1
  <2> QED BY <1>3, <2>1, <2>2
<1> QED BY <1>3, <1>7, <1>9 DEF A, G, C, D, g, k, v

LEMMA PartLengths ==
  ASSUME NEW cl, Known(cl)
  PROVE  /\ Len(Opening(cl)) = IF cl.name = "init_session" \/ IsOneShot(cl) THEN 1 ELSE 0
         /\ Len(Selection(cl)) = IF cl.name = "init_session" THEN 0
                                 ELSE Len(CareerActions(cl.electives))
         /\ cl.name # "init_session" => Selection(cl) = CareerActions(cl.electives)
         /\ Len(Visit(cl)) = IF cl.name \in {"init_session", "set_career"} THEN 0 ELSE 3
<1>1. Len(Opening(cl)) = IF cl.name = "init_session" \/ IsOneShot(cl) THEN 1 ELSE 0
  BY DEF Opening
<1>2. Len(Selection(cl)) = IF cl.name = "init_session" THEN 0 ELSE Len(CareerActions(cl.electives))
  BY DEF Selection
<1> QED BY <1>1, <1>2, ActionParts DEF Selection

(* Every operation has a first action: the GET of a new session, or the    *)
(* first filter.                                                           *)
LEMMA ActionsBegin ==
  ASSUME NEW cl, Known(cl)
  PROVE  /\ 1 \in DOMAIN Actions(cl)
         /\ cl.name = "init_session" \/ IsOneShot(cl) => Actions(cl)[1] = "GET"
         /\ ~(cl.name = "init_session" \/ IsOneShot(cl)) =>
              Actions(cl)[1] = "STUDY_LEVEL_DD" /\ Len(Opening(cl)) = 0
<1> DEFINE A == Actions(cl)
           g == Len(Opening(cl))
           k == Len(Selection(cl))
           v == Len(Visit(cl))
<1>1. /\ g = IF cl.name = "init_session" \/ IsOneShot(cl) THEN 1 ELSE 0
      /\ k = IF cl.name = "init_session" THEN 0 ELSE Len(CareerActions(cl.electives))
      /\ cl.name # "init_session" => Selection(cl) = CareerActions(cl.electives)
  BY PartLengths
<1>2. /\ g \in Nat /\ k \in Nat /\ v \in Nat /\ DOMAIN A = 1..(g + k + v)
      /\ \A n \in 1..(g + k + v) :
           /\ n <= g => A[n] = "GET"
           /\ n > g /\ n <= g + k => A[n] = Selection(cl)[n - g]
  BY ActionPlaces
<1>3. /\ Len(CareerActions(cl.electives)) > 3 /\ Len(CareerActions(cl.electives)) \in Nat
      /\ CareerActions(cl.electives)[1] = "STUDY_LEVEL_DD"
  <2>1. Len(CareerActions(cl.electives)) > 3 /\ Len(CareerActions(cl.electives)) \in Nat
    BY CareerPlaces
  <2>2. 1 \in 1..Len(CareerActions(cl.electives))
    BY <2>1
  <2> QED BY <2>1, <2>2, CareerPlaces
<1> HIDE DEF A, g, k, v
<1>4. CASE cl.name = "init_session" \/ IsOneShot(cl)
  <2>1. g = 1
    BY <1>1, <1>4
  <2>2. 1 \in 1..(g + k + v) /\ 1 <= g
    BY <1>2, <2>1
  <2> QED BY <1>2, <1>4, <2>1, <2>2 DEF A
<1>5. CASE ~(cl.name = "init_session" \/ IsOneShot(cl))
  <2>1. g = 0 /\ 1 \in 1..(g + k + v) /\ 1 > g /\ 1 <= g + k /\ 1 - g = 1
    BY <1>1, <1>2, <1>3, <1>5
  <2>2. A[1] = Selection(cl)[1]
    BY <1>2, <2>1
  <2> QED BY <1>1, <1>2, <1>3, <1>5, <2>1, <2>2 DEF A, g
<1> QED BY <1>4, <1>5

(* Where an action stands in an operation, and what follows it.  That      *)
(* SELECT_ROW is followed by COURSE_PAGE_LINK, and that by BACK_BTTN, is   *)
(* why the copy, which neither renews, is not read again.                  *)
LEMMA ActionsGoOn ==
  ASSUME NEW cl, Known(cl), NEW n \in DOMAIN Actions(cl), NEW a, a = Actions(cl)[n],
         NEW b, b = Actions(cl)[n + 1], NEW i, i = n - Len(Opening(cl))
  PROVE  /\ n \in Nat /\ a \in {"GET"} \cup Navigation \cup CourseNames
         /\ a \in Navigation =>
              /\ i \in 1..Len(CareerActions(cl.electives))
              /\ CareerActions(cl.electives)[i] = a
         /\ a \in Filters => n + 1 \in DOMAIN Actions(cl) /\ b \in Navigation
         /\ a = "GET" /\ cl.name # "init_session" =>
              n + 1 \in DOMAIN Actions(cl) /\ b = "STUDY_LEVEL_DD" /\ i = 0
         /\ a = "SHOW_COURSES_BTTN" /\ cl.name # "set_career" =>
              n + 1 \in DOMAIN Actions(cl) /\ b = "SELECT_ROW"
         /\ a = "SELECT_ROW" => n + 1 \in DOMAIN Actions(cl) /\ b = "COURSE_PAGE_LINK"
         /\ a = "COURSE_PAGE_LINK" => n + 1 \in DOMAIN Actions(cl) /\ b = "BACK_BTTN"
<1> DEFINE A == Actions(cl)
           S == Selection(cl)
           D == Visit(cl)
           g == Len(Opening(cl))
           k == Len(S)
           v == Len(D)
<1>1. /\ g = IF cl.name = "init_session" \/ IsOneShot(cl) THEN 1 ELSE 0
      /\ cl.name = "init_session" => k = 0 /\ v = 0
      /\ cl.name # "init_session" => S = CareerActions(cl.electives)
      /\ cl.name \notin {"init_session", "set_career"} => v = 3
  BY PartLengths
<1>2. /\ g \in Nat /\ k \in Nat /\ v \in Nat /\ DOMAIN A = 1..(g + k + v)
      /\ \A m \in 1..(g + k + v) :
           /\ m <= g => A[m] = "GET"
           /\ m > g /\ m <= g + k => A[m] = S[m - g]
           /\ m > g + k => A[m] = D[m - g - k]
  BY ActionPlaces
<1>3. /\ v = 0 \/ v = 3
      /\ v = 3 => D[1] = "SELECT_ROW" /\ D[2] = "COURSE_PAGE_LINK" /\ D[3] = "BACK_BTTN"
  BY ActionParts, PartLengths
<1>4. cl.name # "init_session" =>
        /\ k > 3
        /\ \A j \in 1..k : /\ S[j] \in Navigation
                           /\ S[j] = "STUDY_LEVEL_DD" <=> j = 1
                           /\ S[j] = "SHOW_COURSES_BTTN" <=> j = k
  <2>1. ASSUME NEW C, C = CareerActions(cl.electives), NEW j \in 1..Len(C) PROVE C[j] \in Navigation
    BY <2>1, CareerPlaces
  <2> QED BY <1>1, <2>1, CareerPlaces
<1>5. /\ "GET" \notin Navigation \cup CourseNames /\ Navigation \cap CourseNames = {}
      /\ CourseNames = {"SELECT_ROW", "COURSE_PAGE_LINK", "BACK_BTTN"}
      /\ Navigation = Filters \cup {"SHOW_COURSES_BTTN"} /\ "SHOW_COURSES_BTTN" \notin Filters
  BY DEF Navigation, Filters, CourseNames, Later
<1> HIDE DEF A, S, D, g, k, v
<1>6. n \in 1..(g + k + v) /\ a = A[n] /\ b = A[n + 1] /\ i = n - g
  BY <1>2 DEF A, g
<1>7. CASE n <= g
  <2>1. a = "GET" /\ n = 1 /\ g = 1
    BY <1>1, <1>2, <1>6, <1>7
  <2>2. CASE cl.name # "init_session"
    <3>1. /\ n + 1 \in 1..(g + k + v) /\ n + 1 > g /\ n + 1 <= g + k /\ (n + 1) - g = 1
          /\ 1 \in 1..k
      BY <1>2, <1>4, <2>1, <2>2
    <3>2. b = S[1]
      BY <1>2, <1>6, <3>1
    <3> QED BY <1>2, <1>4, <1>5, <1>6, <2>1, <2>2, <3>1, <3>2 DEF A
  <2>3. CASE cl.name = "init_session"
    BY <1>5, <2>1, <2>3
  <2> QED BY <2>2, <2>3
<1>8. CASE n > g /\ n <= g + k
  <2>1. a = S[i] /\ i \in 1..k
    BY <1>2, <1>6, <1>8
  <2>2. cl.name # "init_session" /\ a \in Navigation
    BY <1>1, <1>4, <2>1
  <2>3. a \in Filters => n + 1 \in 1..(g + k + v) /\ b \in Navigation
    <3>1. a \in Filters => i # k
      BY <1>4, <1>5, <2>1, <2>2
    <3>2. a \in Filters => /\ n + 1 \in 1..(g + k + v) /\ n + 1 > g /\ n + 1 <= g + k
                           /\ (n + 1) - g \in 1..k
      BY <1>2, <1>6, <1>8, <2>1, <3>1
    <3> QED BY <1>2, <1>4, <1>6, <2>2, <3>2
  <2>4. a = "SHOW_COURSES_BTTN" /\ cl.name # "set_career" =>
          n + 1 \in 1..(g + k + v) /\ b = "SELECT_ROW"
    <3>1. a = "SHOW_COURSES_BTTN" => n = g + k
      BY <1>2, <1>4, <1>6, <2>1, <2>2
    <3>2. cl.name # "set_career" => v = 3
      BY <1>1, <2>2
    <3>3. a = "SHOW_COURSES_BTTN" /\ cl.name # "set_career" =>
            n + 1 \in 1..(g + k + v) /\ n + 1 > g + k /\ (n + 1) - g - k = 1
      BY <1>2, <1>6, <3>1, <3>2
    <3> QED BY <1>2, <1>3, <1>6, <3>2, <3>3
  <2>5. i \in 1..Len(CareerActions(cl.electives)) /\ CareerActions(cl.electives)[i] = a
    BY <1>1, <2>1, <2>2 DEF k
  <2> QED BY <1>2, <1>5, <1>6, <2>2, <2>3, <2>4, <2>5 DEF A
<1>9. CASE n > g + k
  <2>1. a = D[n - g - k] /\ v = 3 /\ n - g - k \in {1, 2, 3}
    BY <1>2, <1>3, <1>6, <1>9
  <2>2. a \in CourseNames
    BY <1>3, <1>5, <2>1
  <2>3. CASE n - g - k \in {1, 2}
    <3>1. n + 1 \in 1..(g + k + v) /\ n + 1 > g + k /\ (n + 1) - g - k = (n - g - k) + 1
      BY <1>2, <1>6, <2>1, <2>3
    <3>2. b = D[(n - g - k) + 1]
      BY <1>2, <1>6, <3>1
    <3> QED BY <1>2, <1>3, <1>5, <1>6, <2>1, <2>2, <2>3, <3>1, <3>2 DEF A
  <2>4. CASE n - g - k = 3
    BY <1>2, <1>3, <1>5, <1>6, <2>1, <2>2, <2>4
  <2> QED BY <2>1, <2>3, <2>4
<1> QED BY <1>2, <1>6, <1>7, <1>8, <1>9

-----------------------------------------------------------------------------
(* A step of the caller concerns one session t and its jar; the others are *)
(* settled and stay so.                                                    *)
LEMMA TokenFrame ==
  ASSUME Alone, TokenInv, NEW c \in Callers, NEW t \in {Root, c},
         \A x \in AllSessions \ {t} : Settled(x) /\ state'[x] = state[x],
         DOMAIN srv' = Jars, \A j \in Jars \ {Jar(t)} : srv'[j] = srv[j], IsServer(srv'[Jar(t)]),
         DOMAIN request' = Callers, DOMAIN response' = Callers,
         \/ state'[t] = NoSession
         \/ state'[t].token = srv'[Jar(t)].token
         \/ pc'[c] = "answered" /\ Session(c)' = t,
         Synchronous(c)'
  PROVE  TokenInv'
<1>1. /\ Callers = {c} /\ AllSessions = {Root, c} /\ Jars = {Root, c}
      /\ Jar(Root) = Root /\ Jar(c) = c /\ c # Root
  BY AloneFacts
<1>2. \A j \in Jars : IsServer(srv'[j])
  BY <1>1 DEF TokenInv
<1>3. ASSUME NEW x \in AllSessions, \A d \in Callers : Session(d)' = x => pc'[d] # "answered"
      PROVE  Settled(x)'
  <2>1. CASE x = t
    BY <1>3, <2>1 DEF Settled, Jar
  <2>2. CASE x # t
    <3>1. Settled(x) /\ Jar(x) \in Jars \ {Jar(t)}
      BY <1>1, <2>2
    <3> QED BY <2>2, <3>1 DEF Settled, Jar
  <2> QED BY <2>1, <2>2
<1> QED BY <1>1, <1>2, <1>3 DEF TokenInv

(* What a caller at work can rely on.                                      *)
LEMMA AtWork ==
  ASSUME Alone, FreshInv, NEW c \in Callers, pc[c] # "idle"
  PROVE  /\ Session(c) \in {Root, c} /\ Session(c) \in AllSessions
         /\ IsState(state[Session(c)])
         /\ Jar(Session(c)) \in Jars /\ DOMAIN srv = Jars /\ IsServer(Server(c))
         /\ \A x \in AllSessions \ {Session(c)} : Settled(x)
         /\ DOMAIN state = AllSessions /\ DOMAIN pc = Callers /\ DOMAIN call = Callers
         /\ DOMAIN step = Callers /\ DOMAIN local = Callers
         /\ DOMAIN request = Callers /\ DOMAIN response = Callers
         /\ TokenInv /\ Synchronous(c)
<1>1. /\ Callers = {c} /\ Sessions = {Root} /\ AllSessions = {Root, c} /\ Jars = {Root, c}
      /\ Jar(Root) = Root /\ Jar(c) = c
  BY AloneFacts
<1>2. TokenInv /\ Synchronous(c) /\ Shapes /\ CallerOK(c)
  BY DEF FreshInv, TokenInv, SessionInv
<1>3. Session(c) \in {Root, c} /\ IsState(state[Session(c)])
  BY <1>1, <1>2 DEF CallerOK
<1>4. \A x \in AllSessions \ {Session(c)} : Settled(x)
  BY <1>1, <1>2 DEF TokenInv
<1>5. IsServer(Server(c)) /\ DOMAIN srv = Jars
  BY <1>1, <1>2, <1>3 DEF TokenInv, Server
<1> QED BY <1>1, <1>2, <1>3, <1>4, <1>5 DEF Shapes, TokenInv

(* An operation ends with its session up to date.                          *)
LEMMA ReturnFresh ==
  ASSUME Alone, FreshInv, NEW c \in Callers, pc[c] # "idle", NEW r, Return(c, r),
         srv' = srv, \A x \in AllSessions \ {Session(c)} : state'[x] = state[x],
         state'[Session(c)].token = Server(c).token
  PROVE  TokenInv'
<1> DEFINE t == Session(c)
<1>1. /\ t \in {Root, c} /\ \A x \in AllSessions \ {t} : Settled(x)
      /\ Jar(t) \in Jars /\ DOMAIN srv = Jars /\ IsServer(srv[Jar(t)]) /\ TokenInv
      /\ DOMAIN pc = Callers /\ DOMAIN request = Callers /\ DOMAIN response = Callers
  BY AtWork DEF Server
<1>2. pc'[c] = "idle" /\ DOMAIN request' = Callers /\ DOMAIN response' = Callers
  BY <1>1 DEF Return
<1>3. Synchronous(c)'
  BY <1>2 DEF Synchronous
<1>4. state'[t].token = srv'[Jar(t)].token
  BY DEF Server
<1> HIDE DEF t
<1> QED BY <1>1, <1>2, <1>3, <1>4, TokenFrame DEF t

(* The caller goes on to its next action.                                  *)
LEMMA AdvanceFresh ==
  ASSUME Alone, FreshInv, NEW c \in Callers, pc[c] # "idle", NextAction(c),
         srv' = srv, \A x \in AllSessions \ {Session(c)} : state'[x] = state[x],
         state'[Session(c)].token = Server(c).token,
         step[c] + 1 \in DOMAIN Actions(call[c]),
         \/ Actions(call[c])[step[c] + 1] \in Later
         \/ local'[c].token = Server(c).token
  PROVE  TokenInv'
<1> DEFINE t == Session(c)
<1>1. /\ t \in {Root, c} /\ \A x \in AllSessions \ {t} : Settled(x)
      /\ Jar(t) \in Jars /\ DOMAIN srv = Jars /\ IsServer(srv[Jar(t)]) /\ TokenInv
      /\ DOMAIN pc = Callers /\ DOMAIN request = Callers /\ DOMAIN response = Callers
      /\ DOMAIN step = Callers /\ Synchronous(c)
  BY AtWork DEF Server
<1>2. /\ pc'[c] = "send" /\ DOMAIN request' = Callers /\ DOMAIN response' = Callers
      /\ call' = call /\ step'[c] = step[c] + 1
  BY <1>1 DEF NextAction
<1>3. /\ Session(c)' = t /\ Server(c)' = Server(c)
      /\ Action(c)' = Actions(call[c])[step[c] + 1]
  BY <1>2 DEF Session, Server, Action
<1>4. Known(call[c])
  BY <1>1 DEF Synchronous
<1>5. Synchronous(c)'
  BY <1>2, <1>3, <1>4 DEF Synchronous
<1>6. state'[t].token = srv'[Jar(t)].token
  BY DEF Server
<1> HIDE DEF t
<1> QED BY <1>1, <1>2, <1>5, <1>6, TokenFrame DEF t

(* An attempt that failed: another one with the same body, or the end.     *)
LEMMA AttemptFresh ==
  ASSUME Alone, FreshInv, NEW c \in Callers, pc[c] # "idle", pc[c] # "send",
         NEW e, AttemptFailed(c, e), srv' = srv, state' = state,
         state[Session(c)].token = Server(c).token,
         request[c].action # "GET" => request[c].token = Server(c).token
  PROVE  TokenInv'
<1> DEFINE t == Session(c)
<1>1. /\ t \in {Root, c} /\ \A x \in AllSessions \ {t} : Settled(x)
      /\ Jar(t) \in Jars /\ DOMAIN srv = Jars /\ IsServer(srv[Jar(t)]) /\ TokenInv
      /\ DOMAIN pc = Callers /\ DOMAIN request = Callers /\ DOMAIN response = Callers
      /\ DOMAIN step = Callers /\ Synchronous(c)
  BY AtWork DEF Server
<1>2. CASE Fail(c, e)
  BY <1>2, ReturnFresh DEF Fail
<1>3. CASE /\ pc' = [pc EXCEPT ![c] = "sleeping"]
           /\ response' = [response EXCEPT ![c] = NoResponse]
           /\ UNCHANGED <<call, step, attempt, local, request, xml, result>>
  <2>1. /\ pc'[c] = "sleeping" /\ DOMAIN request' = Callers /\ DOMAIN response' = Callers
        /\ call' = call /\ step' = step /\ request' = request
    BY <1>1, <1>3
  <2>2. Session(c)' = t /\ Server(c)' = Server(c) /\ Action(c)' = Action(c)
    BY <2>1 DEF Session, Server, Action
  <2>3. /\ Known(call[c]) /\ step[c] \in DOMAIN Actions(call[c])
        /\ request[c].action = Action(c)
    BY <1>1 DEF Synchronous
  <2>4. Synchronous(c)'
    BY <2>1, <2>2, <2>3 DEF Synchronous
  <2>5. state'[t].token = srv'[Jar(t)].token
    BY DEF Server
  <2> HIDE DEF t
  <2> QED BY <1>1, <2>1, <2>4, <2>5, TokenFrame DEF t
<1> QED BY <1>2, <1>3 DEF AttemptFailed

-----------------------------------------------------------------------------
(* The actions.  A body is built from a copy that is up to date.           *)
LEMMA SendFresh ==
  ASSUME Alone, FreshInv, NEW c \in Callers, Send(c)
  PROVE  TokenInv'
<1> DEFINE t == Session(c)
<1>1. pc[c] = "send" /\ srv' = srv /\ state' = state
  BY DEF Send
<1>2. /\ t \in {Root, c} /\ \A x \in AllSessions \ {t} : Settled(x)
      /\ Jar(t) \in Jars /\ DOMAIN srv = Jars /\ IsServer(srv[Jar(t)]) /\ TokenInv
      /\ DOMAIN pc = Callers /\ DOMAIN request = Callers /\ DOMAIN response = Callers
      /\ Synchronous(c)
  BY <1>1, AtWork DEF Server
<1>3. /\ state[t].token = Server(c).token
      /\ Known(call[c]) /\ step[c] \in DOMAIN Actions(call[c])
      /\ Action(c) \notin Later \cup {"GET"} => local[c].token = Server(c).token
  BY <1>1, <1>2 DEF Synchronous
<1>4. CASE Buildable(c)
  <2>1. /\ request' = [request EXCEPT ![c] = Body(c)] /\ pc' = [pc EXCEPT ![c] = "sent"]
        /\ call' = call /\ step' = step /\ response' = response
    BY <1>4 DEF Send
  <2>2. /\ pc'[c] = "sent" /\ request'[c] = Body(c)
        /\ DOMAIN request' = Callers /\ DOMAIN response' = Callers
    BY <1>2, <2>1
  <2>3. Session(c)' = t /\ Server(c)' = Server(c) /\ Action(c)' = Action(c)
    BY <1>1, <2>1 DEF Session, Server, Action
  <2>4. /\ Body(c).action = Action(c)
        /\ Action(c) # "GET" => Body(c).token = Source(c).token
    BY DEF Body
  <2>5. Action(c) # "GET" => Source(c).token = Server(c).token
    BY <1>3 DEF Source, Later
  <2>6. Synchronous(c)'
    BY <1>1, <1>3, <2>1, <2>2, <2>3, <2>4, <2>5 DEF Synchronous
  <2>7. state'[t].token = srv'[Jar(t)].token
    BY <1>1, <1>3 DEF Server
  <2> HIDE DEF t
  <2> QED BY <1>1, <1>2, <2>2, <2>6, <2>7, TokenFrame DEF t
<1>5. CASE ~Buildable(c)
  BY <1>1, <1>3, <1>5, ReturnFresh DEF Send, Fail
<1> QED BY <1>4, <1>5

(* An answer carries the token that the server has just issued.            *)
LEMMA ServeFresh ==
  ASSUME Alone, AnswersRead, FreshInv, NEW c \in Callers, Serve(c)
  PROVE  TokenInv'
<1> DEFINE t == Session(c)
<1>1. pc[c] = "sent"
  BY DEF Serve
<1>2. /\ t \in {Root, c} /\ \A x \in AllSessions \ {t} : Settled(x)
      /\ Jar(t) \in Jars /\ DOMAIN srv = Jars /\ IsServer(Server(c)) /\ TokenInv
      /\ DOMAIN pc = Callers /\ DOMAIN request = Callers /\ DOMAIN response = Callers
      /\ Synchronous(c)
  BY <1>1, AtWork
<1>3. Found(c) = {[token |-> TRUE, window |-> TRUE]}
  BY DEF AnswersRead, Found
<1>4. PICK p \in Processed(Server(c), request[c]) :
        /\ ServerNow(c, p)
        /\ \E found \in Found(c) :
             Answered(c, [status |-> 200,
                          token |-> IF found.token THEN p.srv.token ELSE NoToken,
                          window |-> found.window,
                          list |-> p.list, name |-> p.name, course |-> p.course])
  BY DEF Serve
<1>5. PICK answer : /\ answer.status = 200 /\ answer.token = p.srv.token
                    /\ Answered(c, answer)
  BY <1>3, <1>4
<1>6. p.srv.token = Server(c).token + 1 /\ IsServer(p.srv)
  BY <1>2, ProcessedRotates
<1>7. /\ srv'[Jar(t)] = p.srv /\ DOMAIN srv' = Jars
      /\ \A j \in Jars \ {Jar(t)} : srv'[j] = srv[j]
  BY <1>2, <1>4 DEF ServerNow
<1>8. /\ pc'[c] = "answered" /\ response'[c] = answer
      /\ DOMAIN request' = Callers /\ DOMAIN response' = Callers
      /\ state' = state /\ call' = call /\ step' = step /\ request' = request
  BY <1>2, <1>5 DEF Answered
<1>9. Session(c)' = t /\ Server(c)' = p.srv /\ Action(c)' = Action(c)
  BY <1>7, <1>8 DEF Session, Server, Action
<1>10. /\ Known(call[c]) /\ step[c] \in DOMAIN Actions(call[c])
       /\ request[c].action = Action(c)
  BY <1>1, <1>2 DEF Synchronous
<1>11. p.srv.token # NoToken
  BY <1>2, <1>6 DEF IsServer, NoToken
<1>12. AnswerOK(c)'
  BY <1>5, <1>8, <1>9 DEF AnswerOK
<1>13. ~(answer.status >= 400)
  BY <1>5
<1>14. Synchronous(c)'
  BY <1>5, <1>8, <1>9, <1>10, <1>11, <1>12, <1>13 DEF Synchronous
<1> HIDE DEF t
<1> QED BY <1>2, <1>6, <1>7, <1>8, <1>9, <1>14, TokenFrame

LEMMA ServeErrorFresh ==
  ASSUME Alone, FreshInv, NEW c \in Callers, ServeError(c)
  PROVE  TokenInv'
<1> DEFINE t == Session(c)
<1>1. pc[c] = "sent" /\ srv' = srv
  BY DEF ServeError
<1>2. /\ t \in {Root, c} /\ \A x \in AllSessions \ {t} : Settled(x)
      /\ Jar(t) \in Jars /\ DOMAIN srv = Jars /\ IsServer(srv[Jar(t)]) /\ TokenInv
      /\ DOMAIN pc = Callers /\ DOMAIN request = Callers /\ DOMAIN response = Callers
      /\ Synchronous(c)
  BY <1>1, AtWork DEF Server
<1>3. PICK n \in {404, 503} : Answered(c, [NoResponse EXCEPT !.status = n])
  BY DEF ServeError
<1>4. /\ pc'[c] = "answered" /\ response'[c].token = NoToken
      /\ DOMAIN request' = Callers /\ DOMAIN response' = Callers
      /\ state' = state /\ call' = call /\ step' = step /\ request' = request
  BY <1>2, <1>3 DEF Answered, NoResponse
<1>5. Session(c)' = t /\ Server(c)' = Server(c) /\ Action(c)' = Action(c)
  BY <1>1, <1>4 DEF Session, Server, Action
<1>6. /\ Known(call[c]) /\ step[c] \in DOMAIN Actions(call[c])
      /\ request[c].action = Action(c) /\ state[t].token = Server(c).token
  BY <1>1, <1>2 DEF Synchronous
<1>7. Synchronous(c)'
  BY <1>4, <1>5, <1>6 DEF Synchronous, AnswerOK
<1>8. state'[t].token = srv'[Jar(t)].token
  BY <1>1, <1>4, <1>6 DEF Server
<1> HIDE DEF t
<1> QED BY <1>1, <1>2, <1>4, <1>7, <1>8, TokenFrame

LEMMA LoseFresh ==
  ASSUME Alone, AnswersRead, FreshInv, NEW c \in Callers, Lose(c)
  PROVE  TokenInv'
<1>1. pc[c] = "sent" /\ state' = state
  BY DEF Lose
<1>2. Synchronous(c)
  BY DEF FreshInv, TokenInv
<1>3. PICK e \in TransportErrors : srv' = srv /\ AttemptFailed(c, Surfaced(c, e))
  BY DEF Lose, AnswersRead
<1>4. /\ state[Session(c)].token = Server(c).token
      /\ request[c].action # "GET" => request[c].token = Server(c).token
  BY <1>1, <1>2 DEF Synchronous
<1> QED BY <1>1, <1>3, <1>4, AttemptFresh

LEMMA WakeFresh ==
  ASSUME Alone, FreshInv, NEW c \in Callers, Wake(c)
  PROVE  TokenInv'
<1> DEFINE t == Session(c)
<1>1. /\ pc[c] = "sleeping" /\ srv' = srv /\ state' = state
      /\ call' = call /\ step' = step /\ request' = request /\ response' = response
      /\ pc' = [pc EXCEPT ![c] = "sent"]
  BY DEF Wake
<1>2. /\ t \in {Root, c} /\ \A x \in AllSessions \ {t} : Settled(x)
      /\ Jar(t) \in Jars /\ DOMAIN srv = Jars /\ IsServer(srv[Jar(t)]) /\ TokenInv
      /\ DOMAIN pc = Callers /\ DOMAIN request = Callers /\ DOMAIN response = Callers
      /\ Synchronous(c)
  BY <1>1, AtWork DEF Server
<1>3. pc'[c] = "sent"
  BY <1>1, <1>2
<1>4. Session(c)' = t /\ Server(c)' = Server(c) /\ Action(c)' = Action(c)
  BY <1>1 DEF Session, Server, Action
<1>5. /\ Known(call[c]) /\ step[c] \in DOMAIN Actions(call[c])
      /\ request[c].action = Action(c) /\ state[t].token = Server(c).token
      /\ request[c].action # "GET" => request[c].token = Server(c).token
  BY <1>1, <1>2 DEF Synchronous
<1>6. Synchronous(c)'
  BY <1>1, <1>3, <1>4, <1>5 DEF Synchronous
<1>7. state'[t].token = srv'[Jar(t)].token
  BY <1>1, <1>5 DEF Server
<1> HIDE DEF t
<1> QED BY <1>1, <1>2, <1>6, <1>7, TokenFrame

(* The token of an answer is stored; an error page brings none, and then   *)
(* the one of before is still the server's.                                *)
LEMMA ReceivePostFresh ==
  ASSUME Alone, FreshInv, NEW c \in Callers, ReceivePost(c)
  PROVE  TokenInv'
<1> DEFINE t == Session(c)
           new == WithToken(state[t], response[c].token)
<1>1. /\ pc[c] = "answered" /\ srv' = srv /\ pc' = [pc EXCEPT ![c] = "received"]
      /\ state' = [state EXCEPT ![t] = new] /\ request' = request /\ response' = response
      /\ call' = call /\ step' = step
  BY DEF ReceivePost, Received
<1>2. /\ t \in {Root, c} /\ t \in AllSessions /\ \A x \in AllSessions \ {t} : Settled(x)
      /\ Jar(t) \in Jars /\ DOMAIN srv = Jars /\ IsServer(srv[Jar(t)]) /\ TokenInv
      /\ DOMAIN pc = Callers /\ DOMAIN request = Callers /\ DOMAIN response = Callers
      /\ DOMAIN state = AllSessions /\ IsState(state[t]) /\ Synchronous(c)
  BY <1>1, AtWork DEF Server
<1>3. /\ response[c].token \in {NoToken, Server(c).token}
      /\ response[c].token = NoToken => state[t].token = Server(c).token
      /\ Known(call[c]) /\ step[c] \in DOMAIN Actions(call[c])
      /\ request[c].action = Action(c)
  BY <1>1, <1>2 DEF Synchronous, AnswerOK
<1>4. new.token = Server(c).token
  <2>1. DOMAIN state[t] = Fields
    BY <1>2 DEF IsState
  <2> QED BY <1>3, <2>1 DEF WithToken, Fields
<1>5. /\ pc'[c] = "received" /\ state'[t] = new
      /\ \A x \in AllSessions \ {t} : state'[x] = state[x]
  BY <1>1, <1>2
<1> HIDE DEF new
<1>6. Session(c)' = t /\ Server(c)' = Server(c) /\ Action(c)' = Action(c)
  BY <1>1 DEF Session, Server, Action
<1>7. Synchronous(c)'
  BY <1>1, <1>3, <1>4, <1>5, <1>6 DEF Synchronous, AnswerOK
<1>8. state'[t].token = srv'[Jar(t)].token
  BY <1>1, <1>4, <1>5 DEF Server
<1> HIDE DEF t
<1> QED BY <1>1, <1>2, <1>5, <1>7, <1>8, TokenFrame

LEMMA ReceiveGetFresh ==
  ASSUME Alone, FreshInv, NEW c \in Callers, ReceiveGet(c)
  PROVE  TokenInv'
<1> DEFINE t == Session(c)
           st == Initialised(state[t], response[c])
           cl == call[c]
           n == step[c]
           copy == Selecting(st, cl.code, cl.electives)
<1>1. pc[c] = "answered" /\ Action(c) = "GET" /\ srv' = srv
  BY DEF ReceiveGet
<1>2. /\ t \in AllSessions /\ DOMAIN state = AllSessions /\ IsState(state[t])
      /\ DOMAIN local = Callers /\ Synchronous(c)
  BY <1>1, AtWork
<1>3. /\ response[c].token \in {NoToken, Server(c).token}
      /\ response[c].token = NoToken => state[t].token = Server(c).token
      /\ response[c].status >= 400 => response[c].token = NoToken
      /\ Known(cl) /\ n \in DOMAIN Actions(cl) /\ request[c].action = Action(c)
  BY <1>1, <1>2 DEF Synchronous, AnswerOK
<1>4. CASE /\ response[c].status >= 400 /\ state' = state
           /\ AttemptFailed(c, StatusError(response[c].status))
  BY <1>1, <1>3, <1>4, AttemptFresh
<1>5. CASE state' = [state EXCEPT ![t] = st] /\ AfterGet(c, st)
  <2>1. /\ WithToken(state[t], response[c].token).token = Server(c).token
        /\ DOMAIN WithToken(state[t], response[c].token) = Fields
    <3>1. DOMAIN state[t] = Fields
      BY <1>2 DEF IsState
    <3> QED BY <1>3, <3>1 DEF WithToken, Fields
  <2>2. st.token = Server(c).token /\ DOMAIN st = Fields
    BY <2>1 DEF Initialised, Fields
  <2> HIDE DEF st
  <2>3. state'[t] = st /\ \A x \in AllSessions \ {t} : state'[x] = state[x]
    BY <1>2, <1>5
  <2>4. ASSUME NEW r, Return(c, r) PROVE TokenInv'
    BY <1>1, <2>2, <2>3, <2>4, ReturnFresh
  <2>5. CASE /\ cl.name # "init_session" /\ NextAction(c)
             /\ local' = [local EXCEPT ![c] = copy]
    <3>1. copy.token = Server(c).token
      BY <2>2 DEF Selecting, Fields
    <3> HIDE DEF copy
    <3>2. local'[c].token = Server(c).token
      BY <1>2, <2>5, <3>1
    <3>3. n + 1 \in DOMAIN Actions(cl)
      BY <1>1, <1>3, <2>5, ActionsGoOn DEF Action
    <3> QED BY <1>1, <2>2, <2>3, <2>5, <3>2, <3>3, AdvanceFresh
  <2> QED BY <1>5, <2>4, <2>5 DEF AfterGet, Fail
<1> QED BY <1>4, <1>5 DEF ReceiveGet

LEMMA CareerAnswerFresh ==
  ASSUME Alone, FreshInv, NEW c \in Callers, CareerAnswer(c)
  PROVE  TokenInv'
<1> DEFINE t == Session(c)
           new == Published(c)
           cl == call[c]
           n == step[c]
           a == Action(c)
<1>1. pc[c] = "received" /\ Navigating(c)
  BY DEF CareerAnswer
<1>2. /\ t \in {Root, c} /\ t \in AllSessions /\ \A x \in AllSessions \ {t} : Settled(x)
      /\ Jar(t) \in Jars /\ DOMAIN srv = Jars /\ IsServer(srv[Jar(t)]) /\ TokenInv
      /\ DOMAIN pc = Callers /\ DOMAIN request = Callers /\ DOMAIN response = Callers
      /\ DOMAIN state = AllSessions /\ IsState(state[t]) /\ Synchronous(c)
      /\ DOMAIN local = Callers
  BY <1>1, AtWork DEF Server
<1>3. /\ response[c].token \in {NoToken, Server(c).token}
      /\ state[t].token = Server(c).token
      /\ Known(cl) /\ n \in DOMAIN Actions(cl) /\ request[c].action = a
  BY <1>1, <1>2 DEF Synchronous, AnswerOK
<1>4. ASSUME NEW e, FailReceived(c, e) PROVE TokenInv'
  BY <1>1, <1>3, <1>4, ReturnFresh DEF FailReceived, Fail
<1>5. CASE Publish(c)
  <2>1. /\ WithToken(state[t], response[c].token).token = Server(c).token
        /\ DOMAIN WithToken(state[t], response[c].token) = Fields
    <3>1. DOMAIN state[t] = Fields
      BY <1>2 DEF IsState
    <3> QED BY <1>3, <3>1 DEF WithToken, Fields
  <2>2. new.token = Server(c).token
    BY <2>1 DEF Published, Fields
  <2>3. /\ srv' = srv /\ state' = [state EXCEPT ![t] = new] /\ local' = [local EXCEPT ![c] = new]
    BY <1>5 DEF Publish
  <2> HIDE DEF new
  <2>4. /\ state'[t] = new /\ local'[c] = new
        /\ \A x \in AllSessions \ {t} : state'[x] = state[x]
    BY <1>2, <2>3
  <2>5. CASE a = "SHOW_COURSES_BTTN"
    <3>1. /\ pc' = [pc EXCEPT ![c] = "navigated"]
          /\ call' = call /\ step' = step /\ request' = request /\ response' = response
      BY <1>5, <2>5 DEF Publish
    <3>2. pc'[c] = "navigated"
      BY <1>2, <3>1
    <3>3. Session(c)' = t /\ Server(c)' = Server(c) /\ Action(c)' = a
      BY <2>3, <3>1 DEF Session, Server, Action
    <3>4. Synchronous(c)'
      BY <1>3, <2>2, <2>4, <2>5, <3>1, <3>2, <3>3 DEF Synchronous, AnswerOK
    <3>5. state'[t].token = srv'[Jar(t)].token
      BY <2>2, <2>3, <2>4 DEF Server
    <3> HIDE DEF t
    <3> QED BY <1>2, <2>3, <2>4, <3>1, <3>4, <3>5, TokenFrame
  <2>6. CASE a # "SHOW_COURSES_BTTN"
    <3>1. NextAction(c)
      BY <1>5, <2>6 DEF Publish
    <3>2. a = Actions(cl)[n]
      BY DEF Action
    <3>3. a \in {"GET"} \cup Navigation \cup CourseNames
      BY <1>3, <3>2, ActionsGoOn
    <3>4. a \in Filters
      BY <1>1, <2>6, <3>3 DEF Navigating, Navigation, CourseNames, Later
    <3>5. n + 1 \in DOMAIN Actions(cl)
      BY <1>3, <3>2, <3>4, ActionsGoOn
    <3> QED BY <1>1, <2>2, <2>3, <2>4, <3>1, <3>5, AdvanceFresh
  <2> QED BY <2>5, <2>6
<1> QED BY <1>4, <1>5 DEF CareerAnswer

LEMMA ShowCoursesFresh ==
  ASSUME Alone, FreshInv, NEW c \in Callers, ShowCourses(c)
  PROVE  TokenInv'
<1> DEFINE t == Session(c)
           new == Listed(c)
           cl == call[c]
           n == step[c]
<1>1. pc[c] = "navigated" /\ srv' = srv /\ state' = [state EXCEPT ![t] = new]
  BY DEF ShowCourses
<1>2. /\ t \in AllSessions /\ DOMAIN state = AllSessions /\ IsState(state[t])
      /\ DOMAIN local = Callers /\ Synchronous(c)
  BY <1>1, AtWork
<1>3. /\ state[t].token = Server(c).token /\ Action(c) = "SHOW_COURSES_BTTN"
      /\ Known(cl) /\ n \in DOMAIN Actions(cl)
  BY <1>1, <1>2 DEF Synchronous
<1>4. new.token = Server(c).token
  BY <1>2, <1>3 DEF Listed, IsState, Fields
<1> HIDE DEF new
<1>5. state'[t] = new /\ \A x \in AllSessions \ {t} : state'[x] = state[x]
  BY <1>1, <1>2
<1>6. ASSUME NEW r, Return(c, r) PROVE TokenInv'
  BY <1>1, <1>4, <1>5, <1>6, ReturnFresh
<1>7. CASE cl.name # "set_career" /\ NextAction(c) /\ local' = [local EXCEPT ![c] = new]
  <2>1. local'[c].token = Server(c).token
    BY <1>2, <1>4, <1>7
  <2>2. n + 1 \in DOMAIN Actions(cl)
    BY <1>3, <1>7, ActionsGoOn DEF Action
  <2> QED BY <1>1, <1>4, <1>5, <1>7, <2>1, <2>2, AdvanceFresh
<1> QED BY <1>6, <1>7 DEF ShowCourses, new

LEMMA CourseStepsFresh ==
  ASSUME Alone, FreshInv, NEW c \in Callers, RowSelected(c) \/ CourseOpened(c) \/ WentBack(c)
  PROVE  TokenInv'
<1> DEFINE t == Session(c)
           cl == call[c]
           n == step[c]
<1>1. pc[c] = "received" /\ srv' = srv
  BY DEF RowSelected, CourseOpened, WentBack
<1>2. /\ t \in AllSessions /\ DOMAIN state = AllSessions /\ IsState(state[t])
      /\ Synchronous(c)
  BY <1>1, AtWork
<1>3. state[t].token = Server(c).token /\ Known(cl) /\ n \in DOMAIN Actions(cl)
  BY <1>1, <1>2 DEF Synchronous
<1>4. CASE NextAction(c) /\ state' = state /\ Action(c) \in {"SELECT_ROW", "COURSE_PAGE_LINK"}
  <2>1. /\ n + 1 \in DOMAIN Actions(cl)
        /\ Actions(cl)[n + 1] \in {"COURSE_PAGE_LINK", "BACK_BTTN"}
    BY <1>3, <1>4, ActionsGoOn DEF Action
  <2> QED BY <1>1, <1>3, <1>4, <2>1, AdvanceFresh DEF Later
<1>5. ASSUME NEW e, Fail(c, e), state' = state PROVE TokenInv'
  BY <1>1, <1>3, <1>5, ReturnFresh DEF Fail
<1>6. CASE WentBack(c)
  <2> DEFINE new == [state[t] EXCEPT !.status = "ON_CAREER_PAGE"]
  <2>1. state' = [state EXCEPT ![t] = new]
    BY <1>6 DEF WentBack
  <2>2. new.token = Server(c).token
    BY <1>2, <1>3 DEF IsState, Fields
  <2> HIDE DEF new
  <2>3. state'[t] = new /\ \A x \in AllSessions \ {t} : state'[x] = state[x]
    BY <1>2, <2>1
  <2>4. \A r : Return(c, r) => TokenInv'
    BY <1>1, <2>2, <2>3, ReturnFresh
  <2> QED BY <1>6, <2>4 DEF WentBack, Fail
<1> QED BY <1>4, <1>5, <1>6 DEF RowSelected, CourseOpened

-----------------------------------------------------------------------------
(* An operation begins with a copy that is up to date; t is the session it *)
(* works on, which may have been made just now.                            *)
LEMMA BeginFresh ==
  ASSUME Alone, FreshInv, NEW c \in Callers, pc[c] = "idle", NEW cl, NEW copy, Begin(c, cl, copy),
         DOMAIN cl = CallFields, Known(cl), NEW t \in {Root, c}, t = cl.session,
         DOMAIN srv' = Jars, \A j \in Jars \ {Jar(t)} : srv'[j] = srv[j], IsServer(srv'[Jar(t)]),
         \A x \in AllSessions \ {t} : state'[x] = state[x],
         state'[t].token = srv'[Jar(t)].token, copy.token = srv'[Jar(t)].token
  PROVE  TokenInv'
<1> DEFINE begun == [cl EXCEPT !.from = srv[Jar(cl.session)].page]
<1>1. /\ Callers = {c} /\ TokenInv /\ Shapes /\ step[c] = 1
      /\ DOMAIN request = Callers /\ DOMAIN response = Callers
  BY AloneFacts DEF FreshInv, TokenInv, SessionInv, CallerOK
<1>2. \A x \in AllSessions : Settled(x)
  BY <1>1 DEF TokenInv
<1>3. /\ call' = [call EXCEPT ![c] = begun] /\ pc' = [pc EXCEPT ![c] = "send"]
      /\ local' = [local EXCEPT ![c] = copy] /\ step' = step
      /\ request' = request /\ response' = response
  BY DEF Begin
<1>4. begun.session = t /\ begun.name = cl.name
  BY DEF CallFields, NoCall
<1> HIDE DEF begun
<1>5. /\ pc'[c] = "send" /\ call'[c] = begun /\ local'[c] = copy /\ step'[c] = 1
      /\ Session(c)' = t
  BY <1>1, <1>3, <1>4 DEF Shapes, Session
<1>6. Server(c)' = srv'[Jar(t)]
  BY <1>5 DEF Server
<1>7. Known(begun)
  BY <1>4 DEF Known
<1>8. 1 \in DOMAIN Actions(begun)
  BY <1>7, ActionsBegin
<1>9. Synchronous(c)'
  BY <1>5, <1>6, <1>7, <1>8 DEF Synchronous
<1> QED BY <1>1, <1>2, <1>3, <1>9, TokenFrame

LEMMA RefuseFresh ==
  ASSUME Alone, FreshInv, NEW c \in Callers, pc[c] = "idle", NEW cl, Refuse(c, cl),
         srv' = srv, state' = state
  PROVE  TokenInv'
<1>1. /\ Callers = {c} /\ TokenInv /\ Shapes /\ Root \in AllSessions /\ Jar(Root) \in Jars
      /\ DOMAIN request = Callers /\ DOMAIN response = Callers
      /\ DOMAIN srv = Jars /\ IsServer(srv[Jar(Root)])
  BY AloneFacts DEF FreshInv, TokenInv, SessionInv
<1>2. \A x \in AllSessions : Settled(x)
  BY <1>1 DEF TokenInv
<1>3. pc'[c] = "idle" /\ DOMAIN request' = Callers /\ DOMAIN response' = Callers
  BY <1>1 DEF Refuse, Return, Shapes
<1>4. Synchronous(c)'
  BY <1>3 DEF Synchronous
<1>5. state'[Root] = NoSession \/ state'[Root].token = srv'[Jar(Root)].token
  BY <1>1, <1>2 DEF Settled
<1> QED BY <1>1, <1>2, <1>3, <1>4, <1>5, TokenFrame

(* A call on the session of old.                                           *)
LEMMA RootCallFresh ==
  ASSUME Alone, FreshInv, NEW c \in Callers, pc[c] = "idle", state[Root] # NoSession,
         NEW cl, NEW copy, Begin(c, cl, copy) \/ Refuse(c, cl),
         DOMAIN cl = CallFields, Known(cl), cl.session = Root,
         copy.token = state[Root].token, srv' = srv, state' = state
  PROVE  TokenInv'
<1>1. /\ Callers = {c} /\ TokenInv /\ Root \in AllSessions /\ Jar(Root) \in Jars
      /\ DOMAIN srv = Jars /\ IsServer(srv[Jar(Root)])
  BY AloneFacts DEF FreshInv, TokenInv
<1>2. state[Root].token = srv[Jar(Root)].token
  BY <1>1 DEF TokenInv, Settled
<1>3. CASE Begin(c, cl, copy)
  BY <1>1, <1>2, <1>3, BeginFresh
<1>4. CASE Refuse(c, cl)
  BY <1>4, RefuseFresh
<1> QED BY <1>3, <1>4

LEMMA RootCallsFresh ==
  ASSUME Alone, FreshInv, NEW c \in Callers,
         \/ InitSession(c, Root)
         \/ \E career \in Careers : SetCareer(c, Root, career[1], career[2])
         \/ \E index \in CourseIndices : ScrapeCourse(c, index)
  PROVE  TokenInv'
<1> DEFINE st == state[Root]
<1>1. pc[c] = "idle" /\ st # NoSession /\ srv' = srv /\ state' = state
  BY DEF InitSession, SetCareer, ScrapeCourse, Scrape, Ready
<1>2. IsState(st)
  <2>1. Root \in AllSessions
    BY SessionAssumption DEF AllSessions
  <2> QED BY <1>1, <2>1 DEF FreshInv, SessionInv, StatesOK
<1>3. CASE InitSession(c, Root)
  <2> DEFINE cl == [NoCall EXCEPT !.name = "init_session", !.session = Root]
  <2>1. Begin(c, cl, st)
    BY <1>3 DEF InitSession
  <2>2. DOMAIN cl = CallFields /\ cl.session = Root /\ Known(cl)
    BY DEF CallFields, NoCall, Known
  <2> HIDE DEF cl
  <2> QED BY <1>1, <2>1, <2>2, RootCallFresh
<1>4. ASSUME NEW career \in Careers, SetCareer(c, Root, career[1], career[2]) PROVE TokenInv'
  <2> DEFINE cl   == [NoCall EXCEPT !.name = "set_career", !.session = Root,
                                    !.code = career[1], !.electives = career[2]]
             copy == Selecting(st, career[1], career[2])
  <2>1. Begin(c, cl, copy) \/ Refuse(c, cl)
    BY <1>4 DEF SetCareer
  <2>2. DOMAIN cl = CallFields /\ cl.session = Root /\ Known(cl)
    BY DEF CallFields, NoCall, Known
  <2>3. copy.token = st.token
    BY <1>2, SelectingKeeps
  <2> HIDE DEF cl, copy
  <2> QED BY <1>1, <2>1, <2>2, <2>3, RootCallFresh
<1>5. ASSUME NEW index \in CourseIndices, ScrapeCourse(c, index) PROVE TokenInv'
  <2> DEFINE cl   == [NoCall EXCEPT !.name = "scrape", !.session = Root, !.code = st.career_code,
                                    !.electives = st.is_electives, !.index = index]
             copy == Selecting(st, st.career_code, st.is_electives)
  <2>1. Begin(c, cl, copy) \/ Refuse(c, cl)
    BY <1>5 DEF ScrapeCourse, Scrape
  <2>2. DOMAIN cl = CallFields /\ cl.session = Root /\ Known(cl)
    BY DEF CallFields, NoCall, Known
  <2>3. copy.token = st.token
    BY <1>2, SelectingKeeps
  <2> HIDE DEF cl, copy
  <2> QED BY <1>1, <2>1, <2>2, <2>3, RootCallFresh
<1> QED BY <1>3, <1>4, <1>5

(* A one-shot call has a session and a server of its own, neither of which *)
(* has a token yet.                                                        *)
LEMMA OneShotFresh ==
  ASSUME Alone, FreshInv, NEW c \in Callers, NEW name, NEW career, NEW index,
         OneShot(c, name, career, index),
         name \in {"init_session", "set_career", "course_xml"}
  PROVE  TokenInv'
<1> DEFINE cl == [[NoCall EXCEPT !.name = name, !.session = c, !.index = index]
                    EXCEPT !.code = career[1], !.electives = career[2]]
<1>1. /\ pc[c] = "idle" /\ Begin(c, cl, DefaultState)
      /\ state' = [state EXCEPT ![c] = DefaultState]
      /\ srv' = [srv EXCEPT ![c] = InitialServer]
  BY DEF OneShot
<1>2. DOMAIN cl = CallFields /\ cl.session = c /\ Known(cl)
  BY DEF CallFields, NoCall, Known
<1> HIDE DEF cl
<1>3. /\ Callers = {c} /\ AllSessions = {Root, c} /\ Jars = {Root, c} /\ Jar(c) = c /\ c # Root
  BY AloneFacts
<1>4. DOMAIN srv = Jars /\ DOMAIN state = AllSessions
  BY DEF FreshInv, TokenInv, SessionInv, Shapes
<1>5. /\ DOMAIN srv' = Jars /\ srv'[c] = InitialServer
      /\ \A j \in Jars \ {c} : srv'[j] = srv[j]
      /\ state'[c] = DefaultState /\ \A x \in AllSessions \ {c} : state'[x] = state[x]
  BY <1>1, <1>3, <1>4
<1>6. /\ DefaultState.token = NoToken /\ InitialServer.token = NoToken
      /\ IsServer(InitialServer)
  BY DEF DefaultState, InitialServer, IsServer, ServerFields, NoToken
<1> QED BY <1>1, <1>2, <1>3, <1>5, <1>6, BeginFresh

LEMMA StartFresh ==
  ASSUME Alone, FreshInv, NEW c \in Callers, Start(c)
  PROVE  TokenInv'
<1>1. Sessions \ {Root} = {}
  BY DEF Alone
<1>2. CASE InitSiaSession(c)
  BY <1>2, OneShotFresh DEF InitSiaSession
<1>3. ASSUME NEW career \in Careers, SetCareerOnce(c, career) PROVE TokenInv'
  BY <1>3, OneShotFresh DEF SetCareerOnce
<1>4. ASSUME NEW career \in Careers, NEW index, GetCourseXml(c, career, index) PROVE TokenInv'
  BY <1>4, OneShotFresh DEF GetCourseXml
<1> QED BY <1>1, <1>2, <1>3, <1>4, RootCallsFresh DEF Start

-----------------------------------------------------------------------------
LEMMA InitFresh ==
  ASSUME Alone, Init
  PROVE  FreshInv
<1>1. /\ DOMAIN srv = Jars /\ \A j \in Jars : srv[j] = InitialServer
      /\ DOMAIN request = Callers /\ DOMAIN response = Callers
      /\ \A c \in Callers : pc[c] = "idle"
      /\ \A s \in AllSessions : state[s] # NoSession => state[s] = DefaultState
  BY DEF Init
<1>2. IsServer(InitialServer) /\ InitialServer.token = DefaultState.token
  BY DEF InitialServer, DefaultState, IsServer, ServerFields, NoToken
<1>3. \A s \in AllSessions : Jar(s) \in Jars
  BY AloneFacts DEF Alone
<1>4. \A s \in AllSessions : Settled(s)
  BY <1>1, <1>2, <1>3 DEF Settled
<1>5. \A c \in Callers : Synchronous(c)
  BY <1>1 DEF Synchronous
<1> QED BY <1>1, <1>2, <1>4, <1>5, InitOK DEF FreshInv, TokenInv

LEMMA IdleFresh ==
  ASSUME TokenInv, UNCHANGED vars
  PROVE  TokenInv'
<1>1. /\ srv' = srv /\ state' = state /\ pc' = pc /\ call' = call /\ step' = step
      /\ local' = local /\ request' = request /\ response' = response
  BY DEF vars
<1>2. \A c \in Callers :
        Session(c)' = Session(c) /\ Action(c)' = Action(c) /\ Server(c)' = Server(c)
  BY <1>1 DEF Session, Action, Server
<1>3. \A c \in Callers : Synchronous(c)'
  BY <1>1, <1>2 DEF TokenInv, Synchronous, AnswerOK
<1>4. \A s \in AllSessions : Settled(s) => Settled(s)'
  BY <1>1 DEF Settled
<1> QED BY <1>1, <1>2, <1>3, <1>4 DEF TokenInv

LEMMA NextFresh ==
  ASSUME Alone, AnswersRead, FreshInv, Next
  PROVE  TokenInv'
<1>1. ASSUME NEW c \in Callers, Cancel(c) PROVE TokenInv'
  BY <1>1 DEF Cancel, AnswersRead
<1>2. ASSUME NEW c \in Callers, Progress(c) PROVE TokenInv'
  BY <1>2, SendFresh, ServeFresh, ServeErrorFresh, LoseFresh, WakeFresh, ReceivePostFresh,
     ReceiveGetFresh, CareerAnswerFresh, ShowCoursesFresh, CourseStepsFresh DEF Progress
<1>3. CASE Rest
  <2>1. UNCHANGED vars
    BY <1>3 DEF Rest
  <2> QED BY <2>1, IdleFresh DEF FreshInv
<1> QED BY <1>1, <1>2, <1>3, StartFresh DEF Next

(* Every POST of a session alone with its cookies carries the token of the *)
(* page the server shows, through any number of calls, lost requests and   *)
(* error pages.  With lost answers it does not: see stale_token_after_loss.*)
THEOREM FreshTokens ==
  ASSUME Alone, AnswersRead
  PROVE  Spec => []FreshRequests
<1>1. Init => FreshInv
  BY InitFresh
<1>2. FreshInv /\ [Next]_vars => FreshInv'
  BY NextFresh, IdleFresh, NextKeeps, IdleKeeps DEF FreshInv, Kept
<1>3. FreshInv => FreshRequests
  BY DEF FreshInv, TokenInv, Synchronous, FreshRequests
<1> QED BY <1>1, <1>2, <1>3, PTL DEF Spec

-----------------------------------------------------------------------------
(* The page that an operation leaves behind, step by step, when it began   *)
(* on the search page.  An answer is good when it is not an error page.    *)
Before == {"send", "sent", "sleeping"}
After  == {"answered", "received", "navigated"}

Good(c)  == pc[c] \in After /\ response[c].status = 200
Place(c) == step[c] - Len(Opening(call[c]))

Applied(sv, cl, n) == sv.code = cl.code /\ sv.electives = cl.electives /\ sv.depth = n

Remembers(st, cl) ==
  st.career_code = cl.code /\ st.is_electives = cl.electives /\ st.career_name \in Names(cl.code)

Wanted(cl, list) ==
  IF 0 <= cl.index /\ cl.index < list.len
    THEN [career |-> cl.code, index |-> cl.index] ELSE NoCourse

(* What is asked for, and what an answer is.                               *)
Asking(c) ==
  LET cl == call[c]
  IN  /\ result[c].kind # "ok" /\ cl.index \in Int
      /\ Action(c) # "GET" => cl.code \in FourParts
      /\ pc[c] # "send" =>
           /\ request[c].code = cl.code /\ request[c].electives = cl.electives
           /\ request[c].index = cl.index
      /\ pc[c] \in After => response[c].status \in {200, 404, 503}

OnSearchPage(c) ==
  \/ Action(c) \in Navigation \cup {"SELECT_ROW"}
  \/ Action(c) = "COURSE_PAGE_LINK" /\ pc[c] \in Before
  \/ Action(c) = "GET" /\ Good(c)
  => Server(c).page = "search"

(* The filters are applied one after the other, up to the list.            *)
InOrder(c) ==
  LET cl == call[c]
  IN  Action(c) \in Navigation =>
        /\ pc[c] \in Before /\ Place(c) # 1 => Applied(Server(c), cl, Place(c) - 1)
        /\ Good(c) => Applied(Server(c), cl, Place(c))
        /\ Good(c) /\ Action(c) = "SHOW_COURSES_BTTN" =>
             response[c].list \in Lists(cl.code) /\ Server(c).list = response[c].list
        /\ Good(c) /\ Action(c) = "FACULTY_DD" => response[c].name \in Names(cl.code)
        /\ Place(c) > 3 => local[c].career_name \in Names(cl.code)
        /\ pc[c] = "navigated" => Good(c) /\ Remembers(state[Session(c)], cl)

(* The course is opened in the list that the session shows.                *)
AtCourse(c) ==
  LET cl == call[c]
      st == state[Session(c)]
  IN  Action(c) \in CourseNames =>
        /\ Remembers(st, cl) /\ st.status = "ON_CAREER_PAGE" /\ st.course_list \in Lists(cl.code)
        /\ \/ Action(c) = "SELECT_ROW"
           \/ Action(c) = "COURSE_PAGE_LINK" /\ pc[c] \in Before
           => Server(c).list = st.course_list
        /\ Action(c) = "COURSE_PAGE_LINK" /\ Good(c) =>
             response[c].course = Wanted(cl, st.course_list)
        /\ Action(c) = "BACK_BTTN" => xml[c] = Wanted(cl, st.course_list)

(* What the two properties say of a caller.                                *)
RightCourse(c) ==
  LET cl == result[c].call
  IN  Succeeded(c, {"scrape", "course_xml"}) /\ cl.from = "search" =>
        \/ result[c].course = [career |-> cl.code, index |-> cl.index]
        \/ /\ cl.name = "course_xml" /\ result[c].course = NoCourse
           /\ cl.index \notin 0..(state[cl.session].course_list.len - 1)

Coherent(c) ==
  LET cl == result[c].call
      st == state[cl.session]
  IN  Succeeded(c, {"set_career", "scrape", "course_xml"}) /\ cl.from = "search" =>
        /\ st.status = "ON_CAREER_PAGE" /\ Remembers(st, cl)
        /\ st.course_list.career = cl.code

Delivered(c) == RightCourse(c) /\ Coherent(c)

Navigated(c) ==
  /\ pc[c] = "idle" => Delivered(c)
  /\ pc[c] # "idle" => Asking(c)
  /\ pc[c] # "idle" /\ call[c].from = "search" => OnSearchPage(c) /\ InOrder(c) /\ AtCourse(c)

CourseInv ==
  /\ DOMAIN result = Callers /\ DOMAIN xml = Callers
  /\ \A c \in Callers : Navigated(c)

-----------------------------------------------------------------------------
LEMMA ActionNames ==
  /\ "GET" \notin Navigation \cup CourseNames /\ Navigation \cap CourseNames = {}
  /\ Navigation = Filters \cup {"SHOW_COURSES_BTTN"} /\ "SHOW_COURSES_BTTN" \notin Filters
  /\ CourseNames = {"SELECT_ROW", "COURSE_PAGE_LINK", "BACK_BTTN"}
  /\ {"STUDY_LEVEL_DD", "FACULTY_DD"} \subseteq Filters
BY DEF Navigation, Filters, CourseNames, Later

(* The server applies the next filter, and shows the list after the last.  *)
LEMMA ServerSelects ==
  ASSUME NEW sv, IsServer(sv), NEW req, NEW cl, Current(sv, req), req.action \in Navigation,
         req.code = cl.code, req.electives = cl.electives,
         NEW k \in 1..Len(CareerActions(cl.electives)),
         CareerActions(cl.electives)[k] = req.action,
         k # 1 => Applied(sv, cl, k - 1), NEW p \in Processed(sv, req)
  PROVE  /\ p.srv.page = sv.page /\ Applied(p.srv, cl, k)
         /\ req.action = "FACULTY_DD" => p.name \in Names(cl.code)
         /\ req.action = "SHOW_COURSES_BTTN" =>
              p.list \in Lists(cl.code) /\ p.srv.list = p.list
<1> DEFINE A == CareerActions(cl.electives)
<1>1. /\ Len(A) \in Nat /\ Len(A) > 3
      /\ \A i \in 1..Len(A) : A[i] = "STUDY_LEVEL_DD" <=> i = 1
  BY CareerPlaces
<1>2. A[k] = req.action /\ k \in 1..Len(A) /\ A = CareerActions(req.electives)
  OBVIOUS
<1>3. NextInSequence(sv, req)
  <2>1. CASE k = 1
    BY <1>2, <2>1 DEF NextInSequence
  <2>2. CASE k # 1
    <3>1. sv.code = req.code /\ sv.electives = req.electives /\ sv.depth = k - 1
      BY <2>2 DEF Applied
    <3> HIDE DEF A
    <3>2. sv.depth < Len(A) /\ sv.depth + 1 = k
      BY <1>1, <1>2, <3>1
    <3> QED BY <1>2, <3>1, <3>2 DEF NextInSequence
  <2> QED BY <2>1, <2>2
<1>4. req.action = "STUDY_LEVEL_DD" <=> k = 1
  BY <1>1, <1>2
<1> HIDE DEF A
<1>5. Filtered(sv, req) = [Rotated(sv) EXCEPT !.code = req.code, !.electives = req.electives,
                             !.depth = IF req.action = "STUDY_LEVEL_DD" THEN 1 ELSE @ + 1]
  BY <1>3 DEF Filtered
<1>6. /\ DOMAIN Rotated(sv) = ServerFields /\ Rotated(sv).page = sv.page
      /\ Rotated(sv).depth = sv.depth
  BY DEF Rotated, IsServer, ServerFields
<1>7. (IF req.action = "STUDY_LEVEL_DD" THEN 1 ELSE sv.depth + 1) = k
  BY <1>1, <1>2, <1>4 DEF Applied
<1>8. /\ DOMAIN Filtered(sv, req) = ServerFields /\ Filtered(sv, req).page = sv.page
      /\ Applied(Filtered(sv, req), cl, k)
  BY <1>5, <1>6, <1>7 DEF Applied, ServerFields
<1>9. PICK l \in ListsAfter(sv, req), n \in NamesAfter(sv, req) :
        p = [srv |-> [Filtered(sv, req) EXCEPT !.list = l], list |-> l, name |-> n,
             course |-> NoCourse]
  BY ActionNames DEF Processed
<1>10. /\ p.srv.page = sv.page /\ Applied(p.srv, cl, k) /\ p.list = l /\ p.srv.list = l
       /\ p.name = n
  BY <1>8, <1>9 DEF Applied, ServerFields
<1>11. req.action = "SHOW_COURSES_BTTN" => l \in Lists(cl.code)
  BY <1>3 DEF ListsAfter
<1>12. req.action = "FACULTY_DD" => n \in Names(cl.code)
  BY <1>3 DEF NamesAfter
<1> QED BY <1>10, <1>11, <1>12

(* It opens the course of the row of its list.                             *)
LEMMA ServerVisits ==
  ASSUME NEW sv, IsServer(sv), NEW req, NEW cl, Current(sv, req),
         req.index = cl.index, NEW p \in Processed(sv, req)
  PROVE  /\ req.action = "SELECT_ROW" => p.srv.page = sv.page /\ p.srv.list = sv.list
         /\ req.action = "COURSE_PAGE_LINK" /\ sv.list \in Lists(cl.code) =>
              p.course = Wanted(cl, sv.list)
<1>1. CASE req.action = "SELECT_ROW"
  BY <1>1 DEF Processed, Rotated, IsServer, ServerFields
<1>2. CASE req.action = "COURSE_PAGE_LINK" /\ sv.list \in Lists(cl.code)
  <2>1. p.course = OpenedCourse(sv, req)
    BY <1>2 DEF Processed
  <2>2. sv.list.career = cl.code
    BY <1>2 DEF Lists
  <2> QED BY <1>2, <2>1, <2>2 DEF OpenedCourse, Wanted
<1> QED BY <1>1, <1>2

LEMMA ServerOpens ==
  ASSUME NEW sv, NEW req, req.action = "GET", NEW p \in Processed(sv, req)
  PROVE  p.srv.page = "search"
BY DEF Processed, InitialServer

-----------------------------------------------------------------------------
(* There is but one caller.                                                *)
LEMMA OnlyCaller ==
  ASSUME Alone, NEW c \in Callers, DOMAIN result' = Callers, DOMAIN xml' = Callers,
         Navigated(c)'
  PROVE  CourseInv'
BY AloneFacts DEF CourseInv

(* What the action of a caller at work is, and what follows it.            *)
LEMMA Where ==
  ASSUME Alone, FreshInv, NEW c \in Callers, pc[c] # "idle"
  PROVE  LET cl == call[c]
             a  == Action(c)
             b  == Actions(cl)[step[c] + 1]
             A  == CareerActions(cl.electives)
             k  == Place(c)
         IN  /\ step[c] \in Nat /\ Len(Opening(cl)) \in Nat
             /\ a \in {"GET"} \cup Navigation \cup CourseNames
             /\ Len(A) \in Nat /\ Len(A) > 3
             /\ a \in Navigation =>
                  /\ k \in 1..Len(A) /\ A[k] = a
                  /\ a = "FACULTY_DD" <=> k = 3
             /\ a \in Filters => b \in Navigation
             /\ a = "GET" /\ cl.name # "init_session" => b = "STUDY_LEVEL_DD" /\ k = 0
             /\ a = "SHOW_COURSES_BTTN" /\ cl.name # "set_career" => b = "SELECT_ROW"
             /\ a = "SELECT_ROW" => b = "COURSE_PAGE_LINK"
             /\ a = "COURSE_PAGE_LINK" => b = "BACK_BTTN"
<1> DEFINE cl == call[c]
           n  == step[c]
           a  == Action(c)
           b  == Actions(cl)[n + 1]
           A  == CareerActions(cl.electives)
           k  == Place(c)
<1>1. Known(cl) /\ n \in DOMAIN Actions(cl)
  BY AtWork DEF Synchronous
<1>2. a = Actions(cl)[n] /\ k = n - Len(Opening(cl))
  BY DEF Action, Place
<1>3. Len(Opening(cl)) \in Nat
  BY <1>1, ActionPlaces
<1>4. /\ n \in Nat /\ a \in {"GET"} \cup Navigation \cup CourseNames
      /\ a \in Navigation => k \in 1..Len(A) /\ A[k] = a
      /\ a \in Filters => b \in Navigation
      /\ a = "GET" /\ cl.name # "init_session" => b = "STUDY_LEVEL_DD" /\ k = 0
      /\ a = "SHOW_COURSES_BTTN" /\ cl.name # "set_career" => b = "SELECT_ROW"
      /\ a = "SELECT_ROW" => b = "COURSE_PAGE_LINK"
      /\ a = "COURSE_PAGE_LINK" => b = "BACK_BTTN"
  BY <1>1, <1>2, ActionsGoOn
<1>5. /\ Len(A) \in Nat /\ Len(A) > 3
      /\ \A i \in 1..Len(A) : A[i] = "FACULTY_DD" <=> i = 3
  BY CareerPlaces
<1> HIDE DEF cl, n, a, b, A, k
<1>6. a \in Navigation => (a = "FACULTY_DD" <=> k = 3)
  BY <1>4, <1>5
<1> QED BY <1>3, <1>4, <1>5, <1>6 DEF cl, n, a, b, A, k

(* What is known of a caller at work.                                      *)
LEMMA Working ==
  ASSUME Alone, FreshInv, CourseInv, NEW c \in Callers, pc[c] # "idle"
  PROVE  /\ Asking(c)
         /\ call[c].from = "search" => OnSearchPage(c) /\ InOrder(c) /\ AtCourse(c)
         /\ DOMAIN result = Callers /\ DOMAIN xml = Callers
         /\ DOMAIN pc = Callers /\ DOMAIN step = Callers /\ DOMAIN call = Callers
         /\ DOMAIN local = Callers /\ DOMAIN request = Callers /\ DOMAIN response = Callers
         /\ DOMAIN state = AllSessions /\ Session(c) \in AllSessions
         /\ IsState(state[Session(c)]) /\ Known(call[c])
         /\ DOMAIN srv = Jars /\ Jar(Session(c)) \in Jars /\ IsServer(Server(c))
         /\ pc[c] \notin {"idle", "send"} => request[c].action = Action(c)
         /\ pc[c] = "navigated" => Action(c) = "SHOW_COURSES_BTTN"
         /\ pc[c] \in {"sent", "sleeping"} /\ request[c].action # "GET" =>
              request[c].token = Server(c).token
<1>1. Navigated(c) /\ DOMAIN result = Callers /\ DOMAIN xml = Callers
  BY DEF CourseInv
<1>2. Synchronous(c)
  BY AtWork
<1> QED BY <1>1, <1>2, AtWork DEF Navigated, Synchronous

LEMMA Ended ==
  ASSUME Alone, FreshInv, CourseInv, NEW c \in Callers, NEW r, Return(c, r),
         r.kind = "ok" => Delivered(c)'
  PROVE  CourseInv'
<1>1. /\ DOMAIN result = Callers /\ DOMAIN xml = Callers /\ DOMAIN pc = Callers
  BY DEF CourseInv, FreshInv, SessionInv, Shapes
<1>2. /\ DOMAIN result' = Callers /\ DOMAIN xml' = Callers /\ pc'[c] = "idle" /\ result'[c] = r
  BY <1>1 DEF Return
<1>3. r.kind # "ok" => Delivered(c)'
  BY <1>2 DEF Delivered, RightCourse, Coherent, Succeeded
<1>4. Navigated(c)'
  BY <1>2, <1>3 DEF Navigated
<1> QED BY <1>2, <1>4, OnlyCaller

LEMMA Failed ==
  ASSUME Alone, FreshInv, CourseInv, NEW c \in Callers, NEW cl, NEW e, Return(c, Err(cl, e))
  PROVE  CourseInv'
BY Ended DEF Err

LEMMA GoesOn ==
  ASSUME Alone, FreshInv, CourseInv, NEW c \in Callers, pc[c] # "idle", NextAction(c),
         srv' = srv, DOMAIN xml' = Callers, call[c].code \in FourParts,
         NEW cl, cl = call[c], NEW b, b = Actions(cl)[step[c] + 1],
         NEW st, st = state'[Session(c)],
         cl.from = "search" =>
           /\ b # "BACK_BTTN" => Server(c).page = "search"
           /\ b \in Navigation =>
                /\ Place(c) # 0 => Applied(Server(c), cl, Place(c))
                /\ Place(c) > 2 => local'[c].career_name \in Names(cl.code)
           /\ b \in CourseNames =>
                /\ Remembers(st, cl) /\ st.status = "ON_CAREER_PAGE"
                /\ st.course_list \in Lists(cl.code)
                /\ b # "BACK_BTTN" => Server(c).list = st.course_list
                /\ b = "BACK_BTTN" => xml'[c] = Wanted(cl, st.course_list)
  PROVE  CourseInv'
<1>1. /\ DOMAIN result = Callers /\ DOMAIN pc = Callers /\ DOMAIN step = Callers
      /\ DOMAIN response = Callers /\ Asking(c)
  BY Working
<1>2. /\ pc'[c] = "send" /\ step'[c] = step[c] + 1 /\ call'[c] = cl
      /\ result'[c] = result[c] /\ DOMAIN result' = Callers
  BY <1>1 DEF NextAction
<1>3. /\ Session(c)' = Session(c) /\ Server(c)' = Server(c) /\ Action(c)' = b
      /\ Place(c)' = (step[c] + 1) - Len(Opening(cl))
  <2>1. Session(c)' = Session(c)
    BY <1>2 DEF Session
  <2>2. Action(c)' = b
    BY <1>2 DEF Action
  <2>3. Place(c)' = (step[c] + 1) - Len(Opening(cl))
    BY <1>2 DEF Place
  <2> QED BY <2>1, <2>2, <2>3 DEF Server
<1>4. step[c] \in Nat /\ Len(Opening(cl)) \in Nat
  BY Where
<1>5. Place(c) \in Int /\ Place(c)' = Place(c) + 1
  BY <1>3, <1>4 DEF Place
<1> DEFINE k == Place(c)
           m == Place(c)'
<1>6. k \in Int /\ m = k + 1
  BY <1>5
<1>7. Asking(c)'
  BY <1>1, <1>2 DEF Asking, After
<1>8. ~Good(c)'
  BY <1>2 DEF Good, After
<1>9. ASSUME cl.from = "search" PROVE OnSearchPage(c)' /\ InOrder(c)' /\ AtCourse(c)'
  <2>1. OnSearchPage(c)'
    BY <1>3, <1>8, <1>9, ActionNames DEF OnSearchPage
  <2>2. InOrder(c)'
    <3>1. m # 1 => k # 0
      BY <1>6
    <3>2. m > 3 => k > 2
      BY <1>6
    <3>3. m - 1 = k
      BY <1>6
    <3> HIDE DEF k, m
    <3>4. b \in Navigation =>
            /\ m # 1 => Applied(Server(c), cl, m - 1)
            /\ m > 3 => local'[c].career_name \in Names(cl.code)
      BY <1>9, <3>1, <3>2, <3>3 DEF k
    <3> QED BY <1>2, <1>3, <1>8, <3>4 DEF InOrder, m
  <2>3. AtCourse(c)'
    BY <1>2, <1>3, <1>8, <1>9, ActionNames DEF AtCourse
  <2> QED BY <2>1, <2>2, <2>3
<1>10. Navigated(c)'
  BY <1>2, <1>7, <1>9 DEF Navigated
<1> QED BY <1>2, <1>10, OnlyCaller

(* A step within one action.                                               *)
LEMMA Within ==
  ASSUME Alone, FreshInv, CourseInv, NEW c \in Callers, pc[c] # "idle",
         UNCHANGED <<call, step, xml, result>>
  PROVE  /\ Session(c)' = Session(c) /\ Action(c)' = Action(c) /\ Place(c)' = Place(c)
         /\ pc'[c] # "idle" /\ Asking(c)' /\
              (call[c].from = "search" => OnSearchPage(c)' /\ InOrder(c)' /\ AtCourse(c)')
            => CourseInv'
<1>1. Session(c)' = Session(c) /\ Action(c)' = Action(c) /\ Place(c)' = Place(c)
  BY DEF Session, Action, Place
<1>2. DOMAIN result' = Callers /\ DOMAIN xml' = Callers /\ call' = call
  BY DEF CourseInv
<1>3. ASSUME pc'[c] # "idle", Asking(c)',
             call[c].from = "search" => OnSearchPage(c)' /\ InOrder(c)' /\ AtCourse(c)'
      PROVE  CourseInv'
  <2>1. Navigated(c)'
    BY <1>2, <1>3 DEF Navigated
  <2> QED BY <1>2, <2>1, OnlyCaller
<1> QED BY <1>1, <1>3

-----------------------------------------------------------------------------
LEMMA SendNavigates ==
  ASSUME Alone, FreshInv, CourseInv, NEW c \in Callers, Send(c)
  PROVE  CourseInv'
<1>1. pc[c] = "send" /\ srv' = srv /\ state' = state
  BY DEF Send
<1>2. CASE Buildable(c)
  <2>1. /\ request' = [request EXCEPT ![c] = Body(c)] /\ pc' = [pc EXCEPT ![c] = "sent"]
        /\ UNCHANGED <<call, step, local, response, xml, result>>
    BY <1>2 DEF Send
  <2>2. /\ Asking(c) /\ DOMAIN pc = Callers /\ DOMAIN request = Callers
        /\ call[c].from = "search" => OnSearchPage(c) /\ InOrder(c) /\ AtCourse(c)
    BY <1>1, Working
  <2>3. pc'[c] = "sent" /\ request'[c] = Body(c)
    BY <2>1, <2>2
  <2>4. Session(c)' = Session(c) /\ Action(c)' = Action(c) /\ Place(c)' = Place(c)
    BY <1>1, <2>1, Within
  <2>5. Server(c)' = Server(c)
    BY <1>1, <2>4 DEF Server
  <2>6. Asking(c)'
    BY <2>1, <2>2, <2>3, <2>4 DEF Asking, Body, After
  <2>7. ~Good(c) /\ ~Good(c)' /\ pc[c] \in Before /\ pc'[c] \in Before
    BY <1>1, <2>3 DEF Good, After, Before
  <2>8. ASSUME call[c].from = "search" PROVE OnSearchPage(c)' /\ InOrder(c)' /\ AtCourse(c)'
    <3>1. OnSearchPage(c)'
      BY <2>2, <2>4, <2>5, <2>7, <2>8 DEF OnSearchPage
    <3>2. InOrder(c)'
      BY <2>1, <2>2, <2>3, <2>4, <2>5, <2>7, <2>8 DEF InOrder
    <3>3. AtCourse(c)'
      BY <1>1, <2>1, <2>2, <2>4, <2>5, <2>7, <2>8 DEF AtCourse
    <3> QED BY <3>1, <3>2, <3>3
  <2> QED BY <1>1, <2>1, <2>3, <2>6, <2>8, Within
<1>3. CASE ~Buildable(c)
  BY <1>3, Failed DEF Send, Fail
<1> QED BY <1>2, <1>3

(* A request of the selection or of the visit is for the page as it is.    *)
LEMMA AskedOfPage ==
  ASSUME Alone, FreshInv, CourseInv, NEW c \in Callers, pc[c] = "sent",
         call[c].from = "search", Action(c) \notin {"GET", "BACK_BTTN"}
  PROVE  Current(Server(c), request[c]) /\ Server(c).page = "search"
<1>1. /\ OnSearchPage(c) /\ request[c].action = Action(c)
      /\ request[c].token = Server(c).token
  BY Working
<1>2. Action(c) \in Navigation \cup CourseNames
  BY Where
<1>3. Server(c).page = "search"
  BY <1>1, <1>2, ActionNames DEF OnSearchPage, Before
<1> QED BY <1>1, <1>3 DEF Current

LEMMA ServeNavigates ==
  ASSUME Alone, AnswersRead, FreshInv, CourseInv, NEW c \in Callers, Serve(c)
  PROVE  CourseInv'
<1> DEFINE sv == Server(c)
           cl == call[c]
           a  == Action(c)
           k  == Place(c)
           t  == Session(c)
<1>1. pc[c] = "sent"
  BY DEF Serve
<1>2. Found(c) = {[token |-> TRUE, window |-> TRUE]}
  BY DEF AnswersRead, Found
<1>3. PICK p \in Processed(sv, request[c]) :
        /\ ServerNow(c, p)
        /\ \E found \in Found(c) :
             Answered(c, [status |-> 200,
                          token |-> IF found.token THEN p.srv.token ELSE NoToken,
                          window |-> found.window,
                          list |-> p.list, name |-> p.name, course |-> p.course])
  BY DEF Serve
<1>4. PICK answer : /\ answer.status = 200 /\ answer.list = p.list /\ answer.name = p.name
                    /\ answer.course = p.course
                    /\ Answered(c, answer)
  BY <1>2, <1>3
<1>5. /\ Asking(c) /\ DOMAIN pc = Callers /\ DOMAIN response = Callers
      /\ cl.from = "search" => OnSearchPage(c) /\ InOrder(c) /\ AtCourse(c)
      /\ DOMAIN srv = Jars /\ Jar(t) \in Jars /\ IsServer(sv) /\ request[c].action = a
  BY <1>1, Working
<1>6. /\ response'[c] = answer /\ pc'[c] = "answered" /\ srv'[Jar(t)] = p.srv
      /\ UNCHANGED <<state, call, step, local, request, xml, result>>
  BY <1>3, <1>4, <1>5 DEF Answered, ServerNow
<1>7. Session(c)' = t /\ Action(c)' = a /\ Place(c)' = k
  BY <1>1, <1>6, Within
<1>8. Server(c)' = p.srv
  BY <1>6, <1>7 DEF Server
<1>9. Asking(c)'
  BY <1>1, <1>4, <1>5, <1>6, <1>7 DEF Asking
<1>10. Good(c)' /\ pc'[c] \notin Before /\ pc[c] \in Before
  BY <1>1, <1>4, <1>6 DEF Good, After, Before
<1>11. ASSUME cl.from = "search" PROVE OnSearchPage(c)' /\ InOrder(c)' /\ AtCourse(c)'
  <2>1. /\ request[c].code = cl.code /\ request[c].electives = cl.electives
        /\ request[c].index = cl.index
    BY <1>1, <1>5 DEF Asking
  <2>2. CASE a = "GET"
    <3>1. p.srv.page = "search"
      BY <1>5, <2>2, ServerOpens
    <3>2. OnSearchPage(c)'
      BY <1>7, <1>8, <3>1 DEF OnSearchPage
    <3> QED BY <1>7, <2>2, <3>2, ActionNames DEF InOrder, AtCourse
  <2>3. CASE a \in Navigation
    <3>1. Current(sv, request[c]) /\ sv.page = "search"
      BY <1>1, <1>11, <2>3, ActionNames, AskedOfPage
    <3>2. k \in 1..Len(CareerActions(cl.electives)) /\ CareerActions(cl.electives)[k] = a
      BY <1>1, <2>3, Where
    <3>3. k # 1 => Applied(sv, cl, k - 1)
      BY <1>5, <1>10, <1>11, <2>3 DEF InOrder
    <3>4. /\ p.srv.page = sv.page /\ Applied(p.srv, cl, k)
          /\ a = "FACULTY_DD" => p.name \in Names(cl.code)
          /\ a = "SHOW_COURSES_BTTN" => p.list \in Lists(cl.code) /\ p.srv.list = p.list
      BY <1>5, <2>1, <2>3, <3>1, <3>2, <3>3, ServerSelects
    <3>5. OnSearchPage(c)'
      BY <1>7, <1>8, <3>1, <3>4 DEF OnSearchPage
    <3>6. InOrder(c)'
      BY <1>4, <1>5, <1>6, <1>7, <1>8, <1>10, <1>11, <2>3, <3>4 DEF InOrder
    <3> QED BY <1>7, <2>3, <3>5, <3>6, ActionNames DEF AtCourse
  <2>4. CASE a \in {"SELECT_ROW", "COURSE_PAGE_LINK"}
    <3>1. Current(sv, request[c]) /\ sv.page = "search"
      BY <1>1, <1>11, <2>4, AskedOfPage
    <3>2. /\ Remembers(state[t], cl) /\ state[t].status = "ON_CAREER_PAGE"
          /\ state[t].course_list \in Lists(cl.code) /\ sv.list = state[t].course_list
      BY <1>5, <1>10, <1>11, <2>4, ActionNames DEF AtCourse
    <3>3. /\ a = "SELECT_ROW" => p.srv.page = sv.page /\ p.srv.list = sv.list
          /\ a = "COURSE_PAGE_LINK" => p.course = Wanted(cl, sv.list)
      BY <1>5, <2>1, <3>1, <3>2, ServerVisits
    <3>4. a \notin Navigation \cup {"GET", "BACK_BTTN"}
      BY <2>4, ActionNames
    <3>5. OnSearchPage(c)'
      BY <1>7, <1>8, <1>10, <3>1, <3>3, <3>4 DEF OnSearchPage
    <3>6. AtCourse(c)'
      BY <1>4, <1>6, <1>7, <1>8, <1>10, <3>2, <3>3, <3>4 DEF AtCourse
    <3> QED BY <1>7, <3>4, <3>5, <3>6 DEF InOrder
  <2>5. CASE a = "BACK_BTTN"
    <3>1. a \notin Navigation
      BY <2>5, ActionNames
    <3>2. OnSearchPage(c)'
      BY <1>7, <2>5, <3>1 DEF OnSearchPage
    <3>3. AtCourse(c)'
      BY <1>5, <1>6, <1>7, <1>11, <2>5 DEF AtCourse
    <3> QED BY <1>7, <3>1, <3>2, <3>3 DEF InOrder
  <2>6. a \in {"GET"} \cup Navigation \cup CourseNames
    BY <1>1, Where
  <2> QED BY <2>2, <2>3, <2>4, <2>5, <2>6, ActionNames
<1> QED BY <1>1, <1>6, <1>9, <1>11, Within

(* An error page changes nothing on the server.                            *)
LEMMA ServeErrorNavigates ==
  ASSUME Alone, FreshInv, CourseInv, NEW c \in Callers, ServeError(c)
  PROVE  CourseInv'
<1>1. pc[c] = "sent" /\ srv' = srv
  BY DEF ServeError
<1>2. PICK n \in {404, 503} : Answered(c, [NoResponse EXCEPT !.status = n])
  BY DEF ServeError
<1>3. /\ Asking(c) /\ DOMAIN pc = Callers /\ DOMAIN response = Callers
      /\ call[c].from = "search" => OnSearchPage(c) /\ InOrder(c) /\ AtCourse(c)
  BY <1>1, Working
<1>4. /\ pc'[c] = "answered" /\ response'[c].status \in {404, 503}
      /\ UNCHANGED <<state, call, step, local, request, xml, result>>
  BY <1>2, <1>3 DEF Answered, NoResponse
<1>5. Session(c)' = Session(c) /\ Action(c)' = Action(c) /\ Place(c)' = Place(c)
  BY <1>1, <1>4, Within
<1>6. Server(c)' = Server(c)
  BY <1>1, <1>5 DEF Server
<1>7. Asking(c)'
  BY <1>1, <1>3, <1>4, <1>5 DEF Asking
<1>8. ~Good(c)' /\ pc'[c] \notin Before /\ pc'[c] # "navigated"
  BY <1>4 DEF Good, Before
<1>9. ASSUME call[c].from = "search" PROVE OnSearchPage(c)' /\ InOrder(c)' /\ AtCourse(c)'
  <2>1. OnSearchPage(c)'
    BY <1>3, <1>5, <1>6, <1>8, <1>9 DEF OnSearchPage
  <2>2. InOrder(c)'
    BY <1>3, <1>4, <1>5, <1>6, <1>8, <1>9 DEF InOrder
  <2>3. AtCourse(c)'
    BY <1>3, <1>4, <1>5, <1>6, <1>8, <1>9 DEF AtCourse
  <2> QED BY <2>1, <2>2, <2>3
<1> QED BY <1>1, <1>4, <1>7, <1>9, Within

LEMMA AttemptNavigates ==
  ASSUME Alone, FreshInv, CourseInv, NEW c \in Callers,
         \/ pc[c] = "sent"
         \/ pc[c] = "answered" /\ Action(c) = "GET",
         NEW e, AttemptFailed(c, e), srv' = srv, state' = state
  PROVE  CourseInv'
<1>1. pc[c] \notin {"idle", "send"}
  OBVIOUS
<1>2. CASE Fail(c, e)
  BY <1>2, Failed DEF Fail
<1>3. CASE /\ pc' = [pc EXCEPT ![c] = "sleeping"]
           /\ response' = [response EXCEPT ![c] = NoResponse]
           /\ UNCHANGED <<call, step, attempt, local, request, xml, result>>
  <2>1. /\ Asking(c) /\ DOMAIN pc = Callers
        /\ call[c].from = "search" => OnSearchPage(c) /\ InOrder(c) /\ AtCourse(c)
    BY <1>1, Working
  <2>2. pc'[c] = "sleeping"
    BY <1>3, <2>1
  <2>3. Session(c)' = Session(c) /\ Action(c)' = Action(c) /\ Place(c)' = Place(c)
    BY <1>1, <1>3, Within
  <2>4. Server(c)' = Server(c)
    BY <2>3 DEF Server
  <2>5. Asking(c)'
    BY <1>1, <1>3, <2>1, <2>2, <2>3 DEF Asking, After
  <2>6. ~Good(c)' /\ pc'[c] \in Before
    BY <2>2 DEF Good, After, Before
  <2>7. ASSUME call[c].from = "search" PROVE OnSearchPage(c)' /\ InOrder(c)' /\ AtCourse(c)'
    <3>1. CASE Action(c) = "GET"
      BY <2>3, <2>6, <3>1, ActionNames DEF OnSearchPage, InOrder, AtCourse
    <3>2. CASE pc[c] = "sent"
      <4>1. pc[c] \in Before
        BY <3>2 DEF Before
      <4>2. OnSearchPage(c)'
        BY <2>1, <2>3, <2>4, <2>6, <2>7, <4>1 DEF OnSearchPage
      <4>3. InOrder(c)'
        BY <1>3, <2>1, <2>2, <2>3, <2>4, <2>6, <2>7, <4>1 DEF InOrder
      <4>4. AtCourse(c)'
        BY <1>3, <2>1, <2>3, <2>4, <2>6, <2>7, <4>1 DEF AtCourse
      <4> QED BY <4>2, <4>3, <4>4
    <3> QED BY <3>1, <3>2
  <2>8. pc[c] # "idle" /\ pc'[c] # "idle" /\ UNCHANGED <<call, step, xml, result>>
    BY <1>1, <1>3, <2>2
  <2> QED BY <2>5, <2>7, <2>8, Within
<1> QED BY <1>2, <1>3 DEF AttemptFailed

LEMMA LoseNavigates ==
  ASSUME Alone, AnswersRead, FreshInv, CourseInv, NEW c \in Callers, Lose(c)
  PROVE  CourseInv'
<1>1. pc[c] = "sent" /\ state' = state
  BY DEF Lose
<1>2. PICK e \in TransportErrors : srv' = srv /\ AttemptFailed(c, Surfaced(c, e))
  BY DEF Lose, AnswersRead
<1> QED BY <1>1, <1>2, AttemptNavigates

LEMMA WakeNavigates ==
  ASSUME Alone, FreshInv, CourseInv, NEW c \in Callers, Wake(c)
  PROVE  CourseInv'
<1>1. /\ pc[c] = "sleeping" /\ pc' = [pc EXCEPT ![c] = "sent"]
      /\ UNCHANGED <<srv, state, call, step, local, request, response, xml, result>>
  BY DEF Wake
<1>2. /\ Asking(c) /\ DOMAIN pc = Callers
      /\ call[c].from = "search" => OnSearchPage(c) /\ InOrder(c) /\ AtCourse(c)
  BY <1>1, Working
<1>3. Session(c)' = Session(c) /\ Action(c)' = Action(c) /\ Place(c)' = Place(c)
  BY <1>1, Within
<1>4. Server(c)' = Server(c)
  BY <1>1, <1>3 DEF Server
<1>5. /\ pc'[c] = "sent" /\ pc[c] \in Before /\ pc'[c] \in Before /\ ~Good(c)'
  BY <1>1, <1>2 DEF Before, Good, After
<1>6. Asking(c)'
  BY <1>1, <1>2, <1>3, <1>5 DEF Asking, After
<1>7. ASSUME call[c].from = "search" PROVE OnSearchPage(c)' /\ InOrder(c)' /\ AtCourse(c)'
  <2>1. OnSearchPage(c)'
    BY <1>2, <1>3, <1>4, <1>5, <1>7 DEF OnSearchPage
  <2>2. InOrder(c)'
    BY <1>1, <1>2, <1>3, <1>4, <1>5, <1>7 DEF InOrder
  <2>3. AtCourse(c)'
    BY <1>1, <1>2, <1>3, <1>4, <1>5, <1>7 DEF AtCourse
  <2> QED BY <2>1, <2>2, <2>3
<1> QED BY <1>1, <1>5, <1>6, <1>7, Within

(* Reading an answer changes the token of the session, and nothing else.   *)
LEMMA ReceivePostNavigates ==
  ASSUME Alone, FreshInv, CourseInv, NEW c \in Callers, ReceivePost(c)
  PROVE  CourseInv'
<1> DEFINE t == Session(c)
           new == WithToken(state[t], response[c].token)
<1>1. /\ pc[c] = "answered" /\ pc' = [pc EXCEPT ![c] = "received"] /\ Action(c) # "GET"
      /\ state' = [state EXCEPT ![t] = new]
      /\ UNCHANGED <<srv, call, step, local, request, response, xml, result>>
  BY DEF ReceivePost, Received
<1>2. /\ Asking(c) /\ DOMAIN pc = Callers
      /\ call[c].from = "search" => OnSearchPage(c) /\ InOrder(c) /\ AtCourse(c)
      /\ DOMAIN state = AllSessions /\ t \in AllSessions /\ DOMAIN state[t] = Fields
  BY <1>1, Working DEF IsState
<1>3. Session(c)' = t /\ Action(c)' = Action(c) /\ Place(c)' = Place(c)
  BY <1>1, Within
<1>4. Server(c)' = Server(c)
  BY <1>1, <1>3 DEF Server
<1>5. /\ pc'[c] = "received" /\ pc[c] \notin Before /\ pc'[c] \notin Before
      /\ Good(c)' <=> Good(c)
  BY <1>1, <1>2 DEF Before, Good, After
<1>6. Asking(c)'
  BY <1>1, <1>2, <1>3, <1>5 DEF Asking, After
<1>7. /\ new.career_code = state[t].career_code /\ new.is_electives = state[t].is_electives
      /\ new.career_name = state[t].career_name /\ new.status = state[t].status
      /\ new.course_list = state[t].course_list
  BY <1>2 DEF WithToken, Fields
<1>8. state'[t] = new
  BY <1>1, <1>2
<1> HIDE DEF new
<1>9. ASSUME call[c].from = "search" PROVE OnSearchPage(c)' /\ InOrder(c)' /\ AtCourse(c)'
  <2>1. OnSearchPage(c)'
    BY <1>2, <1>3, <1>4, <1>5, <1>9 DEF OnSearchPage
  <2>2. InOrder(c)'
    BY <1>1, <1>2, <1>3, <1>4, <1>5, <1>9 DEF InOrder
  <2>3. AtCourse(c)'
    BY <1>1, <1>2, <1>3, <1>4, <1>5, <1>7, <1>8, <1>9 DEF AtCourse, Remembers
  <2> QED BY <2>1, <2>2, <2>3
<1> QED BY <1>1, <1>5, <1>6, <1>9, Within

LEMMA ReceiveGetNavigates ==
  ASSUME Alone, FreshInv, CourseInv, NEW c \in Callers, ReceiveGet(c)
  PROVE  CourseInv'
<1> DEFINE t  == Session(c)
           cl == call[c]
           st == Initialised(state[t], response[c])
           b  == Actions(cl)[step[c] + 1]
<1>1. pc[c] = "answered" /\ Action(c) = "GET" /\ srv' = srv
  BY DEF ReceiveGet
<1>2. CASE state' = state /\ AttemptFailed(c, StatusError(response[c].status))
  BY <1>1, <1>2, AttemptNavigates
<1>3. CASE response[c].status < 400 /\ AfterGet(c, st)
  <2>1. CASE Return(c, Ok(c, NoCourse)) /\ cl.name = "init_session"
    <3>1. Ok(c, NoCourse).call = cl
      BY DEF Ok
    <3>2. result'[c] = Ok(c, NoCourse)
      BY <1>1, <2>1, Working DEF Return
    <3> HIDE DEF cl
    <3>3. Delivered(c)'
      BY <2>1, <3>1, <3>2 DEF Delivered, RightCourse, Coherent, Succeeded
    <3> QED BY <2>1, <3>3, Ended
  <2>2. CASE Fail(c, Error("InvalidInput"))
    BY <2>2, Failed DEF Fail
  <2>3. CASE cl.name # "init_session" /\ cl.code \in FourParts /\ NextAction(c) /\ xml' = xml
    <3>1. b = "STUDY_LEVEL_DD" /\ Place(c) = 0
      BY <1>1, <2>3, Where
    <3>2. b # "BACK_BTTN" /\ b \notin CourseNames
      BY <3>1, ActionNames
    <3>3. cl.from = "search" => OnSearchPage(c)
      BY <1>1, Working
    <3>4. response[c].status = 200
      <4>1. Asking(c)
        BY <1>1, Working
      <4> QED BY <1>1, <1>3, <4>1 DEF Asking, After
    <3>5. cl.from = "search" => Server(c).page = "search"
      BY <1>1, <3>3, <3>4 DEF OnSearchPage, Good, After
    <3>6. DOMAIN xml' = Callers /\ ~(0 > 2)
      BY <2>3 DEF CourseInv
    <3> HIDE DEF b
    <3> QED BY <1>1, <2>3, <3>1, <3>2, <3>5, <3>6, GoesOn DEF b
  <2> QED BY <1>3, <2>1, <2>2, <2>3 DEF AfterGet
<1> QED BY <1>2, <1>3 DEF ReceiveGet

(* The name is found in the answer to FACULTY_DD and carried along.        *)
LEMMA CareerAnswerNavigates ==
  ASSUME Alone, FreshInv, CourseInv, NEW c \in Callers, CareerAnswer(c)
  PROVE  CourseInv'
<1> DEFINE t   == Session(c)
           cl  == call[c]
           a   == Action(c)
           k   == Place(c)
           b   == Actions(cl)[step[c] + 1]
           new == Published(c)
<1>1. pc[c] = "received" /\ Navigating(c)
  BY DEF CareerAnswer
<1>2. ASSUME NEW e, FailReceived(c, e) PROVE CourseInv'
  BY <1>2, Failed DEF FailReceived, Fail
<1>3. CASE response[c].status < 400 /\ Publish(c)
  <2>1. /\ Asking(c) /\ DOMAIN pc = Callers /\ DOMAIN local = Callers /\ DOMAIN xml = Callers
        /\ cl.from = "search" => OnSearchPage(c) /\ InOrder(c) /\ AtCourse(c)
        /\ DOMAIN state = AllSessions /\ t \in AllSessions /\ DOMAIN state[t] = Fields
    BY <1>1, Working DEF IsState
  <2>2. a \in Navigation /\ a # "GET"
    <3>1. a \in {"GET"} \cup Navigation \cup CourseNames
      BY <1>1, Where
    <3> QED BY <1>1, <3>1, ActionNames DEF Navigating
  <2>3. Good(c)
    BY <1>1, <1>3, <2>1 DEF Good, Asking, After
  <2>4. DOMAIN WithToken(state[t], response[c].token) = Fields
    BY <2>1 DEF WithToken
  <2>5. /\ new.career_code = cl.code /\ new.career_name = NameAfter(c)
        /\ new.is_electives = cl.electives
    BY <2>4 DEF Published, Fields
  <2> HIDE DEF new
  <2>6. state'[t] = new /\ local'[c] = new /\ srv' = srv /\ xml' = xml
    BY <1>3, <2>1 DEF Publish, new
  <2>7. /\ k \in Int /\ (a = "FACULTY_DD" <=> k = 3)
        /\ Len(CareerActions(cl.electives)) > 3
        /\ CareerActions(cl.electives)[k] = a /\ k \in 1..Len(CareerActions(cl.electives))
        /\ a \in Filters => b \in Navigation
    BY <1>1, <2>2, Where
  <2>8. ASSUME cl.from = "search", k > 2 PROVE new.career_name \in Names(cl.code)
    <3>1. k # 3 => local[c].career_name \in Names(cl.code)
      BY <2>1, <2>2, <2>7, <2>8 DEF InOrder
    <3>2. k = 3 => response[c].name \in Names(cl.code)
      BY <2>1, <2>2, <2>3, <2>7, <2>8 DEF InOrder
    <3> QED BY <2>5, <2>7, <3>1, <3>2 DEF NameAfter
  <2>9. CASE a = "SHOW_COURSES_BTTN"
    <3>1. /\ pc' = [pc EXCEPT ![c] = "navigated"]
          /\ UNCHANGED <<call, step, request, response, xml, result>>
      BY <1>3, <2>6, <2>9 DEF Publish
    <3>2. pc'[c] = "navigated"
      BY <2>1, <3>1
    <3>3. Session(c)' = t /\ Action(c)' = a /\ Place(c)' = k
      BY <1>1, <3>1, Within
    <3>4. Server(c)' = Server(c)
      BY <2>6, <3>3 DEF Server
    <3>5. Asking(c)'
      BY <1>1, <2>1, <3>1, <3>2, <3>3 DEF Asking, After
    <3>6. Good(c)' /\ pc'[c] \notin Before
      BY <2>3, <3>1, <3>2 DEF Good, Before, After
    <3>7. k > 3
      <4>1. k = Len(CareerActions(cl.electives))
        BY <2>7, <2>9, CareerPlaces
      <4> QED BY <2>7, <4>1
    <3>8. ASSUME cl.from = "search" PROVE OnSearchPage(c)' /\ InOrder(c)' /\ AtCourse(c)'
      <4>1. new.career_name \in Names(cl.code)
        BY <2>7, <2>8, <3>7, <3>8
      <4>2. OnSearchPage(c)'
        BY <2>1, <2>2, <3>3, <3>4, <3>8 DEF OnSearchPage
      <4>3. InOrder(c)'
        BY <2>1, <2>2, <2>3, <2>5, <2>6, <3>1, <3>3, <3>4, <3>6, <3>8, <4>1
        DEF InOrder, Remembers
      <4>4. AtCourse(c)'
        BY <2>2, <3>3, ActionNames DEF AtCourse
      <4> QED BY <4>2, <4>3, <4>4
    <3> QED BY <1>1, <3>1, <3>2, <3>5, <3>8, Within
  <2>10. CASE a # "SHOW_COURSES_BTTN"
    <3>1. NextAction(c)
      BY <1>3, <2>10 DEF Publish
    <3>2. b \in Navigation /\ b # "BACK_BTTN" /\ b \notin CourseNames
      BY <2>2, <2>7, <2>10, ActionNames
    <3>3. cl.code \in FourParts
      BY <2>1, <2>2 DEF Asking
    <3>4. ASSUME cl.from = "search"
          PROVE  /\ Server(c).page = "search" /\ Applied(Server(c), cl, k)
                 /\ k > 2 => local'[c].career_name \in Names(cl.code)
      BY <2>1, <2>2, <2>3, <2>6, <2>8, <3>4 DEF OnSearchPage, InOrder
    <3> HIDE DEF b
    <3> QED BY <1>1, <2>1, <2>6, <3>1, <3>2, <3>3, <3>4, GoesOn DEF b
  <2> QED BY <2>9, <2>10
<1> QED BY <1>2, <1>3 DEF CareerAnswer

(* The list of the last answer is the list of the career.                  *)
LEMMA ShowCoursesNavigates ==
  ASSUME Alone, FreshInv, CourseInv, NEW c \in Callers, ShowCourses(c)
  PROVE  CourseInv'
<1> DEFINE t   == Session(c)
           cl  == call[c]
           b   == Actions(cl)[step[c] + 1]
           new == Listed(c)
<1>1. pc[c] = "navigated" /\ srv' = srv /\ state' = [state EXCEPT ![t] = new]
  BY DEF ShowCourses
<1>2. /\ Asking(c) /\ DOMAIN pc = Callers /\ DOMAIN local = Callers
      /\ DOMAIN xml = Callers /\ DOMAIN result = Callers
      /\ cl.from = "search" => OnSearchPage(c) /\ InOrder(c) /\ AtCourse(c)
      /\ DOMAIN state = AllSessions /\ t \in AllSessions /\ DOMAIN state[t] = Fields
      /\ Action(c) = "SHOW_COURSES_BTTN"
  BY <1>1, Working DEF IsState
<1>3. Action(c) \in Navigation
  BY <1>2, ActionNames
<1>4. /\ new.status = "ON_CAREER_PAGE" /\ new.course_list = response[c].list
      /\ new.career_code = state[t].career_code /\ new.is_electives = state[t].is_electives
      /\ new.career_name = state[t].career_name
  BY <1>2 DEF Listed, Fields
<1> HIDE DEF new
<1>5. state'[t] = new
  BY <1>1, <1>2
<1>6. ASSUME cl.from = "search"
      PROVE  /\ Remembers(new, cl) /\ new.course_list \in Lists(cl.code)
             /\ Server(c).page = "search" /\ Server(c).list = new.course_list
  BY <1>1, <1>2, <1>3, <1>4, <1>6 DEF OnSearchPage, InOrder, Remembers
<1>7. CASE cl.name = "set_career" /\ Return(c, Ok(c, NoCourse))
  <2>1. Ok(c, NoCourse).call = cl /\ cl.session = t
    BY DEF Ok, Session
  <2>2. result'[c] = Ok(c, NoCourse)
    BY <1>2, <1>7 DEF Return
  <2> HIDE DEF cl, t
  <2>3. cl.from = "search" => new.course_list.career = cl.code
    BY <1>6 DEF Lists
  <2>4. Delivered(c)'
    BY <1>4, <1>5, <1>6, <1>7, <2>1, <2>2, <2>3
    DEF Delivered, RightCourse, Coherent, Succeeded
  <2> QED BY <1>7, <2>4, Ended
<1>8. CASE cl.name # "set_career" /\ NextAction(c) /\ xml' = xml
  <2>1. b = "SELECT_ROW"
    BY <1>1, <1>2, <1>8, Where
  <2>2. b # "BACK_BTTN" /\ b \notin Navigation
    BY <2>1, ActionNames
  <2>3. cl.code \in FourParts
    BY <1>2 DEF Asking
  <2> HIDE DEF b
  <2> QED BY <1>1, <1>2, <1>4, <1>5, <1>6, <1>8, <2>2, <2>3, GoesOn DEF b
<1> QED BY <1>7, <1>8 DEF ShowCourses

LEMMA RowNavigates ==
  ASSUME Alone, FreshInv, CourseInv, NEW c \in Callers, RowSelected(c)
  PROVE  CourseInv'
<1> DEFINE cl == call[c]
           b  == Actions(cl)[step[c] + 1]
<1>1. /\ pc[c] = "received" /\ Action(c) = "SELECT_ROW" /\ NextAction(c)
      /\ srv' = srv /\ state' = state /\ xml' = xml
  BY DEF RowSelected
<1>2. /\ Asking(c) /\ DOMAIN xml = Callers
      /\ cl.from = "search" => OnSearchPage(c) /\ InOrder(c) /\ AtCourse(c)
  BY <1>1, Working
<1>3. b = "COURSE_PAGE_LINK"
  BY <1>1, Where
<1>4. b # "BACK_BTTN" /\ b \notin Navigation /\ cl.code \in FourParts
  BY <1>1, <1>2, <1>3, ActionNames DEF Asking
<1>5. ASSUME cl.from = "search"
      PROVE  /\ Remembers(state[Session(c)], cl) /\ state[Session(c)].status = "ON_CAREER_PAGE"
             /\ state[Session(c)].course_list \in Lists(cl.code)
             /\ Server(c).page = "search" /\ Server(c).list = state[Session(c)].course_list
  BY <1>1, <1>2, <1>5, ActionNames DEF OnSearchPage, AtCourse
<1> HIDE DEF b
<1> QED BY <1>1, <1>2, <1>4, <1>5, GoesOn DEF b

LEMMA LinkNavigates ==
  ASSUME Alone, FreshInv, CourseInv, NEW c \in Callers, CourseOpened(c)
  PROVE  CourseInv'
<1> DEFINE cl == call[c]
           b  == Actions(cl)[step[c] + 1]
<1>1. pc[c] = "received" /\ Action(c) = "COURSE_PAGE_LINK" /\ srv' = srv /\ state' = state
  BY DEF CourseOpened
<1>2. CASE response[c].status >= 400
  BY <1>2, Failed DEF CourseOpened, Fail
<1>3. CASE ~(response[c].status >= 400)
  <2>1. NextAction(c) /\ xml' = [xml EXCEPT ![c] = response[c].course]
    BY <1>3 DEF CourseOpened
  <2>2. /\ Asking(c) /\ DOMAIN xml = Callers
        /\ cl.from = "search" => OnSearchPage(c) /\ InOrder(c) /\ AtCourse(c)
    BY <1>1, Working
  <2>3. b = "BACK_BTTN"
    BY <1>1, Where
  <2>4. b \notin Navigation /\ cl.code \in FourParts
    BY <1>1, <2>2, <2>3, ActionNames DEF Asking
  <2>5. Good(c)
    BY <1>1, <1>3, <2>2 DEF Good, Asking, After
  <2>6. xml'[c] = response[c].course /\ DOMAIN xml' = Callers
    BY <2>1, <2>2
  <2>7. ASSUME cl.from = "search"
        PROVE  /\ Remembers(state[Session(c)], cl) /\ state[Session(c)].status = "ON_CAREER_PAGE"
               /\ state[Session(c)].course_list \in Lists(cl.code)
               /\ xml'[c] = Wanted(cl, state[Session(c)].course_list)
    BY <1>1, <2>2, <2>5, <2>6, <2>7, ActionNames DEF AtCourse
  <2> HIDE DEF b
  <2> QED BY <1>1, <2>1, <2>3, <2>4, <2>6, <2>7, GoesOn DEF b
<1> QED BY <1>2, <1>3

(* The page fetched is that of the course asked for, or, for an index      *)
(* outside the list, of none.                                              *)
LEMMA BackNavigates ==
  ASSUME Alone, FreshInv, CourseInv, NEW c \in Callers, WentBack(c)
  PROVE  CourseInv'
<1> DEFINE t   == Session(c)
           cl  == call[c]
           st  == state[t]
           new == [st EXCEPT !.status = "ON_CAREER_PAGE"]
<1>1. pc[c] = "received" /\ Action(c) = "BACK_BTTN" /\ state' = [state EXCEPT ![t] = new]
  BY DEF WentBack
<1>2. CASE Fail(c, Error("Parse"))
  BY <1>2, Failed DEF Fail
<1>3. CASE ~(cl.name = "scrape" /\ xml[c] = NoCourse) /\ Return(c, Ok(c, xml[c]))
  <2>1. /\ Asking(c)
        /\ cl.from = "search" => AtCourse(c)
        /\ DOMAIN result = Callers
        /\ DOMAIN state = AllSessions /\ t \in AllSessions /\ DOMAIN state[t] = Fields
    BY <1>1, Working DEF IsState
  <2>2. /\ new.status = "ON_CAREER_PAGE" /\ new.course_list = st.course_list
        /\ new.career_code = st.career_code /\ new.is_electives = st.is_electives
        /\ new.career_name = st.career_name
    BY <2>1 DEF Fields
  <2> HIDE DEF new
  <2>3. state'[t] = new
    BY <1>1, <2>1
  <2> HIDE DEF st
  <2>4. ASSUME cl.from = "search"
        PROVE  /\ Remembers(st, cl) /\ st.course_list \in Lists(cl.code)
               /\ xml[c] = Wanted(cl, st.course_list)
    BY <1>1, <2>1, <2>4, ActionNames DEF AtCourse, st
  <2>5. result'[c].call = cl /\ result'[c].course = xml[c] /\ cl.session = t
    BY <1>3, <2>1 DEF Return, Ok, Session
  <2>6. cl.code \in FourParts /\ cl.index \in Int
    BY <1>1, <2>1 DEF Asking
  <2> HIDE DEF cl, t
  <2>7. ASSUME cl.from = "search", cl.name \in {"scrape", "course_xml"}
        PROVE  \/ xml[c] = [career |-> cl.code, index |-> cl.index]
               \/ /\ cl.name = "course_xml" /\ xml[c] = NoCourse
                  /\ cl.index \notin 0..(new.course_list.len - 1)
    <3>1. CASE 0 <= cl.index /\ cl.index < st.course_list.len
      BY <2>4, <2>7, <3>1 DEF Wanted
    <3>2. CASE ~(0 <= cl.index /\ cl.index < st.course_list.len)
      <4>1. xml[c] = NoCourse
        BY <2>4, <2>7, <3>2 DEF Wanted
      <4>2. cl.name = "course_xml"
        BY <1>3, <2>7, <4>1
      <4>3. st.course_list.len \in Nat
        BY <2>4, <2>6, <2>7, CodesAssumption DEF Lists
      <4>4. cl.index \notin 0..(st.course_list.len - 1)
        BY <2>6, <3>2, <4>3
      <4> QED BY <2>2, <4>1, <4>2, <4>4
    <3> QED BY <3>1, <3>2
  <2>8. RightCourse(c)'
    BY <2>3, <2>5, <2>7 DEF RightCourse, Succeeded
  <2>9. cl.from = "search" => new.course_list.career = cl.code
    BY <2>2, <2>4 DEF Lists
  <2>10. Coherent(c)'
    BY <2>2, <2>3, <2>4, <2>5, <2>9 DEF Coherent, Remembers
  <2> QED BY <1>3, <2>8, <2>10, Ended DEF Delivered
<1> QED BY <1>2, <1>3 DEF WentBack

(* An operation begins with a GET, or with the first filter, on the page   *)
(* that the server shows.                                                  *)
LEMMA BeginNavigates ==
  ASSUME Alone, FreshInv, CourseInv, NEW c \in Callers, pc[c] = "idle",
         NEW cl, NEW copy, Begin(c, cl, copy), DOMAIN cl = CallFields, Known(cl), cl.index \in Int,
         \/ cl.name = "init_session" \/ cl.session \in Callers
         \/ cl.code \in FourParts /\ srv' = srv
  PROVE  CourseInv'
<1> DEFINE begun == [cl EXCEPT !.from = srv[Jar(cl.session)].page]
<1>1. /\ Shapes /\ step[c] = 1 /\ DOMAIN result = Callers /\ DOMAIN xml = Callers
  BY DEF FreshInv, SessionInv, CallerOK, CourseInv
<1>2. /\ call' = [call EXCEPT ![c] = begun] /\ pc' = [pc EXCEPT ![c] = "send"]
      /\ result' = [result EXCEPT ![c] = NoResult] /\ step' = step /\ xml' = xml
  BY DEF Begin
<1>3. /\ begun.session = cl.session /\ begun.name = cl.name /\ begun.code = cl.code
      /\ begun.index = cl.index /\ begun.from = srv[Jar(cl.session)].page
  BY DEF CallFields, NoCall
<1> HIDE DEF begun
<1>4. /\ pc'[c] = "send" /\ call'[c] = begun /\ step'[c] = 1 /\ result'[c].kind = "none"
      /\ DOMAIN result' = Callers /\ DOMAIN xml' = Callers
  BY <1>1, <1>2 DEF Shapes, NoResult
<1>5. Known(begun)
  BY <1>3 DEF Known
<1>6. /\ Action(c)' = Actions(begun)[1] /\ Place(c)' = 1 - Len(Opening(begun))
      /\ Session(c)' = cl.session
  BY <1>3, <1>4 DEF Action, Place, Session
<1>7. ~Good(c)' /\ pc'[c] \notin After
  BY <1>4 DEF Good, After
<1>8. CASE cl.name = "init_session" \/ cl.session \in Callers
  <2>1. Action(c)' = "GET"
    BY <1>3, <1>5, <1>6, <1>8, ActionsBegin DEF IsOneShot
  <2>2. Asking(c)'
    BY <1>3, <1>4, <1>7, <2>1 DEF Asking
  <2>3. OnSearchPage(c)' /\ InOrder(c)' /\ AtCourse(c)'
    BY <1>7, <2>1, ActionNames DEF OnSearchPage, InOrder, AtCourse
  <2>4. Navigated(c)'
    BY <1>4, <2>2, <2>3 DEF Navigated
  <2> QED BY <1>4, <2>4, OnlyCaller
<1>9. CASE /\ ~(cl.name = "init_session" \/ cl.session \in Callers)
           /\ cl.code \in FourParts /\ srv' = srv
  <2>1. Action(c)' = "STUDY_LEVEL_DD" /\ Len(Opening(begun)) = 0
    BY <1>3, <1>5, <1>6, <1>9, ActionsBegin DEF IsOneShot
  <2>2. Place(c)' = 1
    BY <1>6, <2>1
  <2>3. Asking(c)'
    BY <1>3, <1>4, <1>7, <1>9 DEF Asking
  <2>4. begun.from = "search" => Server(c)'.page = "search"
    BY <1>3, <1>6, <1>9 DEF Server
  <2>5. begun.from = "search" => OnSearchPage(c)'
    BY <2>4 DEF OnSearchPage
  <2>6. InOrder(c)'
    BY <1>4, <1>7, <2>2 DEF InOrder
  <2>7. AtCourse(c)'
    BY <2>1, ActionNames DEF AtCourse
  <2>8. Navigated(c)'
    BY <1>4, <2>3, <2>5, <2>6, <2>7 DEF Navigated
  <2> QED BY <1>4, <2>8, OnlyCaller
<1> QED BY <1>8, <1>9

(* What is refused, and what fails, delivers nothing.                      *)
LEMMA RefuseNavigates ==
  ASSUME Alone, FreshInv, CourseInv, NEW c \in Callers, NEW cl, Refuse(c, cl)
  PROVE  CourseInv'
BY Failed DEF Refuse

LEMMA RootCallsNavigate ==
  ASSUME Alone, FreshInv, CourseInv, NEW c \in Callers,
         \/ InitSession(c, Root)
         \/ \E career \in Careers : SetCareer(c, Root, career[1], career[2])
         \/ \E index \in CourseIndices : ScrapeCourse(c, index)
  PROVE  CourseInv'
<1> DEFINE st == state[Root]
<1>1. pc[c] = "idle" /\ srv' = srv
  BY DEF InitSession, SetCareer, ScrapeCourse, Scrape, Ready
<1>2. CASE InitSession(c, Root)
  <2> DEFINE cl == [NoCall EXCEPT !.name = "init_session", !.session = Root]
  <2>1. Begin(c, cl, st)
    BY <1>2 DEF InitSession
  <2>2. DOMAIN cl = CallFields /\ cl.name = "init_session" /\ Known(cl) /\ cl.index \in Int
    BY DEF CallFields, NoCall, Known
  <2> HIDE DEF cl
  <2> QED BY <1>1, <2>1, <2>2, BeginNavigates
<1>3. ASSUME NEW career \in Careers, SetCareer(c, Root, career[1], career[2]) PROVE CourseInv'
  <2> DEFINE cl   == [NoCall EXCEPT !.name = "set_career", !.session = Root,
                                    !.code = career[1], !.electives = career[2]]
             copy == Selecting(st, career[1], career[2])
  <2>1. Refuse(c, cl) \/ (Begin(c, cl, copy) /\ career[1] \in FourParts)
    BY <1>3 DEF SetCareer
  <2>2. /\ DOMAIN cl = CallFields /\ Known(cl) /\ cl.index \in Int /\ cl.code = career[1]
    BY DEF CallFields, NoCall, Known
  <2> HIDE DEF cl, copy
  <2> QED BY <1>1, <2>1, <2>2, BeginNavigates, RefuseNavigates
<1>4. ASSUME NEW index \in CourseIndices, ScrapeCourse(c, index) PROVE CourseInv'
  <2> DEFINE cl   == [NoCall EXCEPT !.name = "scrape", !.session = Root, !.code = st.career_code,
                                    !.electives = st.is_electives, !.index = index]
             copy == Selecting(st, st.career_code, st.is_electives)
  <2>1. Refuse(c, cl) \/ (Begin(c, cl, copy) /\ st.career_code \in FourParts)
    BY <1>4 DEF ScrapeCourse, Scrape
  <2>2. /\ DOMAIN cl = CallFields /\ Known(cl) /\ cl.index \in Int
        /\ cl.code = st.career_code
    BY SessionAssumption DEF CallFields, NoCall, Known
  <2> HIDE DEF cl, copy
  <2> QED BY <1>1, <2>1, <2>2, BeginNavigates, RefuseNavigates
<1> QED BY <1>2, <1>3, <1>4

LEMMA OneShotNavigates ==
  ASSUME Alone, FreshInv, CourseInv, NEW c \in Callers, NEW name, NEW career, NEW index \in Int,
         OneShot(c, name, career, index),
         name \in {"init_session", "set_career", "course_xml"}
  PROVE  CourseInv'
<1> DEFINE cl == [[NoCall EXCEPT !.name = name, !.session = c, !.index = index]
                    EXCEPT !.code = career[1], !.electives = career[2]]
<1>1. pc[c] = "idle" /\ Begin(c, cl, DefaultState)
  BY DEF OneShot
<1>2. DOMAIN cl = CallFields /\ cl.session = c /\ Known(cl) /\ cl.index \in Int
  BY DEF CallFields, NoCall, Known
<1> HIDE DEF cl
<1> QED BY <1>1, <1>2, BeginNavigates

LEMMA StartNavigates ==
  ASSUME Alone, FreshInv, CourseInv, NEW c \in Callers, Start(c)
  PROVE  CourseInv'
<1>1. Sessions \ {Root} = {} /\ NoCall.index \in Int /\ CourseIndices \subseteq Int
  BY SessionAssumption DEF Alone, NoCall
<1>2. CASE InitSiaSession(c)
  BY <1>1, <1>2, OneShotNavigates DEF InitSiaSession
<1>3. ASSUME NEW career \in Careers, SetCareerOnce(c, career) PROVE CourseInv'
  BY <1>1, <1>3, OneShotNavigates DEF SetCareerOnce
<1>4. ASSUME NEW career \in Careers, NEW index \in CourseIndices, GetCourseXml(c, career, index)
      PROVE  CourseInv'
  BY <1>1, <1>4, OneShotNavigates DEF GetCourseXml
<1> QED BY <1>1, <1>2, <1>3, <1>4, RootCallsNavigate DEF Start

-----------------------------------------------------------------------------
LEMMA InitNavigates == Init => CourseInv
BY DEF Init, CourseInv, Navigated, Delivered, RightCourse, Coherent, Succeeded, NoResult

LEMMA IdleNavigates ==
  ASSUME CourseInv, UNCHANGED vars
  PROVE  CourseInv'
<1>1. UNCHANGED <<srv, state, call, pc, step, local, request, response, xml, result>>
  BY DEF vars
<1> SUFFICES ASSUME NEW c \in Callers PROVE Navigated(c)'
  BY <1>1 DEF CourseInv
<1>2. Navigated(c)
  BY DEF CourseInv
<1>3. /\ Session(c)' = Session(c) /\ Action(c)' = Action(c) /\ Place(c)' = Place(c)
      /\ Server(c)' = Server(c) /\ Good(c)' = Good(c)
  BY <1>1 DEF Session, Action, Place, Server, Good
<1>4. Asking(c)' = Asking(c) /\ OnSearchPage(c)' = OnSearchPage(c)
  BY <1>1, <1>3 DEF Asking, OnSearchPage
<1>5. InOrder(c)' = InOrder(c)
  BY <1>1, <1>3 DEF InOrder
<1>6. AtCourse(c)' = AtCourse(c)
  BY <1>1, <1>3 DEF AtCourse
<1>7. Delivered(c)' = Delivered(c)
  BY <1>1 DEF Delivered, RightCourse, Coherent, Succeeded
<1> QED BY <1>1, <1>2, <1>4, <1>5, <1>6, <1>7 DEF Navigated

LEMMA NextNavigates ==
  ASSUME Alone, AnswersRead, FreshInv, CourseInv, Next
  PROVE  CourseInv'
<1>1. ASSUME NEW c \in Callers, Cancel(c) PROVE CourseInv'
  BY <1>1 DEF Cancel, AnswersRead
<1>2. ASSUME NEW c \in Callers, Progress(c) PROVE CourseInv'
  BY <1>2, SendNavigates, ServeNavigates, ServeErrorNavigates, LoseNavigates, WakeNavigates,
     ReceivePostNavigates, ReceiveGetNavigates, CareerAnswerNavigates, ShowCoursesNavigates,
     RowNavigates, LinkNavigates, BackNavigates DEF Progress
<1>3. CASE Rest
  <2>1. UNCHANGED vars
    BY <1>3 DEF Rest
  <2> QED BY <2>1, IdleNavigates
<1> QED BY <1>1, <1>2, <1>3, StartNavigates DEF Next

LEMMA NavigationInvariance ==
  ASSUME Alone, AnswersRead
  PROVE  Spec => []CourseInv
<1>1. Init => FreshInv /\ CourseInv
  BY InitFresh, InitNavigates
<1>2. FreshInv /\ CourseInv /\ [Next]_vars => FreshInv' /\ CourseInv'
  BY NextFresh, IdleFresh, NextNavigates, IdleNavigates, NextKeeps, IdleKeeps DEF FreshInv, Kept
<1> QED BY <1>1, <1>2, PTL DEF Spec

(* A scrape that began on the search page returns the course it was asked  *)
(* for, and so does get_course_xml unless its index is outside the list:   *)
(* every filter is applied in order, so the list is that of the career.    *)
THEOREM ScrapesRightCourse ==
  ASSUME Alone, AnswersRead
  PROVE  Spec => []ScrapedRightCourse
<1>1. CourseInv => ScrapedRightCourse
  <2> SUFFICES ASSUME CourseInv, NEW c \in Callers PROVE RightCourse(c)
    BY DEF ScrapedRightCourse, RightCourse
  <2>1. Navigated(c)
    BY DEF CourseInv
  <2>2. CASE pc[c] = "idle"
    BY <2>1, <2>2 DEF Navigated, Delivered
  <2>3. CASE pc[c] # "idle"
    BY <2>1, <2>3 DEF Navigated, Asking, RightCourse, Succeeded
  <2> QED BY <2>2, <2>3
<1> QED BY <1>1, NavigationInvariance, PTL

(* After a navigation that began on the search page and succeeded, the     *)
(* code, the name, the kind and the list of the session's career agree.    *)
THEOREM CareersAgree ==
  ASSUME Alone, AnswersRead
  PROVE  Spec => []CareerCoherent
<1>1. CourseInv => CareerCoherent
  <2> SUFFICES ASSUME CourseInv, NEW c \in Callers, pc[c] = "idle" PROVE Coherent(c)
    BY DEF CareerCoherent, Coherent, Remembers
  <2> QED BY DEF CourseInv, Navigated, Delivered
<1> QED BY <1>1, NavigationInvariance, PTL
=============================================================================
