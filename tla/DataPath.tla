------------------------------- MODULE DataPath -------------------------------
(***************************************************************************)
(* The way of the data, from the page to what a later program reads back:  *)
(* a page is parsed (CourseParser), the model is stored as a dictionary,   *)
(* by this version, through JSON, or in the forms earlier versions wrote,  *)
(* the store may be damaged, and the dictionary is loaded into an object   *)
(* that held something else, or into a new session (Models).               *)
(***************************************************************************)
EXTENDS CourseParser, Models

CONSTANTS
  Tokens,           (* the tokens a session may hold, NoViewState among them *)
  Forms,            (* the forms of stored data, see StoredEntry            *)
  Damages,          (* keys that are lost, or hold a value of a wrong type  *)
  Old               (* what the object held before                          *)

ASSUME StoreAssumption ==
  /\ Forms \subseteq {"dict", "json", "named", "mixed"}
  /\ \A dm \in Damages : dm.kind \in {"lost", "mistyped"}

VARIABLES
  stage,            (* parsing | stored | loaded                            *)
  token,            (* the session's token                                  *)
  form,             (* the form of the stored data                          *)
  damage,           (* [kind, key]                                          *)
  stored,           (* the dictionary                                       *)
  held,             (* the object loaded into                               *)
  outcome           (* none | silent | warned | restored | error | refused  *)

store_vars == <<stage, token, form, damage, stored, held, outcome>>
vars == <<input, pc, at, items, errors, result, stage, token, form, damage, stored, held, outcome>>

Nothing == <<>>
Intact  == [kind |-> "none", key |-> "none"]

Class ==
  CASE input.fn = "table"   -> "Session"
    [] input.fn = "course"  -> "CourseInfo"
    [] input.fn = "prereqs" -> "CoursePrereqs"

Before == [f \in ToSet(FieldsOf[Class]) |-> Old]

(* The session in whose course list the table ends (set_career).           *)
SessionState ==
  [ f \in ToSet(FieldsOf.Session) |->
      CASE f = "course_list" -> result.model
        [] f = "javax_faces_view_state" -> token
        [] f = "status" -> "ON_CAREER_PAGE"
        [] OTHER -> f ]

Saved == IF Class = "Session" THEN FromSessionState(SessionState) ELSE result.model

DataInit ==
  /\ Init
  /\ stage = "parsing"
  /\ token \in IF input.fn = "table" THEN Tokens ELSE {NoViewState}
  /\ form = "none" /\ damage = Intact
  /\ stored = Nothing /\ held = Nothing /\ outcome = "none"

Parse == ParserStep /\ UNCHANGED store_vars

-----------------------------------------------------------------------------
(* A course entry as the earlier versions wrote it.                        *)
OlderEntry(e, older) ==
  CASE older = "named"  -> [course_code |-> e.code, course_name |-> e.name]
    [] older = "half"   -> [code |-> e.code, course_name |-> e.name]
    [] older = "single" -> [k \in {e.code} |-> e.name]

RenamedToken(d) ==
  [ k \in (DOMAIN d \ {"javax_faces_view_state"}) \cup {"javax_faces_ViewState"} |->
      IF k = "javax_faces_ViewState" THEN d["javax_faces_view_state"] ELSE d[k] ]

MixedEntry(e, i) == OlderEntry(e, IF i % 2 = 0 THEN "single" ELSE "half")

WithEntries(d, entries) == [d EXCEPT !["course_list"] = entries]

(* JSON keeps the older key of the token (models/session.rs:324).          *)
StoredAs(f) ==
  CASE f = "dict" /\ Class = "Session"       -> SessionDict(Saved)
    [] f = "dict" /\ Class = "CourseInfo"    -> CourseInfoState(Saved)
    [] f = "dict" /\ Class = "CoursePrereqs" -> CoursePrereqsState(Saved)
    [] f = "json"  -> RenamedToken(SessionDict(Saved))
    [] f = "named" ->
         LET list == Saved["course_list"]
         IN  RenamedToken(WithEntries(SessionDict(Saved),
                                      [i \in DOMAIN list |-> OlderEntry(list[i], "named")]))
    [] f = "mixed" ->
         LET list == Saved["course_list"]
         IN  WithEntries(SessionDict(Saved), [i \in DOMAIN list |-> MixedEntry(list[i], i)])

Without(d, key)  == [k \in DOMAIN d \ {key} |-> d[k]]
Mistyped(d, key) == [d EXCEPT ![key] = BadType]

Damaged(d, dm) ==
  CASE dm.kind = "lost"     -> Without(d, dm.key)
    [] dm.kind = "mistyped" -> Mistyped(d, dm.key)
    [] OTHER                -> d

(* Damage is to the dictionary, or to the last element of its list.        *)
DamagedIn(d, dm) ==
  LET list == d[Parts(Class)]
  IN  IF dm = Intact \/ dm.key \in DOMAIN d THEN Damaged(d, dm)
      ELSE [d EXCEPT ![Parts(Class)] = [list EXCEPT ![Len(list)] = Damaged(@, dm)]]

Applies(d, dm) ==
  LET list == d[Parts(Class)]
  IN  \/ dm = Intact
      \/ dm.key \in DOMAIN d
      \/ list # <<>> /\ dm.key \in DOMAIN Last(list)

Store ==
  /\ stage = "parsing" /\ pc = "done" /\ result.kind = "ok"
  /\ \E f \in IF Class = "Session" THEN Forms ELSE {"dict"} :
       LET dict == StoredAs(f)
       IN  \E dm \in Damages \cup {Intact} :
             /\ Applies(dict, dm)
             /\ form' = f /\ damage' = dm
             /\ stored' = DamagedIn(dict, dm)
  /\ stage' = "stored"
  /\ held' = Before
  /\ UNCHANGED <<token, outcome>>
  /\ UNCHANGED parser_vars

-----------------------------------------------------------------------------
(* Loading: __setstate__ of the three models, from_state of a session.     *)

Ended(object, how) ==
  /\ stage = "stored" /\ stage' = "loaded"
  /\ held' = object /\ outcome' = how
  /\ UNCHANGED <<token, form, damage, stored>>
  /\ UNCHANGED parser_vars

Emptied(read) == IF read.ok THEN read.model ELSE [held EXCEPT !["course_list"] = <<>>]

(* SessionStateModel.__setstate__: nothing is assigned before all is read; *)
(* a deprecated form warns.                                                *)
Replaced(read) == IF read.ok THEN read.model ELSE held

SetSession(strict) ==
  LET read == FromDict(stored, strict)
  IN  /\ Class = "Session"
      /\ Ended(Replaced(read), IF ~read.ok THEN "error" ELSE IF read.warned THEN "warned" ELSE "silent")

(* from_state makes a session of its own; on an error there is none.       *)
RestoreSession(strict) ==
  LET data == [timeout |-> 60, state_dict |-> stored]
  IN  /\ Class = "Session"
      /\ \E d \in {data, Without(data, "state_dict"), Mistyped(data, "state_dict")} :
           LET read == FromState(d, strict)
           IN  IF read.ok THEN Ended(read.model, "restored") ELSE Ended(held, "refused")

SetCourse ==
  LET read == IF Class = "CourseInfo" THEN SetCourseInfoState(held, stored)
              ELSE SetCoursePrereqsState(held, stored)
  IN  /\ Class # "Session"
      /\ Ended(read.model, IF read.ok THEN "silent" ELSE "error")

Rest ==
  /\ stage = "loaded" \/ (pc = "done" /\ result.kind = "err")
  /\ UNCHANGED vars

Next ==
  \/ Parse \/ Store \/ SetCourse
  \/ \E strict \in BOOLEAN : SetSession(strict) \/ RestoreSession(strict)
  \/ Rest

Spec == DataInit /\ [][Next]_vars

-----------------------------------------------------------------------------
(* The token, under either key, is the one field a stored session may do   *)
(* without.                                                                *)
Expected ==
  IF damage.key \in {"javax_faces_view_state", "javax_faces_ViewState"} THEN [Saved EXCEPT !["javax_faces_view_state"] = NoViewState]
  ELSE Saved

(* What is loaded is what was stored, through every form and every level   *)
(* of lists, and a restored session is the state that was saved, status    *)
(* names included.                                                         *)
LoadedIsStored ==
  /\ outcome \in {"silent", "warned"} => held = Expected
  /\ outcome = "restored" => held = IntoSessionState(Expected)

(* A load that fails never leaves part of a list: the courses, groups or   *)
(* conditions of before are still there, and so is everything else of a    *)
(* session.                                                                *)
FailedLoadKeepsLists ==
  outcome \in {"error", "refused"} =>
    /\ held[Parts(Class)] = Old
    /\ Class = "Session" => held = Before

(* What this version's to_dict wrote loads in silence; whoever keeps data  *)
(* in an older form is told (models/session.rs:254), JSON included, which  *)
(* names the token in the older way.                                       *)
OlderFormsWarn ==
  outcome \in {"silent", "warned"} /\ Class = "Session" =>
    (outcome = "warned" <=>
       \/ form \in {"json", "named"} /\ "javax_faces_ViewState" \in DOMAIN stored
       \/ form \in {"named", "mixed"} /\ result.model # <<>>)

(* A scrape selects a row by the position of its course in the list that   *)
(* was loaded (table_parser.rs:144): until a row of the table is left out, *)
(* that is the course's own row.                                           *)
PositionIsRow ==
  LET shown == Filter(Page, InTable)
      before(i) == \A j \in 1..i : Listable(shown[j])
  IN  input.fn = "table" /\ outcome \in {"silent", "warned", "restored"} =>
        \A i \in DOMAIN shown :
          before(i) => /\ i <= Len(held["course_list"])
                       /\ held["course_list"][i].code = shown[i].cells[1]
=============================================================================
