-------------------------------- MODULE Models --------------------------------
(***************************************************************************)
(* The records that cross the Rust/Python boundary (rust/src/models) and   *)
(* their conversions: __getstate__ and __setstate__ of the course and      *)
(* prerequisite models, to_dict and from_dict of the session model with    *)
(* the three formats of a course entry, and PySiaSession.from_state.       *)
(*                                                                         *)
(* A dictionary is a function on its keys.  BadType is a value of a type   *)
(* no field accepts.                                                       *)
(***************************************************************************)
EXTENDS Integers, Sequences, SequencesExt, SessionModel

CONSTANT BadType

(* The fields of each model, in the order __setstate__ assigns them.       *)
ScheduleFields      == <<"day", "start_time", "end_time", "classroom">>
GroupFields         == <<"group_name", "teacher", "faculty", "course_name", "duration",
                         "schedule_type", "spots", "code", "schedules">>
CourseInfoFields    == <<"course_name", "credits", "typology", "available_spots",
                         "scrape_timestamp", "code", "groups">>
PrerequisiteFields  == <<"course_code", "course_name">>
ConditionFields     == <<"condition", "prereq_type", "all_required", "number_of_courses",
                         "prerequisites">>
CoursePrereqsFields == <<"course_name", "code", "credits", "typology", "conditions">>
CourseEntryFields   == <<"code", "name">>
SessionFields       == <<"session_headers", "session_cookies", "params",
                         "javax_faces_view_state", "career_code", "career_name",
                         "is_electives", "status", "course_list">>

FieldsOf == [
  Schedule     |-> ScheduleFields,     Group     |-> GroupFields,
  CourseInfo   |-> CourseInfoFields,   Session   |-> SessionFields,
  Prerequisite |-> PrerequisiteFields, Condition |-> ConditionFields,
  CourseEntry  |-> CourseEntryFields,  CoursePrereqs |-> CoursePrereqsFields ]

(* The last field of a model with parts is the list of them.               *)
Composite == {"Group", "CourseInfo", "Condition", "CoursePrereqs", "Session"}

Parts(class) == IF class \in Composite THEN Last(FieldsOf[class]) ELSE "none"

-----------------------------------------------------------------------------
(* __getstate__ and to_dict: a dictionary of all fields, lists made of the *)
(* dictionaries of their elements.                                         *)

StateOf(class, obj, PartState(_)) ==
  [ f \in ToSet(FieldsOf[class]) |->
      IF f = Parts(class) THEN [i \in DOMAIN obj[f] |-> PartState(obj[f][i])] ELSE obj[f] ]

NoParts(obj) == obj

ScheduleState(s)      == StateOf("Schedule", s, NoParts)
GroupState(g)         == StateOf("Group", g, ScheduleState)
CourseInfoState(c)    == StateOf("CourseInfo", c, GroupState)
PrerequisiteState(p)  == StateOf("Prerequisite", p, NoParts)
ConditionState(c)     == StateOf("Condition", c, PrerequisiteState)
CoursePrereqsState(c) == StateOf("CoursePrereqs", c, ConditionState)
CourseEntryDict(e)    == StateOf("CourseEntry", e, NoParts)
SessionDict(s)        == StateOf("Session", s, CourseEntryDict)

(* __setstate__ of a course model assigns field by field: those before one *)
(* that is missing, or of another type, stay assigned.                     *)
SetStateOf(class, obj, dict, SetPart(_)) ==
  LET fields   == FieldsOf[class]
      Fails(f) == \/ f \notin DOMAIN dict
                  \/ dict[f] = BadType
                  \/ f = Parts(class) /\ \E i \in DOMAIN dict[f] : ~SetPart(dict[f][i]).ok
      Read(f)  == IF f = Parts(class) THEN [i \in DOMAIN dict[f] |-> SetPart(dict[f][i]).model]
                  ELSE dict[f]
      assigned == { i \in DOMAIN fields : \A j \in 1..i : ~Fails(fields[j]) }
  IN  IF dict = BadType THEN [ok |-> FALSE, model |-> obj]
      ELSE [ ok    |-> assigned = DOMAIN fields,
             model |-> [ f \in ToSet(fields) |->
                           IF \E i \in assigned : fields[i] = f THEN Read(f) ELSE obj[f] ] ]

Empty(class) == [f \in ToSet(FieldsOf[class]) |-> <<>>]

SetScheduleState(d)  == SetStateOf("Schedule", Empty("Schedule"), d, NoParts)
SetGroupState(d)     == SetStateOf("Group", Empty("Group"), d, SetScheduleState)
SetCourseInfoState(obj, d) == SetStateOf("CourseInfo", obj, d, SetGroupState)
SetPrerequisiteState(d) == SetStateOf("Prerequisite", Empty("Prerequisite"), d, NoParts)
SetConditionState(d) == SetStateOf("Condition", Empty("Condition"), d, SetPrerequisiteState)
SetCoursePrereqsState(obj, d) == SetStateOf("CoursePrereqs", obj, d, SetConditionState)

-----------------------------------------------------------------------------
(* normalize_course_dict: the current and the older key are looked for     *)
(* field by field, then the one-entry form.                                *)

CurrentKeyOnly(d, current, legacy) == IF current \in DOMAIN d THEN current ELSE "none"

KeyFor(d, current, legacy) ==
  IF current \in DOMAIN d THEN current ELSE IF legacy \in DOMAIN d THEN legacy ELSE "none"

NamedKeys == {"code", "name", "course_code", "course_name"}

Unreadable == [ok |-> FALSE]

WarnsForBoth(code, name) == code = "course_code" /\ name = "course_name"

Legacy(code, name) == code = "course_code" \/ name = "course_name"

NormalizeCourseDict(d) ==
  IF d = BadType THEN Unreadable
  ELSE LET code   == KeyFor(d, "code", "course_code")
           name   == KeyFor(d, "name", "course_name")
           single == CHOOSE k \in DOMAIN d : TRUE
       IN  IF "none" \notin {code, name}
             THEN [ ok |-> BadType \notin {d[code], d[name]}, legacy |-> Legacy(code, name),
                    entry |-> [code |-> d[code], name |-> d[name]] ]
           ELSE IF DOMAIN d = {single} /\ single \notin NamedKeys
             THEN [ ok |-> d[single] # BadType, legacy |-> TRUE,
                    entry |-> [code |-> single, name |-> d[single]] ]
           ELSE Unreadable

NoViewState == "None"

(* SessionStateModel::from_dict.  strict: warnings are errors, so that the *)
(* first deprecated key ends the call.  The token is optional.             *)
FromDict(d, strict) ==
  LET token    == KeyFor(d, "javax_faces_view_state", "javax_faces_ViewState")
      required == ToSet(FieldsOf.Session) \ {"javax_faces_view_state"}
      read     == [i \in DOMAIN d["course_list"] |-> NormalizeCourseDict(d["course_list"][i])]
      older    == \/ token = "javax_faces_ViewState"
                  \/ \E i \in DOMAIN read : read[i].legacy
      ok       == /\ \A f \in required : f \in DOMAIN d /\ d[f] # BadType
                  /\ token # "none" => d[token] # BadType
                  /\ \A i \in DOMAIN read : read[i].ok
                  /\ ~(strict /\ older)
  IN  IF ~ok THEN Unreadable
      ELSE [ ok |-> TRUE, warned |-> older,
             model |-> [ f \in ToSet(FieldsOf.Session) |->
                           CASE f = "course_list" -> [i \in DOMAIN read |-> read[i].entry]
                             [] f = "javax_faces_view_state" ->
                                  IF token = "none" THEN NoViewState ELSE d[token]
                             [] OTHER -> d[f] ] ]

(* The session model and the state of a Rust session hold the same fields. *)
FromSessionState(state)  == [state EXCEPT !["status"] = NormalizeStatus(@)]
IntoSessionState(model)  == [model EXCEPT !["status"] = DenormalizeStatus(@)]

(* PySiaSession.from_state: the state of a new session.                    *)
FromState(data, strict) ==
  IF "state_dict" \notin DOMAIN data \/ data["state_dict"] = BadType THEN Unreadable
  ELSE LET read == FromDict(data["state_dict"], strict)
       IN  IF read.ok THEN [read EXCEPT !.model = IntoSessionState(@)] ELSE Unreadable
=============================================================================
