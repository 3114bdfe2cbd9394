------------------------------ MODULE AdfServer ------------------------------
(***************************************************************************)
(* The Oracle ADF catalog (SIA) as the client's code relies on it; nothing *)
(* under the repository implements it.  One user session, identified by    *)
(* the cookie, holds a page, the filters applied to it and the token       *)
(* (javax.faces.ViewState) of that page.  Each answer that carries a page  *)
(* carries a new token.  A request with an older token, or for the page    *)
(* that is not shown, acts on stale components (docs/QUIRKS.md, 1): its    *)
(* answer can show anything.                                               *)
(***************************************************************************)
EXTENDS Integers, Sequences

CONSTANTS
  Codes,            (* the career codes callers use                         *)
  FourParts,        (* those with the shape a-b-c-d                         *)
  NumericCareer,    (* those whose fourth part parses as usize              *)
  NumericCampus,    (* those whose second part parses as i32                *)
  ListLengths,      (* per code: lengths of the course lists answered       *)
  Unnamed           (* codes whose entry in the list of careers may be      *)
                    (* missing or blank                                     *)

NoToken  == 0
NoCode   == ""
NotAvailable == "N/A"
NoCourse == [career |-> NoCode, index |-> -1]
NoList   == [career |-> NoCode, len |-> 0]

ASSUME CodesAssumption ==
  /\ NumericCareer \subseteq FourParts
  /\ NumericCampus \subseteq FourParts
  /\ FourParts \subseteq Codes
  /\ NoCode \notin Codes /\ NotAvailable \notin Codes
  /\ Unnamed \subseteq NumericCareer
  /\ ListLengths \in [FourParts -> SUBSET Nat]

(* set_career's action_sequence                                            *)
CareerActions(electives) ==
  <<"STUDY_LEVEL_DD", "CAMPUS_DD", "FACULTY_DD", "CAREER_DD", "TIPOLOGY_DD">>
    \o (IF electives THEN <<"FACULTY_CAREER_DD", "CAMPUS_ELECTIVES_DD">> ELSE <<>>)
    \o <<"SHOW_COURSES_BTTN">>

CourseActions == <<"SELECT_ROW", "COURSE_PAGE_LINK", "BACK_BTTN">>

InitialServer ==
  [ token |-> NoToken,          \* the one valid token
    page  |-> "search",         \* search | course
    code  |-> NoCode,           \* the career being selected
    electives |-> FALSE,
    depth |-> 0,                \* how many filters are applied, in order
    list  |-> NoList ]          \* the table shown

Lists(code) == [career : {code}, len : ListLengths[code]]

(* What the client reads at a code's place in the list of careers: a name  *)
(* is the code it belongs to.                                              *)
Names(code) == {code} \cup (IF code \in Unnamed THEN {NotAvailable} ELSE {})
AnyName     == NumericCareer \cup {NotAvailable}

AnyList     == {NoList} \cup UNION { Lists(code) : code \in FourParts }
AnyCourse   == {NoCourse} \cup { [career |-> l.career, index |-> l.len - 1] : l \in AnyList }

(* The request is for the page as the server shows it now.                 *)
Current(srv, req) ==
  /\ req.token = srv.token
  /\ (req.action = "BACK_BTTN") <=> (srv.page = "course")

NextInSequence(srv, req) ==
  LET actions == CareerActions(req.electives)
  IN  \/ req.action = actions[1]
      \/ /\ srv.code = req.code
         /\ srv.electives = req.electives
         /\ srv.depth < Len(actions)
         /\ req.action = actions[srv.depth + 1]

Rotated(srv) == [srv EXCEPT !.token = @ + 1]

(* A filter, applied in the order the page enforces; out of order it is    *)
(* lost and so are the filters before it.                                  *)
Filtered(srv, req) ==
  IF NextInSequence(srv, req)
    THEN [Rotated(srv) EXCEPT !.code = req.code,
                              !.electives = req.electives,
                              !.depth = IF req.action = "STUDY_LEVEL_DD" THEN 1 ELSE @ + 1]
    ELSE [Rotated(srv) EXCEPT !.depth = 0]

(* The tables a current request can leave on the page.                     *)
ListsAfter(srv, req) ==
  IF req.action # "SHOW_COURSES_BTTN" THEN {srv.list}
  ELSE IF NextInSequence(srv, req) THEN Lists(req.code)
  ELSE AnyList

(* The faculty's answer brings the list of its careers.                    *)
NamesAfter(srv, req) ==
  IF req.action # "FACULTY_DD" THEN {NotAvailable}
  ELSE IF NextInSequence(srv, req) THEN Names(req.code)
  ELSE AnyName

OpenedCourse(srv, req) ==
  IF 0 <= req.index /\ req.index < srv.list.len
    THEN [career |-> srv.list.career, index |-> req.index]
    ELSE NoCourse

(* The server's state and its answer after a request it acted on.          *)
Processed(srv, req) ==
  IF req.action = "GET" THEN
    { [srv |-> [InitialServer EXCEPT !.token = srv.token + 1],
       list |-> NoList, name |-> NotAvailable, course |-> NoCourse] }
  ELSE IF ~Current(srv, req) THEN
    { [srv |-> Rotated(srv), list |-> l, name |-> n, course |-> c] :
        l \in IF req.action = "SHOW_COURSES_BTTN" THEN AnyList ELSE {NoList},
        n \in IF req.action = "FACULTY_DD" THEN AnyName ELSE {NotAvailable},
        c \in IF req.action = "COURSE_PAGE_LINK" THEN AnyCourse ELSE {NoCourse} }
  ELSE IF req.action = "BACK_BTTN" THEN
    { [srv |-> [Rotated(srv) EXCEPT !.page = "search"],
       list |-> srv.list, name |-> NotAvailable, course |-> NoCourse] }
  ELSE IF req.action = "SELECT_ROW" THEN
    { [srv |-> Rotated(srv), list |-> srv.list, name |-> NotAvailable, course |-> NoCourse] }
  ELSE IF req.action = "COURSE_PAGE_LINK" THEN
    LET course == OpenedCourse(srv, req)
    IN  { [srv |-> [Rotated(srv) EXCEPT !.page = IF course = NoCourse THEN "search" ELSE "course"],
           list |-> NoList, name |-> NotAvailable, course |-> course] }
  ELSE
    { [srv |-> [Filtered(srv, req) EXCEPT !.list = l], list |-> l, name |-> n, course |-> NoCourse] :
        l \in ListsAfter(srv, req), n \in NamesAfter(srv, req) }
=============================================================================
