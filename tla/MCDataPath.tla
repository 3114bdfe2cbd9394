------------------------------ MODULE MCDataPath ------------------------------
(* Pages for DataPath, small but of every shape the parsers tell apart.    *)
EXTENDS DataPath

Label(field, case) == [kind |-> field, form |-> case, digits |-> <<>>]
Word               == [kind |-> "word", form |-> "capital", digits |-> <<>>]
Prof               == [kind |-> "prof", form |-> "capital", digits |-> <<>>]
Yes                == [kind |-> "yes", form |-> "upper", digits |-> <<>>]
Num(digits)        == [kind |-> "number", form |-> "lower", digits |-> digits]

Inline(text)       == [plain |-> text, spans |-> <<>>]
Cells(spans)       == [plain |-> NoText, spans |-> spans]

(* Tables: a blank code, a row with one cell, rows outside the table.      *)
Row(cells, in) == [cells |-> cells, in_table |-> in]
TableRows == { Row(<<"2016375", "Algebra">>, TRUE), Row(<<"2015734", "Fisica">>, TRUE),
               Row(<<"2016699", "Logica">>, FALSE), Row(<<Blank, "Total">>, TRUE),
               Row(<<"2015555">>, TRUE) }
Tables == UNION { [1..n -> TableRows] : n \in 0..3 }

(* Rows of a panel: a label with its value in spans or in the text, a      *)
(* label alone, a name to infer from, a label inside another's value.      *)
TeacherRowsMC ==
  { Cells(<< <<Label("teacher", "lower")>>, <<Word>> >>),
    Inline(<<Label("profesor", "capital"), Word>>),
    Inline(<<Label("teacher", "upper")>>),
    Cells(<< <<Label("teacher", "lower")>>, <<Label("teacher", "lower")>> >>),
    Inline(<<Label("profesor", "upper")>>),
    Inline(<<Prof>>),
    Cells(<< <<Label("faculty", "lower")>>, <<Label("profesor", "capital")>> >>) }
SpotsRows ==
  { Cells(<< <<Label("spots", "lower")>>, <<Num(<<1, 2>>)>> >>),
    Inline(<<Label("spots", "upper"), Num(<<2>>), Num(<<3>>)>>),
    Inline(<<Label("spots", "upper"), Num(<<9, 9, 9, 9>>)>>) }
OtherRow == Cells(<< <<Label("faculty", "lower")>>, <<Word>> >>)

Lunes  == [day |-> "LUNES", start |-> "07:00", end |-> "09:00"]
Martes == [day |-> "MARTES", start |-> "14:00", end |-> "16:00"]
Elements == << [times |-> <<Lunes, Martes>>, rooms |-> <<"401", "402">>],
               [times |-> <<>>, rooms |-> <<>>],
               [times |-> <<Martes>>, rooms |-> <<>>] >>

Panel(rows) == [rows |-> rows, elements |-> Elements]
Panels ==
  { <<>>, <<Panel(<<>>)>>, <<Panel(<<OtherRow>>)>> }
    \cup { <<Panel(<<OtherRow, t, s>>)>> : t \in TeacherRowsMC, s \in SpotsRows }
Groups == { [title |-> <<Word>>, panels |-> p] : p \in Panels }

Titles     == { <<>>, <<NoText>>, << <<Word>> >> }
Credits    == { <<>>, << <<Word>> >>, << <<Num(<<1, 0, 0>>)>> >>, << <<Word>>, <<Num(<<4>>)>> >> }
Typologies == <<NoText>>

CoursePages ==
  [ titles : Titles, credits : Credits, typologies : {Typologies}, groups : {<<>>} \cup [1..1 -> Groups] ]
  \cup
  [ titles : {<< <<Word>> >>}, credits : {<< <<Num(<<4>>)>> >>}, typologies : {<<>>},
    groups : [1..2 -> Groups] ]

Name(n) == << [Word EXCEPT !.digits = n] >>
Info(h, nested, siblings) ==
  [headers |-> h, nested |-> nested, siblings |-> siblings, spans |-> <<>>]
Infos ==
  { Info(3, <<>>, <<>>), Info(4, <<>>, <<>>),
    Info(4, << Name(<<2>>), <<Word>>, <<Yes>>, Name(<<3>>) >>, <<>>),
    Info(4, << Name(<<1>>) >>, << Name(<<5>>), <<>>, <<Word>>, Name(<<1, 0, 0>>) >>),
    Info(5, <<>>, << Name(<<1, 0, 0>>), <<Word>>, <<Word>> >>) }
Courses == { Info(0, <<>>, <<>>), [Info(0, <<>>, <<>>) EXCEPT !.spans = <<Name(<<7>>), <<Word>>>>] }
Conditions == { <<i>> : i \in Infos } \cup { <<i, c>> : i \in Infos, c \in Courses }

PrereqsPages ==
  [ titles : Titles, credits : {<<>>, << <<Num(<<4>>)>> >>}, typologies : {<< <<Word>> >>},
    conditions : {<<>>} \cup [1..1 -> Conditions] \cup [1..2 -> Conditions] ]

MCInputs ==
  [fn : {"table"}, build : {"collecting"}, page : Tables]
  \cup [fn : {"course"}, build : {"collecting", "fail_fast"}, page : CoursePages]
  \cup [fn : {"prereqs"}, build : {"collecting"}, page : PrereqsPages]

MCDamages ==
  [kind : {"lost", "mistyped"},
   key : {"status", "javax_faces_view_state", "javax_faces_ViewState", "course_list", "name", "code",
          "course_name", "groups", "teacher", "schedules",
          "conditions", "prerequisites", "number_of_courses"}]
=============================================================================
