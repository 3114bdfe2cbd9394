----------------------------- MODULE TableParser ------------------------------
(***************************************************************************)
(* get_course_list of rust/src/parsers/table_parser.rs.  A page is the     *)
(* sequence of its rows as the text has them; a row is                     *)
(*   [cells    : the texts of its data spans, trimmed,                     *)
(*    in_table : whether the HTML parser keeps it (it drops rows that      *)
(*               stand outside a table)].                                  *)
(***************************************************************************)
EXTENDS Ordering

Blank == ""

(* A row that makes an entry: two spans, the first not blank.              *)
Listable(row) == Len(row.cells) >= 2 /\ row.cells[1] # Blank

Entries(rows) ==
  LET kept == Filter(rows, Listable)
  IN  [i \in DOMAIN kept |-> [code |-> kept[i].cells[1], name |-> kept[i].cells[2]]]

InTable(row) == row.in_table

RawFirst(rows) == Entries(rows)

(* The regular expressions over the raw text apply the same rule, and only *)
(* when the document shows no course at all.                               *)
GetCourseList(rows) ==
  LET list == Entries(Filter(rows, InTable))
  IN  IF list = <<>> THEN Entries(rows) ELSE list
=============================================================================
