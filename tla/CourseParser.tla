----------------------------- MODULE CourseParser -----------------------------
(***************************************************************************)
(* parse_course_model and parse_prereqs_model of                           *)
(* rust/src/parsers/course_parser.rs, one step for the head of the page    *)
(* and one per group or condition, in both builds of the crate:            *)
(* "collecting" (feature full-error-collection, the default) and           *)
(* "fail_fast".  get_course_list is the third function a page goes to.     *)
(*                                                                         *)
(* A text is a sequence of words, each                                     *)
(*   [kind   : a field whose label it is | "profesor" | "prof" | "word"    *)
(*             | "number" | "yes",                                         *)
(*    form   : "lower" | "upper" | "capital",                              *)
(*    digits : the digits in it].                                          *)
(* "profesor" stands for the Spanish labels of a teacher, "prof" is a word *)
(* with prof in it and no whole label.  A row is                           *)
(* [plain : the text outside its spans, spans : the texts of its spans].   *)
(***************************************************************************)
EXTENDS TableParser, SequencesExt

CONSTANTS
  Inputs,           (* [fn, build, page]: the calls that are examined       *)
  MaxI32, MaxI64    (* the largest values of the two integer types          *)

ASSUME WidthAssumption == MaxI32 \in Nat /\ MaxI64 \in Nat /\ MaxI32 <= MaxI64

IsSequence(s) == s \in Seq(ToSet(s))

ArePanelRows(rows) ==
  /\ IsSequence(rows)
  /\ \A row \in ToSet(rows) :
       IsSequence(row.plain) /\ IsSequence(row.spans) /\ \A text \in ToSet(row.spans) : IsSequence(text)

ASSUME InputsAssumption ==
  \A in \in Inputs :
    /\ in.fn \in {"table", "course", "prereqs"}
    /\ in.build \in {"collecting", "fail_fast"}
    /\ in.fn = "table" => IsSequence(in.page)
    /\ in.fn = "course" =>
         /\ IsSequence(in.page.groups)
         /\ \A group \in ToSet(in.page.groups) :
              group.panels # <<>> => /\ ArePanelRows(Head(group.panels).rows)
                                     /\ IsSequence(Head(group.panels).elements)
    /\ in.fn = "prereqs" =>
         /\ IsSequence(in.page.conditions)
         /\ \A condition \in ToSet(in.page.conditions) : IsSequence(condition)

VARIABLES
  input,            (* the call                                             *)
  pc,               (* head | items | done                                  *)
  at,               (* the group or condition looked at next                *)
  items,            (* groups, or conditions                                *)
  errors,           (* the fields that could not be read                    *)
  result

parser_vars == <<input, pc, at, items, errors, result>>

NoText  == <<>>
NoSpots == -1
Pending == [kind |-> "none"]

-----------------------------------------------------------------------------
(* Texts and numbers.                                                      *)

Unknown == << [kind |-> "word", form |-> "capital", digits |-> <<>>] >>

OrUnknown(text) == IF text = NoText THEN Unknown ELSE text

Digits(text)  == FlattenSeq([i \in DOMAIN text |-> text[i].digits])
Number(digits) == FoldLeft(LAMBDA n, d : 10 * n + d, 0, digits)

(* text.parse::<i32>(): the whole text has to be a number.                 *)
IsI32(text) ==
  Len(text) = 1 /\ text[1].kind = "number" /\ Number(text[1].digits) <= MaxI32

(* parse_condition_number, parse_number_of_courses: the digits, wherever   *)
(* they stand in the text.                                                 *)
Overflows(text) == Number(Digits(text)) > MaxI32

AllRequired(text) == Len(text) = 1 /\ text[1].kind = "yes"

NormalizeType(text) ==
  [i \in DOMAIN OrUnknown(text) |-> [OrUnknown(text)[i] EXCEPT !.form = "upper"]]

(* i64 addition of a release build.                                        *)
Wrapped(n) == ((n + MaxI64 + 1) % (2 * (MaxI64 + 1))) - (MaxI64 + 1)

-----------------------------------------------------------------------------
(* The fields of a group, found by the labels in front of them.            *)

Text(row) == row.plain \o FlattenSeq(row.spans)

Mentions(text, kinds) == \E i \in DOMAIN text : text[i].kind \in kinds

LabelsOf(field) == IF field = "teacher" THEN {"teacher", "profesor"} ELSE {field}

(* str::replace of the labels in lower and in upper case: a capitalised    *)
(* label stays.                                                            *)
WithoutLabels(text, field) ==
  Filter(text, LAMBDA w : w.kind \notin LabelsOf(field) \/ w.form = "capital")

LastSpan(row) == IF Len(row.spans) >= 2 THEN Last(row.spans) ELSE NoText

ValueIn(row, field) ==
  IF LastSpan(row) # NoText THEN LastSpan(row) ELSE WithoutLabels(Text(row), field)

Labelled(rows, field) ==
  { i \in DOMAIN rows : Mentions(Text(rows[i]), LabelsOf(field)) /\ ValueIn(rows[i], field) # NoText }

(* The inference for a teacher without a label's value: the whole row,     *)
(* the label "teacher" alone not counting.                                 *)
TeacherRows(rows) == { i \in DOMAIN rows : Mentions(Text(rows[i]), {"profesor", "prof"}) }

ExtractValue(rows, field) ==
  IF Labelled(rows, field) # {}
    THEN ValueIn(rows[Min(Labelled(rows, field))], field)
  ELSE IF field = "teacher" /\ TeacherRows(rows) # {}
    THEN Text(rows[Min(TeacherRows(rows))])
  ELSE NoText

(* Elements without a recognised time are passed over; of several times in *)
(* one element the first counts.                                           *)
ExtractSchedules(elements) ==
  LET timed == Filter(elements, LAMBDA e : e.times # <<>>)
  IN  [i \in DOMAIN timed |->
         [day |-> Head(timed[i].times).day, start_time |-> Head(timed[i].times).start,
          end_time |-> Head(timed[i].times).end,
          classroom |-> IF timed[i].rooms = <<>> THEN Blank ELSE Last(timed[i].rooms)]]

ExtractSpots(rows) ==
  LET digits == Digits(ExtractValue(rows, "spots"))
  IN  IF digits = <<>> \/ Number(digits) > MaxI64 THEN NoSpots ELSE Number(digits)

TeacherOptional(group) == IF group.panels = <<>> THEN <<"group_panel">> ELSE <<>>

GroupErrors(group) ==
  IF group.panels = <<>> THEN <<"group_panel">>
  ELSE IF ExtractValue(Head(group.panels).rows, "teacher") = NoText THEN <<"teacher">>
  ELSE <<>>

GroupModel(group, course_name) ==
  LET panel == Head(group.panels)
  IN  [ group_name    |-> OrUnknown(group.title),
        teacher       |-> ExtractValue(panel.rows, "teacher"),
        faculty       |-> OrUnknown(ExtractValue(panel.rows, "faculty")),
        course_name   |-> course_name,
        schedules     |-> ExtractSchedules(panel.elements),
        duration      |-> OrUnknown(ExtractValue(panel.rows, "duration")),
        schedule_type |-> OrUnknown(ExtractValue(panel.rows, "schedule_type")),
        spots         |-> ExtractSpots(panel.rows),
        code          |-> NoText ]

(* Sum of the spots that were read.                                        *)
AvailableSpots(groups) ==
  Wrapped(FoldLeft(LAMBDA n, g : IF g.spots = NoSpots THEN n ELSE n + g.spots, 0, groups))

-----------------------------------------------------------------------------
(* A condition is a sequence of divs, the first of which describes it:     *)
(*   [headers : how many, nested : the texts of the spans inside the first *)
(*    header's span, siblings : those after the header spans,              *)
(*    spans : the texts of a prerequisite's spans].                        *)

RequiredPrereqHeaders == 4

Skipped(condition) == Len(condition) < 2

HeaderValue(info, i) ==
  LET values == IF Len(info.nested) < info.headers THEN info.siblings ELSE info.nested
  IN  IF i <= Len(values) THEN values[i] ELSE NoText

TooFewHeaders(condition) == condition[1].headers < RequiredPrereqHeaders

Prerequisites(divs) ==
  LET named == Filter(divs, LAMBDA d : Len(d.spans) >= 2)
  IN  [i \in DOMAIN named |->
         [course_code |-> named[i].spans[1], course_name |-> named[i].spans[2]]]

ConditionModel(condition) ==
  LET info == condition[1]
  IN  [ condition         |-> Number(Digits(HeaderValue(info, 1))),
        prereq_type       |-> NormalizeType(HeaderValue(info, 2)),
        all_required      |-> AllRequired(HeaderValue(info, 3)),
        number_of_courses |-> Number(Digits(HeaderValue(info, 4))),
        prerequisites     |-> Prerequisites(Tail(condition)) ]

-----------------------------------------------------------------------------
Page       == input.page
Collecting == input.fn = "course" /\ input.build = "collecting"

(* A title that is there but empty is refused by one build only.           *)
TitleErrors ==
  IF Page.titles = <<>> \/ (Collecting /\ Head(Page.titles) = NoText)
    THEN <<"course_name">> ELSE <<>>

CreditsErrors ==
  IF Page.credits = <<>> \/ ~IsI32(Last(Page.credits)) THEN <<"credits">> ELSE <<>>

HeadErrors ==
  LET all == TitleErrors \o CreditsErrors
  IN  IF Collecting \/ all = <<>> THEN all ELSE <<Head(all)>>

Typology == IF Page.typologies = <<>> THEN Unknown ELSE OrUnknown(Last(Page.typologies))

Course(name, its) ==
  [ course_name |-> name, credits |-> Number(Last(Page.credits)[1].digits),
    typology |-> Typology, groups |-> its, available_spots |-> AvailableSpots(its),
    scrape_timestamp |-> NoText, code |-> NoText ]

Prereqs(name, its) ==
  [ course_name |-> name, credits |-> Number(Last(Page.credits)[1].digits),
    typology |-> Typology, conditions |-> its, code |-> NoText ]

Finish(r) == result' = r /\ pc' = "done"

Refuse(es) == Finish([kind |-> "err", errors |-> es])

Init ==
  /\ input \in Inputs
  /\ pc = "head"
  /\ at = 1
  /\ items = <<>>
  /\ errors = <<>>
  /\ result = Pending

ReadTable ==
  /\ pc = "head" /\ input.fn = "table"
  /\ Finish([kind |-> "ok", model |-> GetCourseList(Page)])
  /\ UNCHANGED <<input, at, items, errors>>

ReadHead ==
  /\ pc = "head" /\ input.fn # "table"
  /\ IF HeadErrors = <<>>
       THEN pc' = "items" /\ UNCHANGED result
       ELSE Refuse(HeadErrors)
  /\ UNCHANGED <<input, at, items, errors>>

DropsBadGroup ==
  /\ at' = at + 1
  /\ items' = IF GroupErrors(Page.groups[at]) = <<>>
                THEN Append(items, GroupModel(Page.groups[at], Head(Page.titles)))
                ELSE items
  /\ UNCHANGED <<input, pc, errors, result>>

StopsAtBadGroup ==
  /\ at' = at + 1
  /\ IF GroupErrors(Page.groups[at]) = <<>>
       THEN /\ items' = Append(items, GroupModel(Page.groups[at], Head(Page.titles)))
            /\ UNCHANGED <<pc, errors, result>>
       ELSE /\ Refuse(GroupErrors(Page.groups[at]))
            /\ UNCHANGED <<items, errors>>
  /\ UNCHANGED input

(* extract_groups goes on after an error, in both builds.                  *)
TryGroup ==
  /\ at' = at + 1
  /\ IF GroupErrors(Page.groups[at]) = <<>>
       THEN /\ items' = Append(items, GroupModel(Page.groups[at], Head(Page.titles)))
            /\ UNCHANGED errors
       ELSE /\ errors' = errors \o GroupErrors(Page.groups[at])
            /\ UNCHANGED items
  /\ UNCHANGED <<input, pc, result>>

ReadGroup ==
  /\ pc = "items" /\ input.fn = "course" /\ at <= Len(Page.groups)
  /\ TryGroup

(* A number too large for an i32 ends the call at once; too few headers    *)
(* are remembered; a condition of one div is passed over.                  *)
ReadCondition ==
  LET condition == Page.conditions[at]
      number(i) == HeaderValue(condition[1], i)
  IN  /\ pc = "items" /\ input.fn = "prereqs" /\ at <= Len(Page.conditions)
      /\ at' = at + 1
      /\ \/ /\ Skipped(condition)
            /\ UNCHANGED <<pc, items, errors, result>>
         \/ /\ ~Skipped(condition) /\ TooFewHeaders(condition)
            /\ errors' = Append(errors, "prereq_headers")
            /\ UNCHANGED <<pc, items, result>>
         \/ /\ ~Skipped(condition) /\ ~TooFewHeaders(condition)
            /\ \/ /\ Overflows(number(1))
                  /\ Refuse(<<"condition">>)
                  /\ UNCHANGED items
               \/ /\ ~Overflows(number(1)) /\ Overflows(number(4))
                  /\ Refuse(<<"number_of_courses">>)
                  /\ UNCHANGED items
               \/ /\ ~Overflows(number(1)) /\ ~Overflows(number(4))
                  /\ items' = Append(items, ConditionModel(condition))
                  /\ UNCHANGED <<pc, result>>
            /\ UNCHANGED errors
      /\ UNCHANGED input

PageItems == IF input.fn = "course" THEN Page.groups ELSE Page.conditions

Conclude ==
  /\ pc = "items" /\ at > Len(PageItems)
  /\ IF errors # <<>> THEN Refuse(errors)
     ELSE Finish([kind |-> "ok",
                  model |-> IF input.fn = "course" THEN Course(Head(Page.titles), items)
                            ELSE Prereqs(Head(Page.titles), items)])
  /\ UNCHANGED <<input, at, items, errors>>

ParserStep == ReadTable \/ ReadHead \/ ReadGroup \/ ReadCondition \/ Conclude

-----------------------------------------------------------------------------
(* A field is looked for over the whole panel, and a teacher may be        *)
(* inferred: what is refused in the end is a group in which nothing names  *)
(* one, or only the English label without a value.  The last of several    *)
(* spans is a value whatever it says, the label itself included.           *)
NamesTeacher(row) ==
  \/ Mentions(Text(row), {"profesor", "prof"})
  \/ /\ Mentions(Text(row), {"teacher"})
     /\ \/ LastSpan(row) # NoText
        \/ \E i \in DOMAIN Text(row) :
             Text(row)[i].kind # "teacher" \/ Text(row)[i].form = "capital"

ReadableGroup(group) ==
  /\ group.panels # <<>>
  /\ \E i \in DOMAIN Head(group.panels).rows : NamesTeacher(Head(group.panels).rows[i])

ReadableCondition(condition) ==
  /\ ~TooFewHeaders(condition)
  /\ \A i \in {1, 4} : ~Overflows(HeaderValue(condition[1], i))

(* The parser looks at no block of fewer than two divs.                    *)
Passes(condition) == Skipped(condition) \/ ReadableCondition(condition)

ReadableHead ==
  /\ Page.titles # <<>>
  /\ Collecting => Head(Page.titles) # NoText
  /\ Page.credits # <<>> /\ IsI32(Last(Page.credits))

ExaminedReadable ==
  input.fn # "table" =>
    /\ ReadableHead
    /\ IF input.fn = "course" THEN \A i \in DOMAIN Page.groups : ReadableGroup(Page.groups[i])
       ELSE \A i \in DOMAIN Page.conditions : Passes(Page.conditions[i])

(* A page is accepted exactly when its head, every group and every         *)
(* condition of two divs or more can be read: none of these that cannot be *)
(* read is passed over, none that can be read refuses the page, and the two*)
(* builds differ in the empty title only (course_parser.rs:468 and 501).   *)
(* Of the blocks with fewer divs, which the parser passes over unread, it  *)
(* says only that they refuse nothing: see InsufficientHeadersFail.        *)
AcceptedIffExaminedReadable ==
  pc = "done" => (result.kind = "ok" <=> ExaminedReadable)

(* What is accepted is complete and in order: one group per group of the   *)
(* page, each with its own values and the course's name, and one condition *)
(* per block with a prerequisite (course_parser.rs:447 and 600).           *)
NothingLost ==
  pc = "done" /\ result.kind = "ok" /\ input.fn # "table" =>
    IF input.fn = "course"
      THEN /\ Len(result.model.groups) = Len(Page.groups)
           /\ \A i \in DOMAIN Page.groups :
                result.model.groups[i] = GroupModel(Page.groups[i], result.model.course_name)
      ELSE LET blocks(n) == Cardinality({ j \in 1..n : ~Skipped(Page.conditions[j]) })
           IN  /\ Len(result.model.conditions) = blocks(Len(Page.conditions))
               /\ \A i \in DOMAIN Page.conditions :
                    ~Skipped(Page.conditions[i]) =>
                      result.model.conditions[blocks(i)] = ConditionModel(Page.conditions[i])

(* A refusal for its groups names each group that cannot be read, in the   *)
(* fail-fast build too (extract_groups, course_parser.rs:442).             *)
EveryBadGroupNamed ==
  pc = "done" /\ result.kind = "err" /\ input.fn = "course" /\ HeadErrors = <<>> =>
    Len(result.errors) =
      Cardinality({ i \in DOMAIN Page.groups : ~ReadableGroup(Page.groups[i]) })
-----------------------------------------------------------------------------
(* What the repository says of the program and the program does not do.    *)

(* docs/MIGRATION_v2.md:19, "Prerequisite conditions with insufficient     *)
(* headers now fail parsing": no accepted page has a condition, of however *)
(* many divs, with fewer than the four headers it needs.                   *)
InsufficientHeadersFail ==
  pc = "done" /\ result.kind = "ok" /\ input.fn = "prereqs" =>
    \A i \in DOMAIN Page.conditions :
      Page.conditions[i] # <<>> /\ ~TooFewHeaders(Page.conditions[i])
=============================================================================
