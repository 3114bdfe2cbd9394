---------------------------- MODULE DataPathProofs ----------------------------
(***************************************************************************)
(* Proofs about DataPath for every page, stored form and damage.           *)
(***************************************************************************)
EXTENDS DataPath, SequenceLemmas

BadParts == {"group_panel", "teacher", "prereq_headers"}

GroupAt(i) == GroupModel(Page.groups[i], Head(Page.titles))

(* The conditions up to the n-th that are not passed over.                 *)
Blocks(n) == { j \in 1..n : ~Skipped(Page.conditions[j]) }

(* What was read so far, as long as nothing was refused.                   *)
GroupsRead ==
  /\ at - 1 <= Len(Page.groups) /\ Len(items) = at - 1
  /\ \A i \in 1..Len(items) : items[i] = GroupAt(i)

ConditionsRead ==
  /\ at - 1 <= Len(Page.conditions) /\ Len(items) = Cardinality(Blocks(at - 1))
  /\ \A i \in 1..(at - 1) :
       ~Skipped(Page.conditions[i]) =>
         items[Cardinality(Blocks(i))] = ConditionModel(Page.conditions[i])

Parsed ==
  /\ input \in Inputs
  /\ at \in Nat \ {0}
  /\ IsSequence(items) /\ errors \in Seq(BadParts)
  /\ pc = "head" => items = <<>> /\ errors = <<>> /\ at = 1
  /\ pc = "items" => input.fn \in {"course", "prereqs"}
  /\ pc = "items" /\ errors = <<>> =>
       IF input.fn = "course" THEN GroupsRead ELSE ConditionsRead

(* The inductive invariant.                                                *)
ParserInv == Parsed /\ NothingLost

-----------------------------------------------------------------------------
(* Whatever its elements are taken from, a sequence is one.               *)
LEMMA SequenceOf ==
  ASSUME NEW S, NEW s \in Seq(S)
  PROVE  IsSequence(s)
<1>1. DOMAIN s = 1..Len(s) /\ Len(s) \in Nat /\ s = [i \in 1..Len(s) |-> s[i]]
  BY LenProperties
<1>2. \A i \in 1..Len(s) : s[i] \in ToSet(s)
  BY <1>1 DEF ToSet
<1>3. s \in [1..Len(s) -> ToSet(s)]
  BY <1>1, <1>2
<1> QED BY <1>1, <1>3, SeqDef DEF IsSequence

(* A sequence of anything grows by one at its end.                         *)
LEMMA Appended ==
  ASSUME NEW s, NEW x, IsSequence(s)
  PROVE  /\ Len(s) \in Nat
         /\ IsSequence(Append(s, x))
         /\ Len(Append(s, x)) = Len(s) + 1
         /\ \A i \in 1..Len(s) : Append(s, x)[i] = s[i]
         /\ Append(s, x)[Len(s) + 1] = x
<1> DEFINE S == ToSet(s)
<1>1. s \in Seq(S)
  BY DEF IsSequence
<1> HIDE DEF S
<1>2. s \in Seq(S \cup {x}) /\ x \in S \cup {x}
  BY <1>1
<1>3. Append(s, x) \in Seq(S \cup {x})
  BY <1>2, AppendProperties
<1>4. /\ Len(s) \in Nat
      /\ Len(Append(s, x)) = Len(s) + 1
      /\ \A i \in 1..Len(s) : Append(s, x)[i] = s[i]
      /\ Append(s, x)[Len(s) + 1] = x
  BY <1>2, LenProperties, AppendProperties
<1>5. IsSequence(Append(s, x))
  BY <1>3, SequenceOf
<1> QED BY <1>4, <1>5

(* The number of blocks grows with each condition that is not passed over. *)
LEMMA BlocksFinite ==
  ASSUME NEW n \in Nat
  PROVE  IsFiniteSet(Blocks(n)) /\ Cardinality(Blocks(n)) \in Nat
<1>1. IsFiniteSet(1..n)
  BY FS_Interval
<1>2. Blocks(n) \in SUBSET (1..n)
  BY DEF Blocks
<1> QED BY <1>1, <1>2, FS_Subset, FS_CardinalityType

LEMMA BlocksNone == Cardinality(Blocks(0)) = 0
<1>1. Blocks(0) = {}
  BY DEF Blocks
<1> QED BY <1>1, FS_EmptySet

LEMMA BlocksGrow ==
  ASSUME NEW n \in Nat
  PROVE  Cardinality(Blocks(n + 1)) =
           IF Skipped(Page.conditions[n + 1]) THEN Cardinality(Blocks(n))
           ELSE Cardinality(Blocks(n)) + 1
<1>1. IsFiniteSet(Blocks(n))
  BY BlocksFinite
<1>2. n + 1 \notin Blocks(n)
  BY DEF Blocks
<1>3. CASE Skipped(Page.conditions[n + 1])
  <2>1. Blocks(n + 1) = Blocks(n)
    BY <1>3 DEF Blocks
  <2> QED BY <1>3, <2>1
<1>4. CASE ~Skipped(Page.conditions[n + 1])
  <2>1. Blocks(n + 1) = Blocks(n) \cup {n + 1}
    BY <1>4 DEF Blocks
  <2> QED BY <1>1, <1>2, <1>4, <2>1, FS_AddElement
<1> QED BY <1>3, <1>4

LEMMA BlocksBounded ==
  ASSUME NEW n \in Nat, NEW i \in 1..n, ~Skipped(Page.conditions[i])
  PROVE  Cardinality(Blocks(i)) \in 1..Cardinality(Blocks(n))
<1>1. Blocks(i) \in SUBSET Blocks(n)
  BY DEF Blocks
<1>2. Cardinality(Blocks(i)) <= Cardinality(Blocks(n))
  BY <1>1, BlocksFinite, FS_Subset
<1>3. i \in Blocks(i)
  BY DEF Blocks
<1>4. Cardinality(Blocks(i)) # 0
  BY <1>3, BlocksFinite, FS_EmptySet
<1> QED BY <1>2, <1>4, BlocksFinite

LEMMA Singleton ==
  ASSUME NEW S, NEW x \in S
  PROVE  <<x>> \in Seq(S)
OBVIOUS

LEMMA GroupErrorsTyped ==
  ASSUME NEW group
  PROVE  GroupErrors(group) \in Seq(BadParts)
<1>1. GroupErrors(group) \in { <<"group_panel">>, <<"teacher">>, <<>> }
  BY Zenon DEF GroupErrors
<1>2. <<"group_panel">> \in Seq(BadParts) /\ <<"teacher">> \in Seq(BadParts)
  BY Singleton DEF BadParts
<1>3. <<>> \in Seq(BadParts)
  OBVIOUS
<1> QED BY <1>1, <1>2, <1>3, Zenon

(* The errors of a group are named, and adding some leaves some.           *)
LEMMA ErrorsAdded ==
  ASSUME NEW es \in Seq(BadParts), NEW group
  PROVE  /\ es \o GroupErrors(group) \in Seq(BadParts)
         /\ es \o GroupErrors(group) = <<>> => GroupErrors(group) = <<>>
<1>1. GroupErrors(group) \in Seq(BadParts)
  BY GroupErrorsTyped
<1> HIDE DEF GroupErrors
<1>2. /\ es \o GroupErrors(group) \in Seq(BadParts)
      /\ Len(es \o GroupErrors(group)) = Len(es) + Len(GroupErrors(group))
  BY <1>1, ConcatProperties
<1>3. Len(es) \in Nat /\ Len(GroupErrors(group)) \in Nat
  BY <1>1, LenProperties
<1>4. es \o GroupErrors(group) = <<>> => Len(GroupErrors(group)) = 0
  <2>1. Len(<<>>) = 0
    OBVIOUS
  <2> QED BY <1>2, <1>3, <2>1
<1>5. Len(GroupErrors(group)) = 0 => GroupErrors(group) = <<>>
  BY <1>1
<1> QED BY <1>2, <1>4, <1>5
-----------------------------------------------------------------------------
LEMMA ReadTableKeeps ==
  ASSUME ParserInv, ReadTable
  PROVE  ParserInv'
<1>1. Parsed'
  BY DEF ParserInv, Parsed, ReadTable, Finish, GroupsRead, ConditionsRead
<1>2. NothingLost'
  BY DEF ReadTable, NothingLost, Finish
<1> QED BY <1>1, <1>2 DEF ParserInv

LEMMA ReadHeadKeeps ==
  ASSUME ParserInv, ReadHead
  PROVE  ParserInv'
<1>1. /\ input' = input /\ at' = at /\ items' = items /\ errors' = errors
      /\ items = <<>> /\ at = 1 /\ pc' \in {"items", "done"} /\ pc = "head"
      /\ pc' = "done" => result'.kind = "err"
  BY DEF ParserInv, Parsed, ReadHead, Refuse, Finish
<1>2. input \in Inputs /\ input.fn \in {"course", "prereqs"}
  BY InputsAssumption DEF ParserInv, Parsed, ReadHead
<1>3. Len(items) = 0 /\ Cardinality(Blocks(0)) = 0
  BY <1>1, BlocksNone
<1>4. input.fn = "course" => Len(Page.groups) \in Nat
  BY <1>2, InputsAssumption, LenProperties DEF Page
<1>5. input.fn = "prereqs" => Len(Page.conditions) \in Nat
  BY <1>2, InputsAssumption, LenProperties DEF Page
<1>6. input.fn = "course" => GroupsRead
  BY <1>1, <1>3, <1>4 DEF GroupsRead
<1>7. input.fn = "prereqs" => ConditionsRead
  BY <1>1, <1>3, <1>5 DEF ConditionsRead
<1>8. GroupsRead' = GroupsRead /\ ConditionsRead' = ConditionsRead
  BY <1>1 DEF GroupsRead, ConditionsRead, GroupAt, Blocks, Page
<1>9. Parsed'
  BY <1>1, <1>2, <1>6, <1>7, <1>8 DEF ParserInv, Parsed
<1>10. NothingLost'
  BY <1>1 DEF NothingLost
<1> QED BY <1>9, <1>10 DEF ParserInv

LEMMA ReadGroupKeeps ==
  ASSUME ParserInv, ReadGroup
  PROVE  ParserInv'
<1> DEFINE group == Page.groups[at]
<1>1. /\ pc = "items" /\ pc' = "items" /\ input.fn = "course" /\ input' = input
      /\ at' = at + 1 /\ at <= Len(Page.groups)
      /\ at \in Nat \ {0} /\ input \in Inputs
      /\ IsSequence(items) /\ errors \in Seq(BadParts)
  BY DEF ParserInv, Parsed, ReadGroup, TryGroup
<1>2. Len(Page.groups) \in Nat
  BY <1>1, InputsAssumption, LenProperties DEF Page
<1>3. NothingLost'
  BY <1>1 DEF NothingLost
<1>4. CASE GroupErrors(group) = <<>>
  <2>1. errors' = errors /\ items' = Append(items, GroupAt(at))
    BY <1>4 DEF ReadGroup, TryGroup, GroupAt
  <2>2. IsSequence(items')
    BY <1>1, <2>1, Appended
  <2>3. ASSUME errors = <<>> PROVE GroupsRead'
    <3>1. GroupsRead
      BY <1>1, <2>3 DEF ParserInv, Parsed
    <3>2. /\ Len(items) \in Nat /\ Len(items') = Len(items) + 1
          /\ \A i \in 1..Len(items) : items'[i] = items[i]
          /\ items'[Len(items) + 1] = GroupAt(at)
      BY <1>1, <2>1, Appended
    <3>3. \A i : GroupAt(i)' = GroupAt(i)
      BY <1>1 DEF GroupAt, Page
    <3>4. Len(items) = at - 1
      BY <3>1 DEF GroupsRead
    <3>5. \A i \in 1..Len(items') : items'[i] = GroupAt(i)
      BY <1>1, <3>1, <3>2, <3>4 DEF GroupsRead
    <3>6. Len(items') = at' - 1 /\ at' - 1 <= Len(Page.groups)
      BY <1>1, <1>2, <3>2, <3>4
    <3> QED BY <1>1, <3>3, <3>5, <3>6 DEF GroupsRead, Page
  <2> QED BY <1>1, <1>3, <2>1, <2>2, <2>3 DEF ParserInv, Parsed
<1>5. CASE GroupErrors(group) # <<>>
  <2>1. errors' = errors \o GroupErrors(group) /\ items' = items
    BY <1>5 DEF ReadGroup, TryGroup
  <2>2. errors' \in Seq(BadParts) /\ errors' # <<>>
    BY <1>1, <1>5, <2>1, ErrorsAdded
  <2> QED BY <1>1, <1>3, <2>1, <2>2 DEF ParserInv, Parsed
<1> QED BY <1>4, <1>5

LEMMA ReadConditionKeeps ==
  ASSUME ParserInv, ReadCondition
  PROVE  ParserInv'
<1> DEFINE condition == Page.conditions[at]
<1>1. /\ pc = "items" /\ input.fn = "prereqs" /\ input' = input
      /\ at' = at + 1 /\ at <= Len(Page.conditions)
      /\ at \in Nat \ {0} /\ input \in Inputs
      /\ IsSequence(items) /\ errors \in Seq(BadParts)
  BY DEF ParserInv, Parsed, ReadCondition
<1>2. Len(Page.conditions) \in Nat
  BY <1>1, InputsAssumption, LenProperties DEF Page
<1>3. \A n : Blocks(n)' = Blocks(n)
  BY <1>1 DEF Blocks, Page
<1>4. /\ (at - 1) + 1 = at /\ at' - 1 = at /\ at - 1 \in Nat
      /\ at' \in Nat \ {0} /\ at' - 1 <= Len(Page.conditions)
  BY <1>1, <1>2
<1>5. errors = <<>> => ConditionsRead
  BY <1>1 DEF ParserInv, Parsed
<1>6. CASE Skipped(condition)
  <2>1. pc' = pc /\ items' = items /\ errors' = errors /\ result' = result
    BY <1>6 DEF ReadCondition
  <2>2. Cardinality(Blocks(at)) = Cardinality(Blocks(at - 1))
    BY <1>4, <1>6, BlocksGrow
  <2>3. ConditionsRead => ConditionsRead'
    BY <1>1, <1>3, <1>4, <1>6, <2>1, <2>2 DEF ConditionsRead, Page
  <2> QED BY <1>1, <1>4, <1>5, <2>1, <2>3 DEF ParserInv, Parsed, NothingLost
<1>7. CASE ~Skipped(condition) /\ TooFewHeaders(condition)
  <2>1. /\ pc' = pc /\ items' = items /\ result' = result
        /\ errors' = Append(errors, "prereq_headers")
    BY <1>7 DEF ReadCondition
  <2>2. errors' \in Seq(BadParts) /\ Len(errors') = Len(errors) + 1 /\ Len(errors) \in Nat
    BY <1>1, <2>1, AppendProperties, LenProperties DEF BadParts
  <2>3. errors' # <<>>
    BY <2>2
  <2> QED BY <1>1, <1>4, <2>1, <2>2, <2>3 DEF ParserInv, Parsed, NothingLost
<1>8. CASE pc' = "done" /\ result'.kind = "err" /\ items' = items /\ errors' = errors
  BY <1>1, <1>4, <1>8 DEF ParserInv, Parsed, NothingLost
<1>9. CASE /\ ~Skipped(condition)
           /\ items' = Append(items, ConditionModel(condition))
           /\ UNCHANGED <<pc, errors, result>>
  <2>1. /\ Len(items) \in Nat /\ IsSequence(items') /\ Len(items') = Len(items) + 1
        /\ \A i \in 1..Len(items) : items'[i] = items[i]
        /\ items'[Len(items) + 1] = ConditionModel(condition)
    BY <1>1, <1>9, Appended
  <2>2. Cardinality(Blocks(at)) = Cardinality(Blocks(at - 1)) + 1
    BY <1>4, <1>9, BlocksGrow
  <2>3. ASSUME ConditionsRead PROVE ConditionsRead'
    <3>1. Len(items) = Cardinality(Blocks(at - 1)) /\ Len(items') = Cardinality(Blocks(at))
      BY <2>1, <2>2, <2>3 DEF ConditionsRead
    <3>2. ASSUME NEW i \in 1..at, ~Skipped(Page.conditions[i])
          PROVE  items'[Cardinality(Blocks(i))] = ConditionModel(Page.conditions[i])
      <4>1. CASE i = at
        BY <2>1, <2>2, <3>1, <4>1
      <4>2. CASE i # at
        <5>1. i \in 1..(at - 1)
          BY <1>1, <4>2
        <5>2. Cardinality(Blocks(i)) \in 1..Len(items)
          BY <1>4, <3>1, <3>2, <5>1, BlocksBounded
        <5> QED BY <2>1, <2>3, <3>2, <5>1, <5>2 DEF ConditionsRead
      <4> QED BY <4>1, <4>2
    <3> QED BY <1>1, <1>3, <1>4, <3>1, <3>2 DEF ConditionsRead, Page
  <2> QED BY <1>1, <1>4, <1>5, <1>9, <2>1, <2>3 DEF ParserInv, Parsed, NothingLost
<1> QED BY <1>6, <1>7, <1>8, <1>9 DEF ReadCondition, Refuse, Finish

LEMMA ConcludeKeeps ==
  ASSUME ParserInv, Conclude
  PROVE  ParserInv'
<1>1. /\ pc = "items" /\ pc' = "done" /\ input' = input /\ at' = at
      /\ items' = items /\ errors' = errors /\ at > Len(PageItems)
      /\ input \in Inputs /\ at \in Nat \ {0} /\ input.fn \in {"course", "prereqs"}
  BY DEF ParserInv, Parsed, Conclude, Refuse, Finish
<1>2. Parsed'
  BY <1>1 DEF ParserInv, Parsed
<1>3. CASE errors # <<>>
  BY <1>1, <1>2, <1>3 DEF Conclude, Refuse, Finish, ParserInv, NothingLost
<1>4. CASE errors = <<>> /\ input.fn = "course"
  <2>1. result' = [kind |-> "ok", model |-> Course(Head(Page.titles), items)]
    BY <1>4 DEF Conclude, Finish
  <2>2. result'.model.groups = items /\ result'.model.course_name = Head(Page.titles)
    BY <2>1 DEF Course
  <2>3. GroupsRead
    BY <1>1, <1>4 DEF ParserInv, Parsed
  <2>4. Len(Page.groups) \in Nat /\ DOMAIN Page.groups = 1..Len(Page.groups)
    BY <1>1, <1>4, InputsAssumption, LenProperties DEF Page
  <2>5. Len(items) = Len(Page.groups)
    BY <1>1, <1>4, <2>3, <2>4 DEF GroupsRead, PageItems
  <2>6. items = [i \in 1..Len(items) |-> items[i]]
    <3>1. PICK S : items \in Seq(S)
      BY DEF ParserInv, Parsed, IsSequence
    <3> QED BY <3>1
  <2>7. items = [i \in DOMAIN Page.groups |-> GroupAt(i)]
    BY <2>3, <2>4, <2>5, <2>6 DEF GroupsRead
  <2>8. NothingLost'
    BY <1>1, <1>4, <2>2, <2>7 DEF NothingLost, GroupAt, Page
  <2> QED BY <1>2, <2>8 DEF ParserInv
<1>5. CASE errors = <<>> /\ input.fn = "prereqs"
  <2>1. result' = [kind |-> "ok", model |-> Prereqs(Head(Page.titles), items)]
    BY <1>5 DEF Conclude, Finish
  <2>2. result'.model.conditions = items
    BY <2>1 DEF Prereqs
  <2>3. ConditionsRead
    BY <1>1, <1>5 DEF ParserInv, Parsed
  <2>4. Len(Page.conditions) \in Nat /\ DOMAIN Page.conditions = 1..Len(Page.conditions)
    BY <1>1, <1>5, InputsAssumption, LenProperties DEF Page
  <2>5. at - 1 = Len(Page.conditions)
    BY <1>1, <1>5, <2>3, <2>4 DEF ConditionsRead, PageItems
  <2>6. /\ Len(items) = Cardinality(Blocks(Len(Page.conditions)))
        /\ \A i \in DOMAIN Page.conditions :
             ~Skipped(Page.conditions[i]) =>
               items[Cardinality(Blocks(i))] = ConditionModel(Page.conditions[i])
    BY <2>3, <2>4, <2>5 DEF ConditionsRead
  <2>7. NothingLost'
    BY <1>1, <1>5, <2>2, <2>6 DEF NothingLost, Blocks, Page
  <2> QED BY <1>2, <2>7 DEF ParserInv
<1> QED BY <1>1, <1>3, <1>4, <1>5

LEMMA InitParserInv == Spec => ParserInv
<1>1. DataInit => ParserInv
  <2>1. IsSequence(<<>>) /\ <<>> \in Seq(BadParts)
    BY EmptySeq, SequenceOf
  <2> QED BY <2>1 DEF DataInit, Init, ParserInv, Parsed, NothingLost
<1> QED BY <1>1 DEF Spec

LEMMA NextKeepsParserInv == ParserInv /\ [Next]_vars => ParserInv'
<1> SUFFICES ASSUME ParserInv, [Next]_vars PROVE ParserInv'
  OBVIOUS
<1>1. CASE Parse
  BY <1>1, ReadTableKeeps, ReadHeadKeeps, ReadGroupKeeps, ReadConditionKeeps, ConcludeKeeps
  DEF Parse, ParserStep
<1>2. CASE UNCHANGED parser_vars
  BY <1>2 DEF parser_vars, ParserInv, Parsed, NothingLost, GroupsRead, ConditionsRead,
     GroupAt, Blocks, Page, IsSequence
<1>3. CASE ~Parse /\ Next
  BY <1>2, <1>3 DEF Next, Store, SetCourse, SetSession, RestoreSession, Ended, Rest,
     vars, parser_vars
<1>4. CASE UNCHANGED vars
  BY <1>2, <1>4 DEF vars, parser_vars
<1> QED BY <1>1, <1>3, <1>4

(* Whatever the page and the number of its groups and conditions, what is  *)
(* accepted holds each of them, in order, with its own values.             *)
THEOREM AcceptedIsComplete == Spec => []NothingLost
<1>1. ParserInv => NothingLost
  BY DEF ParserInv
<1> QED BY InitParserInv, NextKeepsParserInv, <1>1, PTL DEF Spec
-----------------------------------------------------------------------------
(* __setstate__ of a course model assigns its list last, so that it is not *)
(* assigned at all unless every field could be.                            *)
LEMMA CourseFields ==
  /\ FieldsOf["CourseInfo"] = CourseInfoFields
  /\ DOMAIN CourseInfoFields = 1..7 /\ Parts("CourseInfo") = "groups"
  /\ CourseInfoFields[7] = "groups"
  /\ \A i \in 1..6 : CourseInfoFields[i] # "groups"
  /\ "groups" \in ToSet(CourseInfoFields)
<1>1. FieldsOf["CourseInfo"] = CourseInfoFields
  BY DEF FieldsOf
<1>2. DOMAIN CourseInfoFields = 1..7 /\ Len(CourseInfoFields) = 7 /\ CourseInfoFields[7] = "groups"
  BY DEF CourseInfoFields
<1>3. Parts("CourseInfo") = "groups"
  BY <1>1, <1>2 DEF Parts, Last, Composite
<1>4. \A i \in 1..6 : CourseInfoFields[i] # "groups"
  BY DEF CourseInfoFields
<1>5. "groups" \in ToSet(CourseInfoFields)
  BY <1>2 DEF ToSet
<1> QED BY <1>1, <1>2, <1>3, <1>4, <1>5

LEMMA PrereqsFields ==
  /\ FieldsOf["CoursePrereqs"] = CoursePrereqsFields
  /\ DOMAIN CoursePrereqsFields = 1..5 /\ Parts("CoursePrereqs") = "conditions"
  /\ CoursePrereqsFields[5] = "conditions"
  /\ \A i \in 1..4 : CoursePrereqsFields[i] # "conditions"
  /\ "conditions" \in ToSet(CoursePrereqsFields)
<1>1. FieldsOf["CoursePrereqs"] = CoursePrereqsFields
  BY DEF FieldsOf
<1>2. DOMAIN CoursePrereqsFields = 1..5 /\ Len(CoursePrereqsFields) = 5 /\ CoursePrereqsFields[5] = "conditions"
  BY DEF CoursePrereqsFields
<1>3. Parts("CoursePrereqs") = "conditions"
  BY <1>1, <1>2 DEF Parts, Last, Composite
<1>4. \A i \in 1..4 : CoursePrereqsFields[i] # "conditions"
  BY DEF CoursePrereqsFields
<1>5. "conditions" \in ToSet(CoursePrereqsFields)
  BY <1>2 DEF ToSet
<1> QED BY <1>1, <1>2, <1>3, <1>4, <1>5

LEMMA FailedCourseKeepsGroups ==
  ASSUME NEW obj, NEW d, ~SetCourseInfoState(obj, d).ok
  PROVE  SetCourseInfoState(obj, d).model["groups"] = obj["groups"]
<1> DEFINE
      Fails(f) == \/ f \notin DOMAIN d
                  \/ d[f] = BadType
                  \/ f = "groups" /\ \E i \in DOMAIN d[f] : ~SetGroupState(d[f][i]).ok
      assigned == { i \in 1..7 : \A j \in 1..i : ~Fails(CourseInfoFields[j]) }
<1>1. CASE d = BadType
  BY <1>1 DEF SetCourseInfoState, SetStateOf
<1>2. CASE d # BadType
  <2>1. SetCourseInfoState(obj, d).ok <=> assigned = 1..7
    BY <1>2, CourseFields DEF SetCourseInfoState, SetStateOf
  <2>2. 7 \notin assigned
    BY <2>1
  <2>3. ~\E i \in assigned : CourseInfoFields[i] = "groups"
    BY <2>2, CourseFields
  <2>4. SetCourseInfoState(obj, d).model["groups"] =
          IF \E i \in assigned : CourseInfoFields[i] = "groups"
            THEN [i \in DOMAIN d["groups"] |-> SetGroupState(d["groups"][i]).model]
            ELSE obj["groups"]
    BY <1>2, CourseFields DEF SetCourseInfoState, SetStateOf
  <2> QED BY <2>3, <2>4
<1> QED BY <1>1, <1>2

LEMMA FailedPrereqsKeepConditions ==
  ASSUME NEW obj, NEW d, ~SetCoursePrereqsState(obj, d).ok
  PROVE  SetCoursePrereqsState(obj, d).model["conditions"] = obj["conditions"]
<1> DEFINE
      Fails(f) == \/ f \notin DOMAIN d
                  \/ d[f] = BadType
                  \/ f = "conditions" /\ \E i \in DOMAIN d[f] : ~SetConditionState(d[f][i]).ok
      assigned == { i \in 1..5 : \A j \in 1..i : ~Fails(CoursePrereqsFields[j]) }
<1>1. CASE d = BadType
  BY <1>1 DEF SetCoursePrereqsState, SetStateOf
<1>2. CASE d # BadType
  <2>1. SetCoursePrereqsState(obj, d).ok <=> assigned = 1..5
    BY <1>2, PrereqsFields DEF SetCoursePrereqsState, SetStateOf
  <2>2. 5 \notin assigned
    BY <2>1
  <2>3. ~\E i \in assigned : CoursePrereqsFields[i] = "conditions"
    BY <2>2, PrereqsFields
  <2>4. SetCoursePrereqsState(obj, d).model["conditions"] =
          IF \E i \in assigned : CoursePrereqsFields[i] = "conditions"
            THEN [i \in DOMAIN d["conditions"] |-> SetConditionState(d["conditions"][i]).model]
            ELSE obj["conditions"]
    BY <1>2, PrereqsFields DEF SetCoursePrereqsState, SetStateOf
  <2> QED BY <2>3, <2>4
<1> QED BY <1>1, <1>2
LEMMA BeforeHoldsOld ==
  ASSUME input \in Inputs
  PROVE  Before[Parts(Class)] = Old
<1>1. CASE input.fn = "table"
  <2>1. FieldsOf["Session"] = SessionFields
    BY DEF FieldsOf
  <2>2. DOMAIN SessionFields = 1..9 /\ Len(SessionFields) = 9 /\ SessionFields[9] = "course_list"
    BY DEF SessionFields
  <2>3. Parts("Session") = "course_list" /\ "course_list" \in ToSet(SessionFields)
    BY <2>1, <2>2 DEF Parts, Last, Composite, ToSet
  <2>4. Class = "Session"
    BY <1>1 DEF Class
  <2> QED BY <2>1, <2>3, <2>4 DEF Before
<1>2. CASE input.fn = "course"
  <2>1. Class = "CourseInfo"
    BY <1>2 DEF Class
  <2> QED BY <2>1, CourseFields DEF Before
<1>3. CASE input.fn = "prereqs"
  <2>1. Class = "CoursePrereqs"
    BY <1>3 DEF Class
  <2> QED BY <2>1, PrereqsFields DEF Before
<1> QED BY <1>1, <1>2, <1>3, InputsAssumption

(* Until it is loaded into, the object is as it was before.                *)
HeldInv ==
  /\ input \in Inputs
  /\ stage = "parsing" => outcome = "none"
  /\ stage = "stored" => outcome = "none" /\ held = Before
  /\ FailedLoadKeepsLists

LEMMA LoadsKeepHeld ==
  ASSUME HeldInv, SetCourse \/ (\E strict \in BOOLEAN : SetSession(strict) \/ RestoreSession(strict))
  PROVE  HeldInv'
<1>1. /\ stage = "stored" /\ stage' = "loaded" /\ held = Before /\ input' = input
      /\ input \in Inputs
  BY DEF HeldInv, SetCourse, SetSession, RestoreSession, Ended, parser_vars
<1>2. Class' = Class /\ Before' = Before /\ Before[Parts(Class)] = Old
  BY <1>1, BeforeHoldsOld DEF Class, Before
<1>3. ASSUME outcome' \in {"error", "refused"}
      PROVE  held'[Parts(Class)] = Old /\ (Class = "Session" => held' = Before)
  <2>1. CASE SetCourse
    <3>1. /\ Class # "Session" /\ outcome' # "refused"
      BY <2>1 DEF SetCourse, Ended
    <3>2. CASE Class = "CourseInfo"
      <4>1. /\ ~SetCourseInfoState(held, stored).ok
            /\ held' = SetCourseInfoState(held, stored).model
        BY <1>3, <2>1, <3>2 DEF SetCourse, Ended
      <4> QED BY <1>1, <1>2, <3>1, <3>2, <4>1, FailedCourseKeepsGroups, CourseFields
    <3>3. CASE Class = "CoursePrereqs"
      <4>1. /\ ~SetCoursePrereqsState(held, stored).ok
            /\ held' = SetCoursePrereqsState(held, stored).model
        BY <1>3, <2>1, <3>3 DEF SetCourse, Ended
      <4> QED BY <1>1, <1>2, <3>1, <3>3, <4>1, FailedPrereqsKeepConditions, PrereqsFields
    <3> QED BY <1>1, <3>1, <3>2, <3>3, InputsAssumption DEF Class
  <2>2. ASSUME NEW strict \in BOOLEAN, SetSession(strict)
        PROVE  held' = Before
    BY <1>1, <1>3, <2>2 DEF SetSession, Ended, Replaced
  <2>3. ASSUME NEW strict \in BOOLEAN, RestoreSession(strict)
        PROVE  held' = Before
    BY <1>1, <1>3, <2>3 DEF RestoreSession, Ended
  <2> QED BY <1>2, <2>1, <2>2, <2>3
<1> QED BY <1>1, <1>2, <1>3 DEF HeldInv, FailedLoadKeepsLists

LEMMA NextKeepsHeld == HeldInv /\ [Next]_vars => HeldInv'
<1> SUFFICES ASSUME HeldInv, [Next]_vars PROVE HeldInv'
  OBVIOUS
<1>1. CASE UNCHANGED <<input, stage, held, outcome>>
  BY <1>1 DEF HeldInv, FailedLoadKeepsLists, Class, Before
<1>2. CASE Parse
  <2>1. UNCHANGED <<input, stage, held, outcome>>
    BY <1>2 DEF Parse, store_vars, ParserStep, ReadTable, ReadHead, ReadGroup, TryGroup,
       ReadCondition, Conclude
  <2> QED BY <1>1, <2>1
<1>3. CASE Store
  <2>1. /\ stage' = "stored" /\ held' = Before /\ input' = input
        /\ outcome' = outcome /\ outcome = "none"
    BY <1>3 DEF Store, HeldInv, parser_vars
  <2>2. Before' = Before
    BY <2>1 DEF Before, Class
  <2> QED BY <2>1, <2>2 DEF HeldInv, FailedLoadKeepsLists
<1>4. CASE SetCourse \/ (\E strict \in BOOLEAN : SetSession(strict) \/ RestoreSession(strict))
  BY <1>4, LoadsKeepHeld
<1>5. CASE Rest \/ UNCHANGED vars
  BY <1>1, <1>5 DEF Rest, vars
<1> QED BY <1>2, <1>3, <1>4, <1>5 DEF Next

(* A load that fails leaves the list of the object, and all of a session,  *)
(* as it was, whatever is missing or of another type and at which level.   *)
THEOREM FailedLoadKeeps == Spec => []FailedLoadKeepsLists
<1>1. DataInit => HeldInv
  BY DEF DataInit, Init, HeldInv, FailedLoadKeepsLists
<1>2. HeldInv => FailedLoadKeepsLists
  BY DEF HeldInv
<1> QED BY <1>1, NextKeepsHeld, <1>2, PTL DEF Spec
-----------------------------------------------------------------------------
(* Texts.  A text put together of texts is a sequence of words: the parts  *)
(* are joined one after the other, and no first join fails.                *)

Joins(seqs, g) ==
  g = [i \in 1..Len(seqs) |-> IF i = 1 THEN seqs[i] ELSE g[i - 1] \o seqs[i]]

LEMMA JoinExists ==
  ASSUME NEW T, NEW seqs \in Seq(T), seqs # <<>>
  PROVE  \E g : Joins(seqs, g)
<1> DEFINE Upto(n, g) == g = [i \in 1..n |-> IF i = 1 THEN seqs[i] ELSE g[i - 1] \o seqs[i]]
           S == { n \in 1..Len(seqs) : ~\E g : Upto(n, g) }
<1>1. Len(seqs) \in Nat /\ Len(seqs) # 0
  OBVIOUS
<1>2. SUFFICES ASSUME S # {} PROVE FALSE
  <2>1. Len(seqs) \in 1..Len(seqs)
    BY <1>1
  <2>2. S = {} => \E g : Upto(Len(seqs), g)
    BY <2>1
  <2> QED BY <2>2, Zenon DEF Joins
<1>3. S \in SUBSET Nat
  <2>1. \A n \in S : n \in Nat
    BY <1>1
  <2> HIDE DEF S
  <2> QED BY <2>1, Zenon
<1> HIDE DEF S
<1>4. PICK n \in S : \A m \in S : n <= m
  BY <1>2, <1>3, LeastNatural
<1>5. n \in 1..Len(seqs) /\ ~\E g : Upto(n, g)
  BY <1>4 DEF S
<1>6. CASE n = 1
  <2>1. Upto(1, [i \in 1..1 |-> seqs[i]])
    OBVIOUS
  <2> QED BY <1>5, <1>6, <2>1
<1>7. CASE n # 1
  <2>1. n - 1 \in 1..Len(seqs) /\ n - 1 \notin S
    BY <1>1, <1>4, <1>5, <1>7
  <2>2. PICK g : Upto(n - 1, g)
    BY <2>1 DEF S
  <2> DEFINE h == [i \in 1..n |-> IF i = n THEN g[n - 1] \o seqs[n] ELSE g[i]]
  <2>3. \A i \in 1..n : h[i] = IF i = 1 THEN seqs[i] ELSE h[i - 1] \o seqs[i]
    <3>1. n - 1 \in 1..Len(seqs) /\ n \in Nat /\ n > 1
      BY <1>1, <1>5, <1>7
    <3>2. \A i \in 1..(n - 1) : g[i] = IF i = 1 THEN seqs[i] ELSE g[i - 1] \o seqs[i]
      BY <2>2
    <3> DEFINE last == g[n - 1] \o seqs[n]
    <3>3. h[n] = last /\ \A i \in 1..(n - 1) : h[i] = g[i]
      <4>1. h = [i \in 1..n |-> IF i = n THEN last ELSE g[i]]
        OBVIOUS
      <4>2. n \in 1..n /\ \A i \in 1..(n - 1) : i \in 1..n /\ i # n
        BY <3>1
      <4> HIDE DEF h, last
      <4> QED BY <4>1, <4>2
    <3> HIDE DEF h
    <3>4. ASSUME NEW i \in 1..n
          PROVE  h[i] = IF i = 1 THEN seqs[i] ELSE h[i - 1] \o seqs[i]
      <4>1. CASE i = n
        <5>1. n - 1 \in 1..(n - 1) /\ i # 1
          BY <3>1, <4>1
        <5>2. h[i - 1] = g[n - 1] /\ h[i] = last
          BY <3>3, <4>1, <5>1
        <5> QED BY <4>1, <5>1, <5>2
      <4>2. CASE i # n
        <5>1. i \in 1..(n - 1) /\ (i # 1 => i - 1 \in 1..(n - 1))
          BY <3>1, <4>2
        <5> QED BY <3>2, <3>3, <5>1
      <4> QED BY <4>1, <4>2
    <3> QED BY <3>4
  <2>4. Upto(n, h)
    <3>1. h = [i \in 1..n |-> h[i]]
      OBVIOUS
    <3> HIDE DEF h
    <3> QED BY <2>3, <3>1
  <2> QED BY <1>5, <2>4
<1> QED BY <1>6, <1>7

LEMMA JoinTyped ==
  ASSUME NEW T, NEW seqs \in Seq(Seq(T)), NEW g, Joins(seqs, g), NEW k \in 1..Len(seqs)
  PROVE  g[k] \in Seq(T)
<1> DEFINE S == { n \in 1..Len(seqs) : g[n] \notin Seq(T) }
<1>1. Len(seqs) \in Nat /\ \A i \in 1..Len(seqs) : seqs[i] \in Seq(T)
  BY LenProperties, ElementOfSeq
<1>2. SUFFICES ASSUME S # {} PROVE FALSE
  OBVIOUS
<1>3. S \in SUBSET Nat
  OBVIOUS
<1>4. PICK n \in S : \A m \in S : n <= m
  <2> HIDE DEF S
  <2> QED BY <1>2, <1>3, LeastNatural
<1>5. n \in 1..Len(seqs) /\ g[n] \notin Seq(T)
  OBVIOUS
<1>6. g[n] = IF n = 1 THEN seqs[n] ELSE g[n - 1] \o seqs[n]
  BY <1>5 DEF Joins
<1>7. n # 1 /\ n - 1 \in 1..Len(seqs)
  BY <1>1, <1>5, <1>6
<1>8. g[n - 1] \in Seq(T)
  <2>1. n - 1 \notin S
    <3> HIDE DEF S
    <3> QED BY <1>4, <1>5, <1>7
  <2> QED BY <1>7, <2>1
<1>9. g[n - 1] \o seqs[n] \in Seq(T)
  BY <1>1, <1>5, <1>8, ConcatProperties
<1> QED BY <1>5, <1>6, <1>7, <1>9

LEMMA FlattenTyped ==
  ASSUME NEW T, NEW seqs \in Seq(Seq(T))
  PROVE  FlattenSeq(seqs) \in Seq(T)
<1>1. CASE Len(seqs) = 0
  <2>1. FlattenSeq(seqs) = <<>>
    BY <1>1 DEF FlattenSeq
  <2> QED BY <2>1
<1>2. CASE Len(seqs) # 0
  <2> DEFINE g == CHOOSE g : g = [i \in 1..Len(seqs) |-> IF i = 1 THEN seqs[i] ELSE g[i - 1] \o seqs[i]]
  <2>1. FlattenSeq(seqs) = g[Len(seqs)]
    BY <1>2 DEF FlattenSeq
  <2>2. Joins(seqs, g)
    <3>1. \E h : Joins(seqs, h)
      BY <1>2, JoinExists
    <3> QED BY <3>1 DEF Joins
  <2>3. Len(seqs) \in 1..Len(seqs)
    BY <1>2, LenProperties
  <2> HIDE DEF g
  <2> QED BY <2>1, <2>2, <2>3, JoinTyped
<1> QED BY <1>1, <1>2

LEMMA TextTyped ==
  ASSUME NEW row, IsSequence(row.plain), IsSequence(row.spans),
         \A text \in ToSet(row.spans) : IsSequence(text)
  PROVE  \E T : Text(row) \in Seq(T)
<1> DEFINE T == ToSet(row.plain) \cup UNION { ToSet(text) : text \in ToSet(row.spans) }
<1>1. row.plain \in Seq(T)
  <2>1. ToSet(row.plain) \subseteq T
    OBVIOUS
  <2> HIDE DEF T
  <2> QED BY <2>1, SeqMonotonic DEF IsSequence
<1>2. row.spans \in Seq(Seq(T))
  <2>1. ASSUME NEW text \in ToSet(row.spans)
        PROVE  text \in Seq(T)
    <3>1. ToSet(text) \subseteq T
      OBVIOUS
    <3> HIDE DEF T
    <3> QED BY <3>1, SeqMonotonic DEF IsSequence
  <2>2. ToSet(row.spans) \subseteq Seq(T)
    <3> HIDE DEF T
    <3> QED BY <2>1
  <2> HIDE DEF T
  <2> QED BY <2>2, SeqMonotonic DEF IsSequence
<1> HIDE DEF T
<1>3. Text(row) \in Seq(T)
  BY <1>1, <1>2, FlattenTyped, ConcatProperties DEF Text
<1> QED BY <1>3

-----------------------------------------------------------------------------
(* Taking the labels out leaves nothing exactly when there is nothing else.*)
LEMMA LabelsRemoved ==
  ASSUME NEW T, NEW text \in Seq(T), NEW field
  PROVE  WithoutLabels(text, field) # NoText <=>
           \E i \in DOMAIN text : text[i].kind \notin LabelsOf(field) \/ text[i].form = "capital"
<1> DEFINE K == { i \in DOMAIN text : text[i].kind \notin LabelsOf(field) \/ text[i].form = "capital" }
           left == Pick(text, Increasing(K))
<1>1. WithoutLabels(text, field) = left
  BY DEF WithoutLabels, Filter
<1>2. K \in SUBSET (DOMAIN text)
  OBVIOUS
<1>3. K # {} <=> \E i \in DOMAIN text : text[i].kind \notin LabelsOf(field) \/ text[i].form = "capital"
  OBVIOUS
<1> HIDE DEF K
<1>4. IsFiniteSet(K) /\ left \in Seq(T) /\ Len(left) = Cardinality(K)
  BY <1>2, PickIncreasing
<1>5. Cardinality(K) = 0 <=> K = {}
  BY <1>4, FS_EmptySet
<1> HIDE DEF left
<1>6. left = <<>> <=> Len(left) = 0
  BY <1>4
<1> QED BY <1>1, <1>3, <1>4, <1>5, <1>6 DEF NoText

(* A row gives a teacher when it names one.                                *)
LEMMA RowNamesTeacher ==
  ASSUME NEW row, NEW T, Text(row) \in Seq(T)
  PROVE  /\ NamesTeacher(row) <=>
              \/ Mentions(Text(row), {"profesor", "prof"})
              \/ Mentions(Text(row), LabelsOf("teacher")) /\ ValueIn(row, "teacher") # NoText
         /\ Mentions(Text(row), {"profesor", "prof"}) => Text(row) # NoText
<1> DEFINE text == Text(row)
           left == WithoutLabels(text, "teacher")
<1>1. LabelsOf("teacher") = {"teacher", "profesor"}
  BY DEF LabelsOf
<1>2. left # NoText <=>
        \E i \in DOMAIN text : text[i].kind \notin {"teacher", "profesor"} \/ text[i].form = "capital"
  BY <1>1, LabelsRemoved
<1>3. ValueIn(row, "teacher") # NoText <=> LastSpan(row) # NoText \/ left # NoText
  BY DEF ValueIn
<1>4. NamesTeacher(row) <=>
        \/ Mentions(text, {"profesor", "prof"})
        \/ /\ Mentions(text, {"teacher"})
           /\ \/ LastSpan(row) # NoText
              \/ \E i \in DOMAIN text : text[i].kind # "teacher" \/ text[i].form = "capital"
  BY DEF NamesTeacher
<1> HIDE DEF text, left
<1>5. Mentions(text, {"teacher", "profesor"}) <=>
        Mentions(text, {"teacher"}) \/ \E i \in DOMAIN text : text[i].kind = "profesor"
  BY DEF Mentions
<1>6. (\E i \in DOMAIN text : text[i].kind = "profesor") => Mentions(text, {"profesor", "prof"})
  BY DEF Mentions
<1>7. (~\E i \in DOMAIN text : text[i].kind = "profesor") =>
        ( (\E i \in DOMAIN text : text[i].kind \notin {"teacher", "profesor"} \/ text[i].form = "capital")
            <=> \E i \in DOMAIN text : text[i].kind # "teacher" \/ text[i].form = "capital" )
  OBVIOUS
<1>8. Mentions(text, {"profesor", "prof"}) => text # NoText
  BY DEF Mentions, NoText
<1> QED BY <1>1, <1>2, <1>3, <1>4, <1>5, <1>6, <1>7, <1>8 DEF text

LEMMA MinOfPositions ==
  ASSUME NEW T, NEW s \in Seq(T), NEW S \in SUBSET (DOMAIN s), S # {}
  PROVE  Min(S) \in S
<1>1. \A i \in S : i \in Nat
  BY LenProperties
<1>2. PICK n \in S : \A m \in S : n <= m
  BY <1>1, LeastNatural
<1> QED BY <1>2 DEF Min

(* A panel gives a teacher exactly when one of its rows names one.         *)
LEMMA TeacherFound ==
  ASSUME NEW rows, ArePanelRows(rows)
  PROVE  ExtractValue(rows, "teacher") # NoText <=> \E i \in DOMAIN rows : NamesTeacher(rows[i])
<1> DEFINE L == Labelled(rows, "teacher")
           R == TeacherRows(rows)
<1>1. rows \in Seq(ToSet(rows))
  BY DEF ArePanelRows, IsSequence
<1>2. \A i \in DOMAIN rows : \E T : Text(rows[i]) \in Seq(T)
  BY TextTyped DEF ArePanelRows, ToSet
<1>3. \A i \in DOMAIN rows :
        /\ NamesTeacher(rows[i]) <=>
              \/ Mentions(Text(rows[i]), {"profesor", "prof"})
              \/ /\ Mentions(Text(rows[i]), LabelsOf("teacher"))
                 /\ ValueIn(rows[i], "teacher") # NoText
        /\ Mentions(Text(rows[i]), {"profesor", "prof"}) => Text(rows[i]) # NoText
  BY <1>2, RowNamesTeacher
<1>4. L \in SUBSET (DOMAIN rows) /\ \A i \in DOMAIN rows :
        i \in L <=> /\ Mentions(Text(rows[i]), LabelsOf("teacher"))
                    /\ ValueIn(rows[i], "teacher") # NoText
  BY DEF Labelled
<1>5. R \in SUBSET (DOMAIN rows)
      /\ \A i \in DOMAIN rows : i \in R <=> Mentions(Text(rows[i]), {"profesor", "prof"})
  BY DEF TeacherRows
<1>6. ExtractValue(rows, "teacher") =
        IF L # {} THEN ValueIn(rows[Min(L)], "teacher")
        ELSE IF R # {} THEN Text(rows[Min(R)]) ELSE NoText
  BY DEF ExtractValue
<1> HIDE DEF L, R
<1>7. (\E i \in DOMAIN rows : NamesTeacher(rows[i])) <=> L # {} \/ R # {}
  BY <1>3, <1>4, <1>5
<1>8. CASE L # {}
  <2>1. Min(L) \in L
    BY <1>1, <1>4, <1>8, MinOfPositions
  <2>2. ValueIn(rows[Min(L)], "teacher") # NoText
    BY <1>4, <2>1
  <2> QED BY <1>6, <1>7, <1>8, <2>2
<1>9. CASE L = {} /\ R # {}
  <2>1. Min(R) \in R
    BY <1>1, <1>5, <1>9, MinOfPositions
  <2>2. Text(rows[Min(R)]) # NoText
    BY <1>3, <1>5, <2>1
  <2> QED BY <1>6, <1>7, <1>9, <2>2
<1>10. CASE L = {} /\ R = {}
  BY <1>6, <1>7, <1>10
<1> QED BY <1>8, <1>9, <1>10

LEMMA GroupRefused ==
  ASSUME NEW group, group.panels # <<>> => ArePanelRows(Head(group.panels).rows)
  PROVE  /\ GroupErrors(group) = <<>> <=> ReadableGroup(group)
         /\ ~ReadableGroup(group) => Len(GroupErrors(group)) = 1
<1>1. Len(<<"group_panel">>) = 1 /\ Len(<<"teacher">>) = 1 /\ Len(<<>>) = 0
  OBVIOUS
<1>2. CASE group.panels = <<>>
  BY <1>1, <1>2 DEF GroupErrors, ReadableGroup
<1>3. CASE group.panels # <<>>
  <2>1. ReadableGroup(group) <=> ExtractValue(Head(group.panels).rows, "teacher") # NoText
    BY <1>3, TeacherFound DEF ReadableGroup
  <2>2. GroupErrors(group) =
          IF ExtractValue(Head(group.panels).rows, "teacher") = NoText THEN <<"teacher">> ELSE <<>>
    BY <1>3 DEF GroupErrors
  <2> QED BY <1>1, <2>1, <2>2
<1> QED BY <1>2, <1>3

-----------------------------------------------------------------------------
BadGroups(n) == { i \in 1..n : ~ReadableGroup(Page.groups[i]) }

(* What was refused so far is what cannot be read of what was looked at.   *)
Judged ==
  /\ HeadErrors = <<>>
  /\ at - 1 <= Len(PageItems)
  /\ input.fn = "course" => Len(errors) = Cardinality(BadGroups(at - 1))
  /\ input.fn = "prereqs" =>
       (errors = <<>> <=> \A i \in 1..(at - 1) : Passes(Page.conditions[i]))

JudgedInv ==
  /\ ParserInv
  /\ pc = "items" => Judged
  /\ AcceptedIffExaminedReadable /\ EveryBadGroupNamed

-----------------------------------------------------------------------------
(* The head is refused exactly when the title or the credits are bad.      *)
LEMMA HeadRefused == HeadErrors = <<>> <=> ReadableHead
<1>1. TitleErrors = <<>> <=> Page.titles # <<>> /\ (Collecting => Head(Page.titles) # NoText)
  BY DEF TitleErrors
<1>2. CreditsErrors = <<>> <=> Page.credits # <<>> /\ IsI32(Last(Page.credits))
  BY DEF CreditsErrors
<1>3. TitleErrors \in {<<>>, <<"course_name">>} /\ CreditsErrors \in {<<>>, <<"credits">>}
  BY Zenon DEF TitleErrors, CreditsErrors
<1> DEFINE all == TitleErrors \o CreditsErrors
<1>4. all = <<>> <=> TitleErrors = <<>> /\ CreditsErrors = <<>>
  <2>1. TitleErrors \in Seq({"course_name", "credits"}) /\ CreditsErrors \in Seq({"course_name", "credits"})
    <3>1. <<"course_name">> \in Seq({"course_name", "credits"}) /\ <<"credits">> \in Seq({"course_name", "credits"})
      BY Singleton
    <3>2. <<>> \in Seq({"course_name", "credits"})
      OBVIOUS
    <3> QED BY <1>3, <3>1, <3>2
  <2>2. Len(all) = Len(TitleErrors) + Len(CreditsErrors)
    BY <2>1, ConcatProperties
  <2>3. /\ Len(TitleErrors) \in Nat /\ Len(CreditsErrors) \in Nat
        /\ Len(TitleErrors) = 0 <=> TitleErrors = <<>>
        /\ Len(CreditsErrors) = 0 <=> CreditsErrors = <<>>
    BY <2>1
  <2>4. all \in Seq({"course_name", "credits"})
    BY <2>1, ConcatProperties
  <2> HIDE DEF all
  <2>5. all = <<>> <=> Len(all) = 0
    BY <2>4
  <2> QED BY <2>2, <2>3, <2>5
<1>5. HeadErrors = <<>> <=> all = <<>>
  <2>1. <<Head(all)>> # <<>>
    OBVIOUS
  <2>2. HeadErrors = IF Collecting \/ all = <<>> THEN all ELSE <<Head(all)>>
    BY Zenon DEF HeadErrors
  <2> HIDE DEF all
  <2> QED BY <2>1, <2>2
<1> QED BY <1>1, <1>2, <1>4, <1>5 DEF ReadableHead

LEMMA BadGroupsFinite ==
  ASSUME NEW n \in Nat
  PROVE  IsFiniteSet(BadGroups(n)) /\ Cardinality(BadGroups(n)) \in Nat
<1>1. IsFiniteSet(1..n)
  BY FS_Interval
<1>2. BadGroups(n) \in SUBSET (1..n)
  BY DEF BadGroups
<1> QED BY <1>1, <1>2, FS_Subset, FS_CardinalityType

LEMMA BadGroupsGrow ==
  ASSUME NEW n \in Nat
  PROVE  Cardinality(BadGroups(n + 1)) =
           IF ReadableGroup(Page.groups[n + 1]) THEN Cardinality(BadGroups(n))
           ELSE Cardinality(BadGroups(n)) + 1
<1>1. IsFiniteSet(BadGroups(n))
  BY BadGroupsFinite
<1>2. n + 1 \notin BadGroups(n)
  BY DEF BadGroups
<1>3. CASE ReadableGroup(Page.groups[n + 1])
  <2>1. BadGroups(n + 1) = BadGroups(n)
    BY <1>3 DEF BadGroups
  <2> QED BY <1>3, <2>1
<1>4. CASE ~ReadableGroup(Page.groups[n + 1])
  <2>1. BadGroups(n + 1) = BadGroups(n) \cup {n + 1}
    BY <1>4 DEF BadGroups
  <2> QED BY <1>1, <1>2, <1>4, <2>1, FS_AddElement
<1> QED BY <1>3, <1>4

LEMMA GroupAtPage ==
  ASSUME input \in Inputs, input.fn = "course", NEW i \in DOMAIN Page.groups
  PROVE  /\ GroupErrors(Page.groups[i]) = <<>> <=> ReadableGroup(Page.groups[i])
         /\ ~ReadableGroup(Page.groups[i]) => Len(GroupErrors(Page.groups[i])) = 1
<1>1. Page.groups[i] \in ToSet(Page.groups)
  BY DEF ToSet
<1>2. Page.groups[i].panels # <<>> => ArePanelRows(Head(Page.groups[i].panels).rows)
  BY <1>1, InputsAssumption DEF Page
<1> QED BY <1>2, GroupRefused

LEMMA ItemsTyped ==
  ASSUME input \in Inputs
  PROVE  /\ input.fn = "course" =>
              Len(Page.groups) \in Nat /\ DOMAIN Page.groups = 1..Len(Page.groups)
         /\ input.fn = "prereqs" =>
              Len(Page.conditions) \in Nat /\ DOMAIN Page.conditions = 1..Len(Page.conditions)
<1>1. CASE input.fn = "course"
  <2>1. Page.groups \in Seq(ToSet(Page.groups))
    BY <1>1, InputsAssumption DEF Page, IsSequence
  <2> QED BY <1>1, <2>1, LenProperties
<1>2. CASE input.fn = "prereqs"
  <2>1. Page.conditions \in Seq(ToSet(Page.conditions))
    BY <1>2, InputsAssumption DEF Page, IsSequence
  <2> QED BY <1>2, <2>1, LenProperties
<1> QED BY <1>1, <1>2

-----------------------------------------------------------------------------
(* Each step of the parser keeps the judgement.                            *)
LEMMA UnchangedInput ==
  ASSUME input' = input
  PROVE  /\ Page' = Page /\ PageItems' = PageItems /\ HeadErrors' = HeadErrors
         /\ ExaminedReadable' = ExaminedReadable /\ \A n : BadGroups(n)' = BadGroups(n)
BY DEF Page, PageItems, HeadErrors, TitleErrors, CreditsErrors, Collecting, ExaminedReadable, ReadableHead,
       BadGroups

LEMMA NotYetJudged ==
  ASSUME pc # "done"
  PROVE  AcceptedIffExaminedReadable /\ EveryBadGroupNamed
BY DEF AcceptedIffExaminedReadable, EveryBadGroupNamed

LEMMA ReadTableJudged ==
  ASSUME JudgedInv, ReadTable
  PROVE  JudgedInv'
<1>1. ParserInv'
  BY ReadTableKeeps DEF JudgedInv
<1>2. /\ input' = input /\ input.fn = "table" /\ pc' = "done" /\ result'.kind = "ok"
  BY DEF ReadTable, Finish
<1>3. AcceptedIffExaminedReadable' /\ EveryBadGroupNamed'
  BY <1>2 DEF AcceptedIffExaminedReadable, EveryBadGroupNamed, ExaminedReadable
<1> QED BY <1>1, <1>2, <1>3 DEF JudgedInv

LEMMA ReadHeadJudged ==
  ASSUME JudgedInv, ReadHead
  PROVE  JudgedInv'
<1>1. ParserInv'
  BY ReadHeadKeeps DEF JudgedInv
<1>2. /\ input' = input /\ input.fn # "table" /\ at' = 1 /\ errors' = <<>>
      /\ input \in Inputs
  BY DEF JudgedInv, ParserInv, Parsed, ReadHead
<1>3. CASE HeadErrors = <<>>
  <2>1. pc' = "items"
    BY <1>3 DEF ReadHead
  <2>2. Cardinality(BadGroups(0)) = 0
    <3>1. BadGroups(0) = {}
      BY DEF BadGroups
    <3> QED BY <3>1, FS_EmptySet
  <2>3. Len(PageItems) \in Nat
    BY <1>2, ItemsTyped, InputsAssumption DEF PageItems
  <2>4. at' - 1 = 0 /\ Len(errors') = 0 /\ 1..0 = {}
    BY <1>2
  <2>5. Judged'
    BY <1>2, <1>3, <2>2, <2>3, <2>4, UnchangedInput DEF Judged
  <2> QED BY <1>1, <2>1, <2>5 DEF JudgedInv, AcceptedIffExaminedReadable, EveryBadGroupNamed
<1>4. CASE HeadErrors # <<>>
  <2>1. pc' = "done" /\ result'.kind = "err"
    BY <1>4 DEF ReadHead, Refuse, Finish
  <2>2. ~ExaminedReadable
    BY <1>2, <1>4, HeadRefused DEF ExaminedReadable
  <2>3. AcceptedIffExaminedReadable' /\ EveryBadGroupNamed'
    BY <1>2, <1>4, <2>1, <2>2, UnchangedInput DEF AcceptedIffExaminedReadable, EveryBadGroupNamed
  <2> QED BY <1>1, <2>1, <2>3 DEF JudgedInv
<1> QED BY <1>3, <1>4

LEMMA ReadGroupJudged ==
  ASSUME JudgedInv, ReadGroup
  PROVE  JudgedInv'
<1>1. ParserInv'
  BY ReadGroupKeeps DEF JudgedInv
<1>2. /\ pc = "items" /\ pc' = "items" /\ input.fn = "course" /\ input' = input
      /\ at' = at + 1 /\ at <= Len(Page.groups)
      /\ at \in Nat \ {0} /\ input \in Inputs
      /\ errors \in Seq(BadParts)
  BY DEF JudgedInv, ParserInv, Parsed, ReadGroup, TryGroup
<1>3. Judged /\ Len(errors) = Cardinality(BadGroups(at - 1)) /\ HeadErrors = <<>>
  BY <1>2 DEF JudgedInv, Judged
<1>4. at \in DOMAIN Page.groups /\ Len(Page.groups) \in Nat /\ PageItems = Page.groups
  BY <1>2, ItemsTyped DEF PageItems
<1>5. at - 1 \in Nat /\ (at - 1) + 1 = at /\ at' - 1 = at
  BY <1>2
<1>6. Cardinality(BadGroups(at)) =
        IF ReadableGroup(Page.groups[at]) THEN Cardinality(BadGroups(at - 1))
        ELSE Cardinality(BadGroups(at - 1)) + 1
  BY <1>5, BadGroupsGrow
<1>7. Len(errors') = Cardinality(BadGroups(at))
  <2>1. CASE GroupErrors(Page.groups[at]) = <<>>
    <3>1. errors' = errors
      BY <2>1 DEF ReadGroup, TryGroup
    <3> QED BY <1>2, <1>3, <1>4, <1>6, <2>1, <3>1, GroupAtPage
  <2>2. CASE GroupErrors(Page.groups[at]) # <<>>
    <3>1. errors' = errors \o GroupErrors(Page.groups[at])
      BY <2>2 DEF ReadGroup, TryGroup
    <3>2. ~ReadableGroup(Page.groups[at]) /\ Len(GroupErrors(Page.groups[at])) = 1
      BY <1>2, <1>4, <2>2, GroupAtPage
    <3>3. Len(errors') = Len(errors) + Len(GroupErrors(Page.groups[at]))
      BY <1>2, <3>1, GroupErrorsTyped, ConcatProperties
    <3> QED BY <1>3, <1>6, <3>2, <3>3
  <2> QED BY <2>1, <2>2
<1>8. Judged'
  BY <1>2, <1>3, <1>4, <1>5, <1>7, UnchangedInput DEF Judged
<1>9. AcceptedIffExaminedReadable' /\ EveryBadGroupNamed'
  BY <1>2 DEF AcceptedIffExaminedReadable, EveryBadGroupNamed
<1> QED BY <1>1, <1>8, <1>9 DEF JudgedInv

LEMMA ReadConditionJudged ==
  ASSUME JudgedInv, ReadCondition
  PROVE  JudgedInv'
<1> DEFINE condition == Page.conditions[at]
           before == \A i \in 1..(at - 1) : Passes(Page.conditions[i])
<1>1. ParserInv'
  BY ReadConditionKeeps DEF JudgedInv
<1>2. /\ pc = "items" /\ input.fn = "prereqs" /\ input' = input
      /\ at' = at + 1 /\ at <= Len(Page.conditions)
      /\ at \in Nat \ {0} /\ input \in Inputs
      /\ errors \in Seq(BadParts)
  BY DEF JudgedInv, ParserInv, Parsed, ReadCondition
<1>3. Judged /\ HeadErrors = <<>> /\ (errors = <<>> <=> before)
  BY <1>2 DEF JudgedInv, Judged
<1>4. at \in DOMAIN Page.conditions /\ Len(Page.conditions) \in Nat /\ PageItems = Page.conditions
  BY <1>2, ItemsTyped DEF PageItems
<1>5. at' - 1 = at
  BY <1>2
<1>6. (\A i \in 1..at : Passes(Page.conditions[i])) <=> before /\ Passes(condition)
  <2>1. at \in 1..at /\ \A i \in 1..at : i # at => i \in 1..(at - 1)
    BY <1>2
  <2>2. \A i \in 1..(at - 1) : i \in 1..at
    BY <1>2
  <2> QED BY <2>1, <2>2
<1>7. ASSUME pc' = "items", errors' = <<>> <=> errors = <<>> /\ Passes(condition)
      PROVE  JudgedInv'
  <2>1. Judged'
    <3> HIDE DEF before, condition
    <3>1. errors' = <<>> <=> \A i \in 1..at : Passes(Page.conditions[i])
      BY <1>3, <1>6, <1>7
    <3> QED BY <1>2, <1>3, <1>4, <1>5, <3>1, UnchangedInput DEF Judged
  <2>2. AcceptedIffExaminedReadable' /\ EveryBadGroupNamed'
    BY <1>7 DEF AcceptedIffExaminedReadable, EveryBadGroupNamed
  <2> QED BY <1>1, <2>1, <2>2 DEF JudgedInv
<1>8. CASE Skipped(condition)
  <2>1. pc' = pc /\ errors' = errors
    BY <1>8 DEF ReadCondition
  <2> QED BY <1>2, <1>7, <1>8, <2>1 DEF Passes, ReadableCondition
<1>9. CASE ~Skipped(condition) /\ TooFewHeaders(condition)
  <2>1. pc' = pc /\ errors' = Append(errors, "prereq_headers")
    BY <1>9 DEF ReadCondition
  <2>2. errors' # <<>>
    BY <1>2, <2>1, AppendProperties DEF BadParts
  <2> QED BY <1>2, <1>7, <1>9, <2>1, <2>2 DEF Passes, ReadableCondition
<1>10. CASE /\ ~Skipped(condition)
            /\ Overflows(HeaderValue(condition[1], 1)) \/ Overflows(HeaderValue(condition[1], 4))
            /\ pc' = "done" /\ result'.kind = "err"
  <2>1. ~Passes(condition)
    BY <1>10 DEF Passes, ReadableCondition
  <2>2. ~ExaminedReadable
    BY <1>2, <1>4, <2>1 DEF ExaminedReadable
  <2>3. AcceptedIffExaminedReadable' /\ EveryBadGroupNamed'
    BY <1>2, <1>10, <2>2, UnchangedInput DEF AcceptedIffExaminedReadable, EveryBadGroupNamed
  <2> QED BY <1>1, <1>10, <2>3 DEF JudgedInv
<1>11. CASE /\ ~Skipped(condition) /\ ~TooFewHeaders(condition)
            /\ ~Overflows(HeaderValue(condition[1], 1)) /\ ~Overflows(HeaderValue(condition[1], 4))
            /\ UNCHANGED <<pc, errors, result>>
  <2>1. Passes(condition)
    BY <1>11 DEF Passes, ReadableCondition
  <2> QED BY <1>2, <1>7, <1>11, <2>1
<1> QED BY <1>8, <1>9, <1>10, <1>11 DEF ReadCondition, Refuse, Finish

LEMMA ConcludeJudged ==
  ASSUME JudgedInv, Conclude
  PROVE  JudgedInv'
<1>1. ParserInv'
  BY ConcludeKeeps DEF JudgedInv
<1>2. /\ pc = "items" /\ pc' = "done" /\ input' = input /\ at > Len(PageItems)
      /\ input \in Inputs /\ at \in Nat \ {0} /\ input.fn \in {"course", "prereqs"}
      /\ errors \in Seq(BadParts)
  BY DEF JudgedInv, ParserInv, Parsed, Conclude, Refuse, Finish
<1>3. /\ result'.kind = "ok" <=> errors = <<>>
      /\ errors # <<>> => result'.kind = "err" /\ result'.errors = errors
      /\ result'.kind \in {"ok", "err"}
  BY DEF Conclude, Refuse, Finish
<1>4. Judged /\ HeadErrors = <<>> /\ ReadableHead /\ at - 1 <= Len(PageItems)
  BY <1>2, HeadRefused DEF JudgedInv, Judged
<1>5. CASE input.fn = "course"
  <2>1. /\ Len(Page.groups) \in Nat /\ DOMAIN Page.groups = 1..Len(Page.groups)
        /\ PageItems = Page.groups
    BY <1>2, <1>5, ItemsTyped DEF PageItems
  <2>2. at - 1 = Len(Page.groups)
    BY <1>2, <1>4, <2>1
  <2>3. Len(errors) = Cardinality(BadGroups(Len(Page.groups)))
    BY <1>4, <1>5, <2>2 DEF Judged
  <2>4. BadGroups(Len(Page.groups)) = { i \in DOMAIN Page.groups : ~ReadableGroup(Page.groups[i]) }
    BY <2>1 DEF BadGroups
  <2>5. errors = <<>> <=> \A i \in DOMAIN Page.groups : ReadableGroup(Page.groups[i])
    <3>1. errors = <<>> <=> Len(errors) = 0
      BY <1>2
    <3>2. Cardinality(BadGroups(Len(Page.groups))) = 0 <=> BadGroups(Len(Page.groups)) = {}
      BY <2>1, BadGroupsFinite, FS_EmptySet
    <3> QED BY <2>3, <2>4, <3>1, <3>2
  <2>6. ExaminedReadable <=> errors = <<>>
    BY <1>4, <1>5, <2>5 DEF ExaminedReadable
  <2>7. AcceptedIffExaminedReadable'
    BY <1>2, <1>3, <2>6, UnchangedInput DEF AcceptedIffExaminedReadable
  <2>8. EveryBadGroupNamed'
    <3> SUFFICES ASSUME result'.kind = "err"
                 PROVE  Len(result'.errors) = Cardinality({ i \in DOMAIN Page.groups : ~ReadableGroup(Page.groups[i]) })
      BY <1>2, UnchangedInput DEF EveryBadGroupNamed
    <3> QED BY <1>3, <2>3, <2>4
  <2> QED BY <1>1, <1>2, <2>7, <2>8 DEF JudgedInv
<1>6. CASE input.fn = "prereqs"
  <2>1. /\ Len(Page.conditions) \in Nat /\ DOMAIN Page.conditions = 1..Len(Page.conditions)
        /\ PageItems = Page.conditions
    BY <1>2, <1>6, ItemsTyped DEF PageItems
  <2>2. at - 1 = Len(Page.conditions)
    BY <1>2, <1>4, <2>1
  <2>3. errors = <<>> <=> \A i \in DOMAIN Page.conditions : Passes(Page.conditions[i])
    BY <1>4, <1>6, <2>1, <2>2 DEF Judged
  <2>4. ExaminedReadable <=> errors = <<>>
    BY <1>4, <1>6, <2>3 DEF ExaminedReadable
  <2>5. AcceptedIffExaminedReadable' /\ EveryBadGroupNamed'
    BY <1>2, <1>3, <1>6, <2>4, UnchangedInput DEF AcceptedIffExaminedReadable, EveryBadGroupNamed
  <2> QED BY <1>1, <1>2, <2>5 DEF JudgedInv
<1> QED BY <1>2, <1>5, <1>6

LEMMA NextKeepsJudged == JudgedInv /\ [Next]_vars => JudgedInv'
<1> SUFFICES ASSUME JudgedInv, [Next]_vars PROVE JudgedInv'
  OBVIOUS
<1>1. CASE Parse
  BY <1>1, ReadTableJudged, ReadHeadJudged, ReadGroupJudged, ReadConditionJudged, ConcludeJudged
  DEF Parse, ParserStep
<1>2. CASE UNCHANGED parser_vars
  <2>1. ParserInv'
    BY <1>2, NextKeepsParserInv DEF JudgedInv
  <2>2. UNCHANGED <<input, pc, at, errors, result>>
    BY <1>2 DEF parser_vars
  <2>3. Judged' = Judged /\ AcceptedIffExaminedReadable' = AcceptedIffExaminedReadable
    BY <2>2, UnchangedInput DEF Judged, AcceptedIffExaminedReadable
  <2>4. EveryBadGroupNamed' = EveryBadGroupNamed
    BY <2>2, UnchangedInput DEF EveryBadGroupNamed
  <2> QED BY <2>1, <2>2, <2>3, <2>4 DEF JudgedInv
<1>3. CASE ~Parse /\ Next
  BY <1>2, <1>3 DEF Next, Store, SetCourse, SetSession, RestoreSession, Ended, Rest,
     vars, parser_vars
<1>4. CASE UNCHANGED vars
  BY <1>2, <1>4 DEF vars, parser_vars
<1> QED BY <1>1, <1>3, <1>4

(* Of every page: it is accepted exactly when its head, each group and     *)
(* each condition can be read.                                             *)
THEOREM AcceptsReadable == Spec => []AcceptedIffExaminedReadable
<1>1. DataInit /\ ParserInv => JudgedInv
  BY NotYetJudged DEF DataInit, Init, JudgedInv
<1>2. JudgedInv => AcceptedIffExaminedReadable
  BY DEF JudgedInv
<1> QED BY InitParserInv, NextKeepsJudged, <1>1, <1>2, PTL DEF Spec

(* A course refused for its groups is refused with one error for each of   *)
(* them that cannot be read, however many the page has.                    *)
THEOREM NamesBadGroups == Spec => []EveryBadGroupNamed
<1>1. DataInit /\ ParserInv => JudgedInv
  BY NotYetJudged DEF DataInit, Init, JudgedInv
<1>2. JudgedInv => EveryBadGroupNamed
  BY DEF JudgedInv
<1> QED BY InitParserInv, NextKeepsJudged, <1>1, <1>2, PTL DEF Spec
-----------------------------------------------------------------------------
(* What __setstate__ has read when it succeeds: every field was there and  *)
(* of its type, and so was every part of the list.                         *)
HasFields(class, obj) == obj = [f \in ToSet(FieldsOf[class]) |-> obj[f]]

AllRead(class, d) == \A f \in ToSet(FieldsOf[class]) : f \in DOMAIN d /\ d[f] # BadType

LEMMA ScheduleRead ==
  ASSUME NEW d, SetScheduleState(d).ok
  PROVE  /\ AllRead("Schedule", d)
         /\ SetScheduleState(d).model = [f \in ToSet(FieldsOf["Schedule"]) |-> d[f]]
<1> DEFINE fields == FieldsOf["Schedule"]
           Fails(f) == f \notin DOMAIN d \/ d[f] = BadType
           assigned == { i \in DOMAIN fields : \A j \in 1..i : ~Fails(fields[j]) }
<1>1. Parts("Schedule") = "none" /\ fields = ScheduleFields /\ DOMAIN fields = 1..4
  BY DEF Parts, Composite, FieldsOf, ScheduleFields
<1>2. d # BadType
  BY DEF SetScheduleState, SetStateOf
<1>3. "none" \notin ToSet(fields)
  BY <1>1 DEF ToSet, ScheduleFields
<1>4. assigned = DOMAIN fields
  BY <1>1, <1>2 DEF SetScheduleState, SetStateOf, ScheduleFields
<1>5. \A i \in DOMAIN fields : ~Fails(fields[i]) /\ i \in assigned
  BY <1>1, <1>4
<1>6. \A f \in ToSet(fields) : ~Fails(f) /\ \E i \in assigned : fields[i] = f
  BY <1>5 DEF ToSet
<1>7. SetScheduleState(d).model = [f \in ToSet(fields) |-> d[f]]
  BY <1>1, <1>2, <1>3, <1>6 DEF SetScheduleState, SetStateOf, ScheduleFields
<1> QED BY <1>6, <1>7 DEF AllRead

LEMMA ScheduleBack ==
  ASSUME NEW obj, HasFields("Schedule", obj), SetScheduleState(ScheduleState(obj)).ok
  PROVE  SetScheduleState(ScheduleState(obj)).model = obj
<1>1. Parts("Schedule") = "none" /\ "none" \notin ToSet(FieldsOf["Schedule"])
  BY DEF Parts, Composite, FieldsOf, ScheduleFields, ToSet
<1>2. ScheduleState(obj) = [f \in ToSet(FieldsOf["Schedule"]) |-> obj[f]]
  BY <1>1 DEF ScheduleState, StateOf
<1> QED BY <1>2, ScheduleRead DEF HasFields

LEMMA PrerequisiteRead ==
  ASSUME NEW d, SetPrerequisiteState(d).ok
  PROVE  /\ AllRead("Prerequisite", d)
         /\ SetPrerequisiteState(d).model = [f \in ToSet(FieldsOf["Prerequisite"]) |-> d[f]]
<1> DEFINE fields == FieldsOf["Prerequisite"]
           Fails(f) == f \notin DOMAIN d \/ d[f] = BadType
           assigned == { i \in DOMAIN fields : \A j \in 1..i : ~Fails(fields[j]) }
<1>1. Parts("Prerequisite") = "none" /\ fields = PrerequisiteFields /\ DOMAIN fields = 1..2
  BY DEF Parts, Composite, FieldsOf, PrerequisiteFields
<1>2. d # BadType
  BY DEF SetPrerequisiteState, SetStateOf
<1>3. "none" \notin ToSet(fields)
  BY <1>1 DEF ToSet, PrerequisiteFields
<1>4. assigned = DOMAIN fields
  BY <1>1, <1>2 DEF SetPrerequisiteState, SetStateOf, PrerequisiteFields
<1>5. \A i \in DOMAIN fields : ~Fails(fields[i]) /\ i \in assigned
  BY <1>1, <1>4
<1>6. \A f \in ToSet(fields) : ~Fails(f) /\ \E i \in assigned : fields[i] = f
  BY <1>5 DEF ToSet
<1>7. SetPrerequisiteState(d).model = [f \in ToSet(fields) |-> d[f]]
  BY <1>1, <1>2, <1>3, <1>6 DEF SetPrerequisiteState, SetStateOf, PrerequisiteFields
<1> QED BY <1>6, <1>7 DEF AllRead

LEMMA PrerequisiteBack ==
  ASSUME NEW obj, HasFields("Prerequisite", obj), SetPrerequisiteState(PrerequisiteState(obj)).ok
  PROVE  SetPrerequisiteState(PrerequisiteState(obj)).model = obj
<1>1. Parts("Prerequisite") = "none" /\ "none" \notin ToSet(FieldsOf["Prerequisite"])
  BY DEF Parts, Composite, FieldsOf, PrerequisiteFields, ToSet
<1>2. PrerequisiteState(obj) = [f \in ToSet(FieldsOf["Prerequisite"]) |-> obj[f]]
  BY <1>1 DEF PrerequisiteState, StateOf
<1> QED BY <1>2, PrerequisiteRead DEF HasFields

LEMMA GroupRead ==
  ASSUME NEW d, SetGroupState(d).ok
  PROVE  /\ AllRead("Group", d)
         /\ \A i \in DOMAIN d["schedules"] : SetScheduleState(d["schedules"][i]).ok
         /\ SetGroupState(d).model =
              [f \in ToSet(FieldsOf["Group"]) |->
                 IF f = "schedules" THEN [i \in DOMAIN d[f] |-> SetScheduleState(d[f][i]).model] ELSE d[f]]
<1> DEFINE fields == FieldsOf["Group"]
           Fails(f) == \/ f \notin DOMAIN d
                       \/ d[f] = BadType
                       \/ f = "schedules" /\ \E i \in DOMAIN d[f] : ~SetScheduleState(d[f][i]).ok
           assigned == { i \in DOMAIN fields : \A j \in 1..i : ~Fails(fields[j]) }
<1>1. /\ Parts("Group") = "schedules" /\ fields = GroupFields /\ DOMAIN fields = 1..9
      /\ "schedules" \in ToSet(fields)
  <2>1. fields = GroupFields /\ DOMAIN GroupFields = 1..9 /\ Len(GroupFields) = 9 /\ GroupFields[9] = "schedules"
    BY DEF FieldsOf, GroupFields
  <2> QED BY <2>1 DEF Parts, Last, Composite, ToSet
<1>2. d # BadType
  BY DEF SetGroupState, SetStateOf
<1>3. SetGroupState(d).ok <=> assigned = DOMAIN fields
  BY <1>1, <1>2 DEF SetGroupState, SetStateOf
<1>4. assigned = DOMAIN fields
  BY <1>3
<1>5. \A i \in DOMAIN fields : ~Fails(fields[i]) /\ i \in assigned
  <2> HIDE DEF Fails, fields
  <2> QED BY <1>1, <1>4
<1>6. \A f \in ToSet(fields) : ~Fails(f) /\ \E i \in assigned : fields[i] = f
  <2> HIDE DEF Fails, assigned
  <2> QED BY <1>5 DEF ToSet
<1>7. SetGroupState(d).model =
        [f \in ToSet(fields) |->
           IF f = "schedules" THEN [i \in DOMAIN d[f] |-> SetScheduleState(d[f][i]).model] ELSE d[f]]
  BY <1>1, <1>2, <1>6 DEF SetGroupState, SetStateOf
<1>8. \A i \in DOMAIN d["schedules"] : SetScheduleState(d["schedules"][i]).ok
  BY <1>1, <1>6
<1> QED BY <1>6, <1>7, <1>8 DEF AllRead

(* The list is a list of parts.                                            *)
IsGroup(obj) ==
  /\ HasFields("Group", obj)
  /\ IsSequence(obj["schedules"])
  /\ \A i \in DOMAIN obj["schedules"] : HasFields("Schedule", obj["schedules"][i])

LEMMA GroupStored ==
  ASSUME NEW obj
  PROVE  GroupState(obj) =
           [f \in ToSet(FieldsOf["Group"]) |->
              IF f = "schedules" THEN [i \in DOMAIN obj[f] |-> ScheduleState(obj[f][i])] ELSE obj[f]]
<1>1. Parts("Group") = "schedules"
  <2>1. FieldsOf["Group"] = GroupFields /\ Len(GroupFields) = 9 /\ GroupFields[9] = "schedules"
    BY DEF FieldsOf, GroupFields
  <2> QED BY <2>1 DEF Parts, Last, Composite
<1> QED BY <1>1 DEF GroupState, StateOf

LEMMA GroupBack ==
  ASSUME NEW obj, IsGroup(obj), SetGroupState(GroupState(obj)).ok
  PROVE  SetGroupState(GroupState(obj)).model = obj
<1> DEFINE d == GroupState(obj)
           parts == obj["schedules"]
<1>1. d = [f \in ToSet(FieldsOf["Group"]) |->
             IF f = "schedules" THEN [i \in DOMAIN obj[f] |-> ScheduleState(obj[f][i])] ELSE obj[f]]
  BY GroupStored
<1>2. "schedules" \in ToSet(FieldsOf["Group"])
  <2>1. FieldsOf["Group"] = GroupFields /\ DOMAIN GroupFields = 1..9 /\ GroupFields[9] = "schedules"
    BY DEF FieldsOf, GroupFields
  <2> QED BY <2>1 DEF ToSet
<1>3. d["schedules"] = [i \in DOMAIN parts |-> ScheduleState(parts[i])]
  BY <1>1, <1>2
<1> HIDE DEF d
<1>4. /\ \A i \in DOMAIN d["schedules"] : SetScheduleState(d["schedules"][i]).ok
      /\ SetGroupState(d).model =
           [f \in ToSet(FieldsOf["Group"]) |->
              IF f = "schedules" THEN [i \in DOMAIN d[f] |-> SetScheduleState(d[f][i]).model] ELSE d[f]]
  BY GroupRead DEF d
<1>5. \A i \in DOMAIN parts : SetScheduleState(ScheduleState(parts[i])).model = parts[i]
  <2>1. ASSUME NEW i \in DOMAIN parts PROVE SetScheduleState(ScheduleState(parts[i])).ok
    BY <1>3, <1>4
  <2> QED BY <2>1, ScheduleBack DEF IsGroup
<1>6. parts = [i \in DOMAIN parts |-> parts[i]]
  <2>1. parts \in Seq(ToSet(parts))
    BY DEF IsGroup, IsSequence
  <2> HIDE DEF parts
  <2> QED BY <2>1
<1>7. [i \in DOMAIN d["schedules"] |-> SetScheduleState(d["schedules"][i]).model] = parts
  <2> HIDE DEF parts
  <2>1. DOMAIN d["schedules"] = DOMAIN parts
    BY <1>3
  <2>2. \A i \in DOMAIN parts : SetScheduleState(d["schedules"][i]).model = parts[i]
    BY <1>3, <1>5
  <2> QED BY <1>6, <2>1, <2>2
<1>8. SetGroupState(d).model = [f \in ToSet(FieldsOf["Group"]) |-> obj[f]]
  <2>1. ASSUME NEW f \in ToSet(FieldsOf["Group"])
        PROVE  (IF f = "schedules" THEN [i \in DOMAIN d[f] |-> SetScheduleState(d[f][i]).model] ELSE d[f])
                 = obj[f]
    <3>1. CASE f = "schedules"
      BY <1>7, <3>1, Zenon
    <3>2. CASE f # "schedules"
      BY <1>1, <3>2
    <3> QED BY <3>1, <3>2
  <2> QED BY <1>4, <2>1, Zenon
<1> QED BY <1>8 DEF IsGroup, HasFields, d

LEMMA ConditionRead ==
  ASSUME NEW d, SetConditionState(d).ok
  PROVE  /\ AllRead("Condition", d)
         /\ \A i \in DOMAIN d["prerequisites"] : SetPrerequisiteState(d["prerequisites"][i]).ok
         /\ SetConditionState(d).model =
              [f \in ToSet(FieldsOf["Condition"]) |->
                 IF f = "prerequisites" THEN [i \in DOMAIN d[f] |-> SetPrerequisiteState(d[f][i]).model] ELSE d[f]]
<1> DEFINE fields == FieldsOf["Condition"]
           Fails(f) == \/ f \notin DOMAIN d
                       \/ d[f] = BadType
                       \/ f = "prerequisites" /\ \E i \in DOMAIN d[f] : ~SetPrerequisiteState(d[f][i]).ok
           assigned == { i \in DOMAIN fields : \A j \in 1..i : ~Fails(fields[j]) }
<1>1. /\ Parts("Condition") = "prerequisites" /\ fields = ConditionFields /\ DOMAIN fields = 1..5
      /\ "prerequisites" \in ToSet(fields)
  <2>1. fields = ConditionFields /\ DOMAIN ConditionFields = 1..5 /\ Len(ConditionFields) = 5 /\ ConditionFields[5] = "prerequisites"
    BY DEF FieldsOf, ConditionFields
  <2> QED BY <2>1 DEF Parts, Last, Composite, ToSet
<1>2. d # BadType
  BY DEF SetConditionState, SetStateOf
<1>3. SetConditionState(d).ok <=> assigned = DOMAIN fields
  BY <1>1, <1>2 DEF SetConditionState, SetStateOf
<1>4. assigned = DOMAIN fields
  BY <1>3
<1>5. \A i \in DOMAIN fields : ~Fails(fields[i]) /\ i \in assigned
  <2> HIDE DEF Fails, fields
  <2> QED BY <1>1, <1>4
<1>6. \A f \in ToSet(fields) : ~Fails(f) /\ \E i \in assigned : fields[i] = f
  <2> HIDE DEF Fails, assigned
  <2> QED BY <1>5 DEF ToSet
<1>7. SetConditionState(d).model =
        [f \in ToSet(fields) |->
           IF f = "prerequisites" THEN [i \in DOMAIN d[f] |-> SetPrerequisiteState(d[f][i]).model] ELSE d[f]]
  BY <1>1, <1>2, <1>6 DEF SetConditionState, SetStateOf
<1>8. \A i \in DOMAIN d["prerequisites"] : SetPrerequisiteState(d["prerequisites"][i]).ok
  BY <1>1, <1>6
<1> QED BY <1>6, <1>7, <1>8 DEF AllRead

(* The list is a list of parts.                                            *)
IsCondition(obj) ==
  /\ HasFields("Condition", obj)
  /\ IsSequence(obj["prerequisites"])
  /\ \A i \in DOMAIN obj["prerequisites"] : HasFields("Prerequisite", obj["prerequisites"][i])

LEMMA ConditionStored ==
  ASSUME NEW obj
  PROVE  ConditionState(obj) =
           [f \in ToSet(FieldsOf["Condition"]) |->
              IF f = "prerequisites" THEN [i \in DOMAIN obj[f] |-> PrerequisiteState(obj[f][i])] ELSE obj[f]]
<1>1. Parts("Condition") = "prerequisites"
  <2>1. FieldsOf["Condition"] = ConditionFields /\ Len(ConditionFields) = 5 /\ ConditionFields[5] = "prerequisites"
    BY DEF FieldsOf, ConditionFields
  <2> QED BY <2>1 DEF Parts, Last, Composite
<1> QED BY <1>1 DEF ConditionState, StateOf

LEMMA ConditionBack ==
  ASSUME NEW obj, IsCondition(obj), SetConditionState(ConditionState(obj)).ok
  PROVE  SetConditionState(ConditionState(obj)).model = obj
<1> DEFINE d == ConditionState(obj)
           parts == obj["prerequisites"]
<1>1. d = [f \in ToSet(FieldsOf["Condition"]) |->
             IF f = "prerequisites" THEN [i \in DOMAIN obj[f] |-> PrerequisiteState(obj[f][i])] ELSE obj[f]]
  BY ConditionStored
<1>2. "prerequisites" \in ToSet(FieldsOf["Condition"])
  <2>1. FieldsOf["Condition"] = ConditionFields /\ DOMAIN ConditionFields = 1..5 /\ ConditionFields[5] = "prerequisites"
    BY DEF FieldsOf, ConditionFields
  <2> QED BY <2>1 DEF ToSet
<1>3. d["prerequisites"] = [i \in DOMAIN parts |-> PrerequisiteState(parts[i])]
  BY <1>1, <1>2
<1> HIDE DEF d
<1>4. /\ \A i \in DOMAIN d["prerequisites"] : SetPrerequisiteState(d["prerequisites"][i]).ok
      /\ SetConditionState(d).model =
           [f \in ToSet(FieldsOf["Condition"]) |->
              IF f = "prerequisites" THEN [i \in DOMAIN d[f] |-> SetPrerequisiteState(d[f][i]).model] ELSE d[f]]
  BY ConditionRead DEF d
<1>5. \A i \in DOMAIN parts : SetPrerequisiteState(PrerequisiteState(parts[i])).model = parts[i]
  <2>1. ASSUME NEW i \in DOMAIN parts PROVE SetPrerequisiteState(PrerequisiteState(parts[i])).ok
    BY <1>3, <1>4
  <2> QED BY <2>1, PrerequisiteBack DEF IsCondition
<1>6. parts = [i \in DOMAIN parts |-> parts[i]]
  <2>1. parts \in Seq(ToSet(parts))
    BY DEF IsCondition, IsSequence
  <2> HIDE DEF parts
  <2> QED BY <2>1
<1>7. [i \in DOMAIN d["prerequisites"] |-> SetPrerequisiteState(d["prerequisites"][i]).model] = parts
  <2> HIDE DEF parts
  <2>1. DOMAIN d["prerequisites"] = DOMAIN parts
    BY <1>3
  <2>2. \A i \in DOMAIN parts : SetPrerequisiteState(d["prerequisites"][i]).model = parts[i]
    BY <1>3, <1>5
  <2> QED BY <1>6, <2>1, <2>2
<1>8. SetConditionState(d).model = [f \in ToSet(FieldsOf["Condition"]) |-> obj[f]]
  <2>1. ASSUME NEW f \in ToSet(FieldsOf["Condition"])
        PROVE  (IF f = "prerequisites" THEN [i \in DOMAIN d[f] |-> SetPrerequisiteState(d[f][i]).model] ELSE d[f])
                 = obj[f]
    <3>1. CASE f = "prerequisites"
      BY <1>7, <3>1, Zenon
    <3>2. CASE f # "prerequisites"
      BY <1>1, <3>2
    <3> QED BY <3>1, <3>2
  <2> QED BY <1>4, <2>1, Zenon
<1> QED BY <1>8 DEF IsCondition, HasFields, d

LEMMA CourseInfoRead ==
  ASSUME NEW obj, NEW d, SetCourseInfoState(obj, d).ok
  PROVE  /\ AllRead("CourseInfo", d)
         /\ \A i \in DOMAIN d["groups"] : SetGroupState(d["groups"][i]).ok
         /\ SetCourseInfoState(obj, d).model =
              [f \in ToSet(FieldsOf["CourseInfo"]) |->
                 IF f = "groups" THEN [i \in DOMAIN d[f] |-> SetGroupState(d[f][i]).model] ELSE d[f]]
<1> DEFINE fields == FieldsOf["CourseInfo"]
           Fails(f) == \/ f \notin DOMAIN d
                       \/ d[f] = BadType
                       \/ f = "groups" /\ \E i \in DOMAIN d[f] : ~SetGroupState(d[f][i]).ok
           assigned == { i \in DOMAIN fields : \A j \in 1..i : ~Fails(fields[j]) }
<1>1. /\ Parts("CourseInfo") = "groups" /\ fields = CourseInfoFields /\ DOMAIN fields = 1..7
      /\ "groups" \in ToSet(fields)
  <2>1. fields = CourseInfoFields /\ DOMAIN CourseInfoFields = 1..7 /\ Len(CourseInfoFields) = 7 /\ CourseInfoFields[7] = "groups"
    BY DEF FieldsOf, CourseInfoFields
  <2> QED BY <2>1 DEF Parts, Last, Composite, ToSet
<1>2. d # BadType
  BY DEF SetCourseInfoState, SetStateOf
<1>3. SetCourseInfoState(obj, d).ok <=> assigned = DOMAIN fields
  BY <1>1, <1>2 DEF SetCourseInfoState, SetStateOf
<1>4. assigned = DOMAIN fields
  BY <1>3
<1>5. \A i \in DOMAIN fields : ~Fails(fields[i]) /\ i \in assigned
  <2> HIDE DEF Fails, fields
  <2> QED BY <1>1, <1>4
<1>6. \A f \in ToSet(fields) : ~Fails(f) /\ \E i \in assigned : fields[i] = f
  <2> HIDE DEF Fails, assigned
  <2> QED BY <1>5 DEF ToSet
<1>7. SetCourseInfoState(obj, d).model =
        [f \in ToSet(fields) |->
           IF f = "groups" THEN [i \in DOMAIN d[f] |-> SetGroupState(d[f][i]).model] ELSE d[f]]
  BY <1>1, <1>2, <1>6 DEF SetCourseInfoState, SetStateOf
<1>8. \A i \in DOMAIN d["groups"] : SetGroupState(d["groups"][i]).ok
  BY <1>1, <1>6
<1> QED BY <1>6, <1>7, <1>8 DEF AllRead

(* The list is a list of parts.                                            *)
IsCourseInfo(obj) ==
  /\ HasFields("CourseInfo", obj)
  /\ IsSequence(obj["groups"])
  /\ \A i \in DOMAIN obj["groups"] : IsGroup(obj["groups"][i])

LEMMA CourseInfoStored ==
  ASSUME NEW mine
  PROVE  CourseInfoState(mine) =
           [f \in ToSet(FieldsOf["CourseInfo"]) |->
              IF f = "groups" THEN [i \in DOMAIN mine[f] |-> GroupState(mine[f][i])] ELSE mine[f]]
<1>1. Parts("CourseInfo") = "groups"
  <2>1. FieldsOf["CourseInfo"] = CourseInfoFields /\ Len(CourseInfoFields) = 7 /\ CourseInfoFields[7] = "groups"
    BY DEF FieldsOf, CourseInfoFields
  <2> QED BY <2>1 DEF Parts, Last, Composite
<1> QED BY <1>1 DEF CourseInfoState, StateOf

LEMMA CourseInfoBack ==
  ASSUME NEW obj, NEW mine, IsCourseInfo(mine), SetCourseInfoState(obj, CourseInfoState(mine)).ok
  PROVE  SetCourseInfoState(obj, CourseInfoState(mine)).model = mine
<1> DEFINE d == CourseInfoState(mine)
           parts == mine["groups"]
<1>1. d = [f \in ToSet(FieldsOf["CourseInfo"]) |->
             IF f = "groups" THEN [i \in DOMAIN mine[f] |-> GroupState(mine[f][i])] ELSE mine[f]]
  BY CourseInfoStored
<1>2. "groups" \in ToSet(FieldsOf["CourseInfo"])
  <2>1. FieldsOf["CourseInfo"] = CourseInfoFields /\ DOMAIN CourseInfoFields = 1..7 /\ CourseInfoFields[7] = "groups"
    BY DEF FieldsOf, CourseInfoFields
  <2> QED BY <2>1 DEF ToSet
<1>3. d["groups"] = [i \in DOMAIN parts |-> GroupState(parts[i])]
  BY <1>1, <1>2
<1> HIDE DEF d
<1>4. /\ \A i \in DOMAIN d["groups"] : SetGroupState(d["groups"][i]).ok
      /\ SetCourseInfoState(obj, d).model =
           [f \in ToSet(FieldsOf["CourseInfo"]) |->
              IF f = "groups" THEN [i \in DOMAIN d[f] |-> SetGroupState(d[f][i]).model] ELSE d[f]]
  BY CourseInfoRead DEF d
<1>5. \A i \in DOMAIN parts : SetGroupState(GroupState(parts[i])).model = parts[i]
  <2>1. ASSUME NEW i \in DOMAIN parts PROVE SetGroupState(GroupState(parts[i])).ok
    BY <1>3, <1>4
  <2> QED BY <2>1, GroupBack DEF IsCourseInfo
<1>6. parts = [i \in DOMAIN parts |-> parts[i]]
  <2>1. parts \in Seq(ToSet(parts))
    BY DEF IsCourseInfo, IsSequence
  <2> HIDE DEF parts
  <2> QED BY <2>1
<1>7. [i \in DOMAIN d["groups"] |-> SetGroupState(d["groups"][i]).model] = parts
  <2> HIDE DEF parts
  <2>1. DOMAIN d["groups"] = DOMAIN parts
    BY <1>3
  <2>2. \A i \in DOMAIN parts : SetGroupState(d["groups"][i]).model = parts[i]
    BY <1>3, <1>5
  <2> QED BY <1>6, <2>1, <2>2
<1>8. SetCourseInfoState(obj, d).model = [f \in ToSet(FieldsOf["CourseInfo"]) |-> mine[f]]
  <2>1. ASSUME NEW f \in ToSet(FieldsOf["CourseInfo"])
        PROVE  (IF f = "groups" THEN [i \in DOMAIN d[f] |-> SetGroupState(d[f][i]).model] ELSE d[f])
                 = mine[f]
    <3>1. CASE f = "groups"
      BY <1>7, <3>1, Zenon
    <3>2. CASE f # "groups"
      BY <1>1, <3>2
    <3> QED BY <3>1, <3>2
  <2> QED BY <1>4, <2>1, Zenon
<1> QED BY <1>8 DEF IsCourseInfo, HasFields, d

LEMMA CoursePrereqsRead ==
  ASSUME NEW obj, NEW d, SetCoursePrereqsState(obj, d).ok
  PROVE  /\ AllRead("CoursePrereqs", d)
         /\ \A i \in DOMAIN d["conditions"] : SetConditionState(d["conditions"][i]).ok
         /\ SetCoursePrereqsState(obj, d).model =
              [f \in ToSet(FieldsOf["CoursePrereqs"]) |->
                 IF f = "conditions" THEN [i \in DOMAIN d[f] |-> SetConditionState(d[f][i]).model] ELSE d[f]]
<1> DEFINE fields == FieldsOf["CoursePrereqs"]
           Fails(f) == \/ f \notin DOMAIN d
                       \/ d[f] = BadType
                       \/ f = "conditions" /\ \E i \in DOMAIN d[f] : ~SetConditionState(d[f][i]).ok
           assigned == { i \in DOMAIN fields : \A j \in 1..i : ~Fails(fields[j]) }
<1>1. /\ Parts("CoursePrereqs") = "conditions" /\ fields = CoursePrereqsFields /\ DOMAIN fields = 1..5
      /\ "conditions" \in ToSet(fields)
  <2>1. fields = CoursePrereqsFields /\ DOMAIN CoursePrereqsFields = 1..5 /\ Len(CoursePrereqsFields) = 5 /\ CoursePrereqsFields[5] = "conditions"
    BY DEF FieldsOf, CoursePrereqsFields
  <2> QED BY <2>1 DEF Parts, Last, Composite, ToSet
<1>2. d # BadType
  BY DEF SetCoursePrereqsState, SetStateOf
<1>3. SetCoursePrereqsState(obj, d).ok <=> assigned = DOMAIN fields
  BY <1>1, <1>2 DEF SetCoursePrereqsState, SetStateOf
<1>4. assigned = DOMAIN fields
  BY <1>3
<1>5. \A i \in DOMAIN fields : ~Fails(fields[i]) /\ i \in assigned
  <2> HIDE DEF Fails, fields
  <2> QED BY <1>1, <1>4
<1>6. \A f \in ToSet(fields) : ~Fails(f) /\ \E i \in assigned : fields[i] = f
  <2> HIDE DEF Fails, assigned
  <2> QED BY <1>5 DEF ToSet
<1>7. SetCoursePrereqsState(obj, d).model =
        [f \in ToSet(fields) |->
           IF f = "conditions" THEN [i \in DOMAIN d[f] |-> SetConditionState(d[f][i]).model] ELSE d[f]]
  BY <1>1, <1>2, <1>6 DEF SetCoursePrereqsState, SetStateOf
<1>8. \A i \in DOMAIN d["conditions"] : SetConditionState(d["conditions"][i]).ok
  BY <1>1, <1>6
<1> QED BY <1>6, <1>7, <1>8 DEF AllRead

(* The list is a list of parts.                                            *)
IsCoursePrereqs(obj) ==
  /\ HasFields("CoursePrereqs", obj)
  /\ IsSequence(obj["conditions"])
  /\ \A i \in DOMAIN obj["conditions"] : IsCondition(obj["conditions"][i])

LEMMA CoursePrereqsStored ==
  ASSUME NEW mine
  PROVE  CoursePrereqsState(mine) =
           [f \in ToSet(FieldsOf["CoursePrereqs"]) |->
              IF f = "conditions" THEN [i \in DOMAIN mine[f] |-> ConditionState(mine[f][i])] ELSE mine[f]]
<1>1. Parts("CoursePrereqs") = "conditions"
  <2>1. FieldsOf["CoursePrereqs"] = CoursePrereqsFields /\ Len(CoursePrereqsFields) = 5 /\ CoursePrereqsFields[5] = "conditions"
    BY DEF FieldsOf, CoursePrereqsFields
  <2> QED BY <2>1 DEF Parts, Last, Composite
<1> QED BY <1>1 DEF CoursePrereqsState, StateOf

LEMMA CoursePrereqsBack ==
  ASSUME NEW obj, NEW mine, IsCoursePrereqs(mine), SetCoursePrereqsState(obj, CoursePrereqsState(mine)).ok
  PROVE  SetCoursePrereqsState(obj, CoursePrereqsState(mine)).model = mine
<1> DEFINE d == CoursePrereqsState(mine)
           parts == mine["conditions"]
<1>1. d = [f \in ToSet(FieldsOf["CoursePrereqs"]) |->
             IF f = "conditions" THEN [i \in DOMAIN mine[f] |-> ConditionState(mine[f][i])] ELSE mine[f]]
  BY CoursePrereqsStored
<1>2. "conditions" \in ToSet(FieldsOf["CoursePrereqs"])
  <2>1. FieldsOf["CoursePrereqs"] = CoursePrereqsFields /\ DOMAIN CoursePrereqsFields = 1..5 /\ CoursePrereqsFields[5] = "conditions"
    BY DEF FieldsOf, CoursePrereqsFields
  <2> QED BY <2>1 DEF ToSet
<1>3. d["conditions"] = [i \in DOMAIN parts |-> ConditionState(parts[i])]
  BY <1>1, <1>2
<1> HIDE DEF d
<1>4. /\ \A i \in DOMAIN d["conditions"] : SetConditionState(d["conditions"][i]).ok
      /\ SetCoursePrereqsState(obj, d).model =
           [f \in ToSet(FieldsOf["CoursePrereqs"]) |->
              IF f = "conditions" THEN [i \in DOMAIN d[f] |-> SetConditionState(d[f][i]).model] ELSE d[f]]
  BY CoursePrereqsRead DEF d
<1>5. \A i \in DOMAIN parts : SetConditionState(ConditionState(parts[i])).model = parts[i]
  <2>1. ASSUME NEW i \in DOMAIN parts PROVE SetConditionState(ConditionState(parts[i])).ok
    BY <1>3, <1>4
  <2> QED BY <2>1, ConditionBack DEF IsCoursePrereqs
<1>6. parts = [i \in DOMAIN parts |-> parts[i]]
  <2>1. parts \in Seq(ToSet(parts))
    BY DEF IsCoursePrereqs, IsSequence
  <2> HIDE DEF parts
  <2> QED BY <2>1
<1>7. [i \in DOMAIN d["conditions"] |-> SetConditionState(d["conditions"][i]).model] = parts
  <2> HIDE DEF parts
  <2>1. DOMAIN d["conditions"] = DOMAIN parts
    BY <1>3
  <2>2. \A i \in DOMAIN parts : SetConditionState(d["conditions"][i]).model = parts[i]
    BY <1>3, <1>5
  <2> QED BY <1>6, <2>1, <2>2
<1>8. SetCoursePrereqsState(obj, d).model = [f \in ToSet(FieldsOf["CoursePrereqs"]) |-> mine[f]]
  <2>1. ASSUME NEW f \in ToSet(FieldsOf["CoursePrereqs"])
        PROVE  (IF f = "conditions" THEN [i \in DOMAIN d[f] |-> SetConditionState(d[f][i]).model] ELSE d[f])
                 = mine[f]
    <3>1. CASE f = "conditions"
      BY <1>7, <3>1, Zenon
    <3>2. CASE f # "conditions"
      BY <1>1, <3>2
    <3> QED BY <3>1, <3>2
  <2> QED BY <1>4, <2>1, Zenon
<1> QED BY <1>8 DEF IsCoursePrereqs, HasFields, d
-----------------------------------------------------------------------------
(* Damage to a dictionary is seen by whoever has to read all its fields.   *)
LEMMA DamageSeen ==
  ASSUME NEW class, NEW d, NEW dm \in Damages,
         DOMAIN d = ToSet(FieldsOf[class]), dm.key \in DOMAIN d
  PROVE  ~AllRead(class, Damaged(d, dm))
<1>1. CASE dm.kind = "lost"
  <2>1. Damaged(d, dm) = [k \in DOMAIN d \ {dm.key} |-> d[k]]
    BY <1>1 DEF Damaged, Without
  <2> QED BY <2>1 DEF AllRead
<1>2. CASE dm.kind = "mistyped"
  <2>1. Damaged(d, dm) = [d EXCEPT ![dm.key] = BadType]
    BY <1>2 DEF Damaged, Mistyped
  <2> QED BY <2>1 DEF AllRead
<1> QED BY <1>1, <1>2, StoreAssumption

LEMMA CourseLoaded ==
  ASSUME NEW obj, NEW mine, IsCourseInfo(mine), Class = "CourseInfo",
         NEW dm \in Damages \cup {Intact}, Applies(CourseInfoState(mine), dm),
         SetCourseInfoState(obj, DamagedIn(CourseInfoState(mine), dm)).ok
  PROVE  dm = Intact /\ SetCourseInfoState(obj, DamagedIn(CourseInfoState(mine), dm)).model = mine
<1> DEFINE d == CourseInfoState(mine)
           list == d["groups"]
           read == DamagedIn(d, dm)
<1>1. /\ Parts("CourseInfo") = "groups" /\ "groups" \in ToSet(FieldsOf["CourseInfo"])
  BY CourseFields
<1>2. /\ d = [f \in ToSet(FieldsOf["CourseInfo"]) |->
               IF f = "groups" THEN [i \in DOMAIN mine[f] |-> GroupState(mine[f][i])] ELSE mine[f]]
  BY CourseInfoStored
<1>3. list = [i \in DOMAIN mine["groups"] |-> GroupState(mine["groups"][i])]
  BY <1>1, <1>2
<1>4. DOMAIN d = ToSet(FieldsOf["CourseInfo"])
  BY <1>2
<1>5. Applies(d, dm) /\ SetCourseInfoState(obj, read).ok
  OBVIOUS
<1>6. DOMAIN mine["groups"] = 1..Len(mine["groups"]) /\ Len(mine["groups"]) \in Nat
  <2>1. mine["groups"] \in Seq(ToSet(mine["groups"]))
    BY DEF IsCourseInfo, IsSequence
  <2> QED BY <2>1, LenProperties
<1> HIDE DEF d
<1>7. CASE dm # Intact /\ dm.key \in DOMAIN d
  <2>1. read = Damaged(d, dm)
    BY <1>7 DEF DamagedIn
  <2>2. AllRead("CourseInfo", Damaged(d, dm))
    BY <1>5, <2>1, CourseInfoRead
  <2> QED BY <1>4, <1>7, <2>2, DamageSeen
<1>8. CASE dm # Intact /\ dm.key \notin DOMAIN d
  <2> DEFINE n == Len(list)
             hurt == Damaged(list[n], dm)
  <2>1. list # <<>> /\ dm.key \in DOMAIN Last(list)
    BY <1>1, <1>5, <1>8 DEF Applies
  <2>2. n = Len(mine["groups"]) /\ DOMAIN list = 1..n /\ n \in Nat
    <3> HIDE DEF list
    <3> QED BY <1>3, <1>6
  <2>3. n \in DOMAIN list
    <3>1. n # 0
      BY <1>3, <1>6, <2>1, <2>2
    <3> QED BY <2>2, <3>1
  <2>4. read = [d EXCEPT !["groups"] = [list EXCEPT ![n] = hurt]]
    BY <1>1, <1>8 DEF DamagedIn
  <2>5. read["groups"] = [list EXCEPT ![n] = hurt]
    BY <1>1, <1>4, <2>4
  <2>6. n \in DOMAIN read["groups"] /\ read["groups"][n] = hurt
    <3> HIDE DEF read, list, hurt, n
    <3> QED BY <2>3, <2>5
  <2>7. SetGroupState(hurt).ok
    <3> HIDE DEF read, hurt, n
    <3> QED BY <1>5, <2>6, CourseInfoRead
  <2>8. AllRead("Group", hurt)
    BY <2>7, GroupRead
  <2>9. list[n] = GroupState(mine["groups"][n])
    BY <1>3, <2>3
  <2>10. DOMAIN list[n] = ToSet(FieldsOf["Group"])
    BY <2>9, GroupStored
  <2>11. dm.key \in DOMAIN list[n]
    BY <2>1 DEF Last
  <2> HIDE DEF list, n
  <2> QED BY <1>8, <2>8, <2>10, <2>11, DamageSeen
<1>9. dm = Intact /\ read = d
  BY <1>7, <1>8 DEF DamagedIn, Damaged, Intact
<1> QED BY <1>5, <1>9, CourseInfoBack DEF d

LEMMA PrereqsLoaded ==
  ASSUME NEW obj, NEW mine, IsCoursePrereqs(mine), Class = "CoursePrereqs",
         NEW dm \in Damages \cup {Intact}, Applies(CoursePrereqsState(mine), dm),
         SetCoursePrereqsState(obj, DamagedIn(CoursePrereqsState(mine), dm)).ok
  PROVE  dm = Intact /\ SetCoursePrereqsState(obj, DamagedIn(CoursePrereqsState(mine), dm)).model = mine
<1> DEFINE d == CoursePrereqsState(mine)
           list == d["conditions"]
           read == DamagedIn(d, dm)
<1>1. /\ Parts("CoursePrereqs") = "conditions" /\ "conditions" \in ToSet(FieldsOf["CoursePrereqs"])
  BY PrereqsFields
<1>2. /\ d = [f \in ToSet(FieldsOf["CoursePrereqs"]) |->
               IF f = "conditions" THEN [i \in DOMAIN mine[f] |-> ConditionState(mine[f][i])] ELSE mine[f]]
  BY CoursePrereqsStored
<1>3. list = [i \in DOMAIN mine["conditions"] |-> ConditionState(mine["conditions"][i])]
  BY <1>1, <1>2
<1>4. DOMAIN d = ToSet(FieldsOf["CoursePrereqs"])
  BY <1>2
<1>5. Applies(d, dm) /\ SetCoursePrereqsState(obj, read).ok
  OBVIOUS
<1>6. DOMAIN mine["conditions"] = 1..Len(mine["conditions"]) /\ Len(mine["conditions"]) \in Nat
  <2>1. mine["conditions"] \in Seq(ToSet(mine["conditions"]))
    BY DEF IsCoursePrereqs, IsSequence
  <2> QED BY <2>1, LenProperties
<1> HIDE DEF d
<1>7. CASE dm # Intact /\ dm.key \in DOMAIN d
  <2>1. read = Damaged(d, dm)
    BY <1>7 DEF DamagedIn
  <2>2. AllRead("CoursePrereqs", Damaged(d, dm))
    BY <1>5, <2>1, CoursePrereqsRead
  <2> QED BY <1>4, <1>7, <2>2, DamageSeen
<1>8. CASE dm # Intact /\ dm.key \notin DOMAIN d
  <2> DEFINE n == Len(list)
             hurt == Damaged(list[n], dm)
  <2>1. list # <<>> /\ dm.key \in DOMAIN Last(list)
    BY <1>1, <1>5, <1>8 DEF Applies
  <2>2. n = Len(mine["conditions"]) /\ DOMAIN list = 1..n /\ n \in Nat
    <3> HIDE DEF list
    <3> QED BY <1>3, <1>6
  <2>3. n \in DOMAIN list
    <3>1. n # 0
      BY <1>3, <1>6, <2>1, <2>2
    <3> QED BY <2>2, <3>1
  <2>4. read = [d EXCEPT !["conditions"] = [list EXCEPT ![n] = hurt]]
    BY <1>1, <1>8 DEF DamagedIn
  <2>5. read["conditions"] = [list EXCEPT ![n] = hurt]
    BY <1>1, <1>4, <2>4
  <2>6. n \in DOMAIN read["conditions"] /\ read["conditions"][n] = hurt
    <3> HIDE DEF read, list, hurt, n
    <3> QED BY <2>3, <2>5
  <2>7. SetConditionState(hurt).ok
    <3> HIDE DEF read, hurt, n
    <3> QED BY <1>5, <2>6, CoursePrereqsRead
  <2>8. AllRead("Condition", hurt)
    BY <2>7, ConditionRead
  <2>9. list[n] = ConditionState(mine["conditions"][n])
    BY <1>3, <2>3
  <2>10. DOMAIN list[n] = ToSet(FieldsOf["Condition"])
    BY <2>9, ConditionStored
  <2>11. dm.key \in DOMAIN list[n]
    BY <2>1 DEF Last
  <2> HIDE DEF list, n
  <2> QED BY <1>8, <2>8, <2>10, <2>11, DamageSeen
<1>9. dm = Intact /\ read = d
  BY <1>7, <1>8 DEF DamagedIn, Damaged, Intact
<1> QED BY <1>5, <1>9, CoursePrereqsBack DEF d
-----------------------------------------------------------------------------
(* The session's dictionary: the fields but the token and the course list  *)
(* are as they were, the token is under one of its keys.                   *)
TheFields == ToSet(FieldsOf["Session"])
Plain     == TheFields \ {"javax_faces_view_state", "course_list"}
ViewKeys  == {"javax_faces_view_state", "javax_faces_ViewState"}

LEMMA SessionFieldsKnown ==
  /\ Parts("Session") = "course_list" /\ "course_list" \in TheFields
  /\ "javax_faces_view_state" \in TheFields /\ "javax_faces_ViewState" \notin TheFields
  /\ "status" \in TheFields
  /\ FieldsOf.Session = FieldsOf["Session"]
<1>1. /\ FieldsOf["Session"] = SessionFields /\ DOMAIN SessionFields = 1..9 /\ Len(SessionFields) = 9
      /\ SessionFields[9] = "course_list" /\ SessionFields[4] = "javax_faces_view_state"
      /\ SessionFields[8] = "status"
  BY DEF FieldsOf, SessionFields
<1>2. \A i \in 1..9 : SessionFields[i] # "javax_faces_ViewState"
  BY DEF SessionFields
<1>3. Parts("Session") = "course_list"
  BY <1>1 DEF Parts, Last, Composite
<1>4. "course_list" \in TheFields /\ "javax_faces_view_state" \in TheFields /\ "status" \in TheFields
  <2>1. 9 \in DOMAIN SessionFields /\ 4 \in DOMAIN SessionFields /\ 8 \in DOMAIN SessionFields
    BY <1>1
  <2> QED BY <1>1, <2>1 DEF TheFields, ToSet
<1>5. "javax_faces_ViewState" \notin TheFields
  BY <1>1, <1>2 DEF TheFields, ToSet
<1> QED BY <1>1, <1>3, <1>4, <1>5

(* An entry of the course list in one of its forms: what is read from it,  *)
(* when it is whole, and that damage to it is seen.                        *)
Shapes == {"now", "named", "half", "single"}

Shape(e, how) == IF how = "now" THEN CourseEntryDict(e) ELSE OlderEntry(e, how)

LEMMA ShapeOf ==
  ASSUME NEW e
  PROVE  /\ Shape(e, "now")    = [k \in {"code", "name"} |-> IF k = "code" THEN e.code ELSE e.name]
         /\ Shape(e, "named")  = [k \in {"course_code", "course_name"} |->
                                    IF k = "course_code" THEN e.code ELSE e.name]
         /\ Shape(e, "half")   = [k \in {"code", "course_name"} |-> IF k = "code" THEN e.code ELSE e.name]
         /\ Shape(e, "single") = [k \in {e.code} |-> e.name]
<1>1. ToSet(FieldsOf["CourseEntry"]) = {"code", "name"}
  <2>1. /\ FieldsOf["CourseEntry"] = CourseEntryFields /\ DOMAIN CourseEntryFields = 1..2
        /\ CourseEntryFields[1] = "code" /\ CourseEntryFields[2] = "name"
    BY DEF FieldsOf, CourseEntryFields
  <2> QED BY <2>1 DEF ToSet
<1>2. Parts("CourseEntry") = "none"
  BY DEF Parts, Composite
<1>3. CourseEntryDict(e) = [k \in {"code", "name"} |-> e[k]]
  BY <1>1, <1>2 DEF CourseEntryDict, StateOf
<1>4. Shape(e, "now") = [k \in {"code", "name"} |-> IF k = "code" THEN e.code ELSE e.name]
  BY <1>3 DEF Shape
<1>5. Shape(e, "named") = [k \in {"course_code", "course_name"} |-> IF k = "course_code" THEN e.code ELSE e.name]
  BY DEF Shape, OlderEntry
<1>6. Shape(e, "half") = [k \in {"code", "course_name"} |-> IF k = "code" THEN e.code ELSE e.name]
  BY DEF Shape, OlderEntry
<1>7. Shape(e, "single") = [k \in {e.code} |-> e.name]
  BY DEF Shape, OlderEntry
<1> QED BY <1>4, <1>5, <1>6, <1>7

IsEntry(e) == e = [code |-> e.code, name |-> e.name]

LEMMA ShapeRead ==
  ASSUME NEW e, IsEntry(e), NEW how \in Shapes, NormalizeCourseDict(Shape(e, how)).ok
  PROVE  /\ NormalizeCourseDict(Shape(e, how)).entry = e
         /\ NormalizeCourseDict(Shape(e, how)).legacy <=> how # "now"
<1> DEFINE d == Shape(e, how)
           code == KeyFor(d, "code", "course_code")
           name == KeyFor(d, "name", "course_name")
<1>1. d # BadType
  BY DEF NormalizeCourseDict, Unreadable
<1>2. CASE how = "now"
  <2>1. DOMAIN d = {"code", "name"} /\ d["code"] = e.code /\ d["name"] = e.name
    <3>1. d = [k \in {"code", "name"} |-> IF k = "code" THEN e.code ELSE e.name]
      BY <1>2, ShapeOf
    <3> HIDE DEF d
    <3> QED BY <3>1
  <2>2. code = "code" /\ name = "name"
    BY <2>1 DEF KeyFor
  <2> HIDE DEF d
  <2>3. /\ NormalizeCourseDict(d).entry = [code |-> e.code, name |-> e.name]
        /\ NormalizeCourseDict(d).legacy = Legacy("code", "name")
    BY <1>1, <2>1, <2>2 DEF NormalizeCourseDict
  <2> QED BY <1>2, <2>3 DEF IsEntry, Legacy, d
<1>3. CASE how = "named"
  <2>1. DOMAIN d = {"course_code", "course_name"} /\ d["course_code"] = e.code /\ d["course_name"] = e.name
    <3>1. d = [k \in {"course_code", "course_name"} |-> IF k = "course_code" THEN e.code ELSE e.name]
      BY <1>3, ShapeOf
    <3> HIDE DEF d
    <3> QED BY <3>1
  <2>2. code = "course_code" /\ name = "course_name"
    BY <2>1 DEF KeyFor
  <2> HIDE DEF d
  <2>3. /\ NormalizeCourseDict(d).entry = [code |-> e.code, name |-> e.name]
        /\ NormalizeCourseDict(d).legacy = Legacy("course_code", "course_name")
    BY <1>1, <2>1, <2>2 DEF NormalizeCourseDict
  <2> QED BY <1>3, <2>3 DEF IsEntry, Legacy, d
<1>4. CASE how = "half"
  <2>1. DOMAIN d = {"code", "course_name"} /\ d["code"] = e.code /\ d["course_name"] = e.name
    <3>1. d = [k \in {"code", "course_name"} |-> IF k = "code" THEN e.code ELSE e.name]
      BY <1>4, ShapeOf
    <3> HIDE DEF d
    <3> QED BY <3>1
  <2>2. code = "code" /\ name = "course_name"
    BY <2>1 DEF KeyFor
  <2> HIDE DEF d
  <2>3. /\ NormalizeCourseDict(d).entry = [code |-> e.code, name |-> e.name]
        /\ NormalizeCourseDict(d).legacy = Legacy("code", "course_name")
    BY <1>1, <2>1, <2>2 DEF NormalizeCourseDict
  <2> QED BY <1>4, <2>3 DEF IsEntry, Legacy, d
<1>5. CASE how = "single"
  <2>1. DOMAIN d = {e.code} /\ d[e.code] = e.name
    BY <1>5, ShapeOf
  <2>2. "none" \in {code, name}
    BY <2>1 DEF KeyFor
  <2>3. (CHOOSE k \in DOMAIN d : TRUE) = e.code
    <3>1. (CHOOSE k \in DOMAIN d : TRUE) \in DOMAIN d
      BY <2>1
    <3> QED BY <2>1, <3>1
  <2> HIDE DEF d, code, name
  <2>4. NormalizeCourseDict(d) =
          IF e.code \notin NamedKeys
            THEN [ok |-> d[e.code] # BadType, legacy |-> TRUE, entry |-> [code |-> e.code, name |-> d[e.code]]]
          ELSE Unreadable
    BY <1>1, <2>1, <2>2, <2>3 DEF NormalizeCourseDict, code, name
  <2>5. NormalizeCourseDict(d).ok
    BY DEF d
  <2>6. e.code \notin NamedKeys
    BY <2>4, <2>5 DEF Unreadable
  <2>7. /\ NormalizeCourseDict(d).entry = [code |-> e.code, name |-> e.name]
        /\ NormalizeCourseDict(d).legacy
    BY <2>1, <2>4, <2>6
  <2> QED BY <1>5, <2>7 DEF IsEntry, d
<1> QED BY <1>2, <1>3, <1>4, <1>5 DEF Shapes

-----------------------------------------------------------------------------
LEMMA ShapeHurt ==
  ASSUME NEW e, NEW how \in Shapes, NEW dm \in Damages, dm.key \in DOMAIN Shape(e, how)
  PROVE  ~NormalizeCourseDict(Damaged(Shape(e, how), dm)).ok
<1> DEFINE d == Shape(e, how)
           h == Damaged(d, dm)
           code == KeyFor(h, "code", "course_code")
           name == KeyFor(h, "name", "course_name")
           single == CHOOSE k \in DOMAIN h : TRUE
<1>1. CASE h = BadType
  BY <1>1 DEF NormalizeCourseDict, Unreadable
<1>2. /\ dm.kind = "lost" => h = [k \in DOMAIN d \ {dm.key} |-> d[k]]
      /\ dm.kind = "mistyped" => h = [d EXCEPT ![dm.key] = BadType]
      /\ dm.kind \in {"lost", "mistyped"}
  BY StoreAssumption DEF Damaged, Without, Mistyped
<1>3. CASE how # "single" /\ h # BadType
  <2>1. PICK c \in {"code", "course_code"}, n \in {"name", "course_name"} : DOMAIN d = {c, n}
    <3>1. CASE how = "now"
      <4>1. DOMAIN d = {"code", "name"}
        BY <3>1, ShapeOf
      <4> QED BY <4>1
    <3>2. CASE how = "named"
      <4>1. DOMAIN d = {"course_code", "course_name"}
        BY <3>2, ShapeOf
      <4> QED BY <4>1
    <3>3. CASE how = "half"
      <4>1. DOMAIN d = {"code", "course_name"}
        BY <3>3, ShapeOf
      <4> QED BY <4>1
    <3> QED BY <1>3, <3>1, <3>2, <3>3 DEF Shapes
  <2>2. dm.key \in {c, n}
    BY <2>1
  <2> HIDE DEF d
  <2>3. CASE dm.kind = "lost"
    <3>1. DOMAIN h = {c, n} \ {dm.key}
      BY <1>2, <2>1, <2>3
    <3>2. PICK x \in {"code", "course_code", "name", "course_name"} : DOMAIN h = {x}
      BY <2>1, <2>2, <3>1
    <3> HIDE DEF h
    <3>3. "none" \in {code, name}
      BY <3>2 DEF KeyFor
    <3>4. single = x
      BY <3>2
    <3> HIDE DEF code, name, single
    <3>5. NormalizeCourseDict(h) = Unreadable
      BY <1>3, <3>2, <3>3, <3>4 DEF NormalizeCourseDict, NamedKeys, code, name, single
    <3> QED BY <3>5 DEF Unreadable, h, d
  <2>4. CASE dm.kind = "mistyped"
    <3>1. DOMAIN h = {c, n} /\ h[dm.key] = BadType
      BY <1>2, <2>1, <2>2, <2>4
    <3> HIDE DEF h
    <3>2. code = c /\ name = n /\ c # "none" /\ n # "none"
      BY <2>1, <3>1 DEF KeyFor
    <3>3. BadType \in {h[code], h[name]} /\ "none" \notin {code, name}
      BY <2>2, <3>1, <3>2
    <3> HIDE DEF code, name
    <3>4. NormalizeCourseDict(h).ok = FALSE
      BY <1>3, <3>3 DEF NormalizeCourseDict, code, name
    <3> QED BY <3>4 DEF h, d
  <2> QED BY <1>2, <2>3, <2>4
<1>4. CASE how = "single" /\ h # BadType
  <2>1. DOMAIN d = {e.code} /\ dm.key = e.code
    BY <1>4, ShapeOf
  <2> HIDE DEF d
  <2>2. CASE dm.kind = "lost"
    <3>1. DOMAIN h = {}
      BY <1>2, <2>1, <2>2
    <3> HIDE DEF h
    <3>2. "none" \in {code, name} /\ DOMAIN h # {single}
      BY <3>1 DEF KeyFor
    <3> HIDE DEF code, name, single
    <3>3. NormalizeCourseDict(h) = Unreadable
      BY <1>4, <3>2 DEF NormalizeCourseDict, code, name, single
    <3> QED BY <3>3 DEF Unreadable, h, d
  <2>3. CASE dm.kind = "mistyped"
    <3>1. DOMAIN h = {e.code} /\ h[e.code] = BadType
      BY <1>2, <2>1, <2>3
    <3> HIDE DEF h
    <3>2. "none" \in {code, name}
      BY <3>1 DEF KeyFor
    <3>3. single = e.code
      <4>1. single \in DOMAIN h
        BY <3>1
      <4> QED BY <3>1, <4>1
    <3> HIDE DEF code, name, single
    <3>4. NormalizeCourseDict(h).ok = FALSE
      BY <1>4, <3>1, <3>2, <3>3 DEF NormalizeCourseDict, Unreadable, code, name, single
    <3> QED BY <3>4 DEF h, d
  <2> QED BY <1>2, <2>2, <2>3
<1> QED BY <1>1, <1>3, <1>4

-----------------------------------------------------------------------------
TokenKey(d) == KeyFor(d, "javax_faces_view_state", "javax_faces_ViewState")

(* What from_dict has read when it succeeds.                               *)
LEMMA DictRead ==
  ASSUME NEW d, NEW strict, FromDict(d, strict).ok
  PROVE  /\ \A f \in TheFields \ {"javax_faces_view_state"} : f \in DOMAIN d /\ d[f] # BadType
         /\ TokenKey(d) # "none" => d[TokenKey(d)] # BadType
         /\ \A i \in DOMAIN d["course_list"] : NormalizeCourseDict(d["course_list"][i]).ok
         /\ FromDict(d, strict).warned <=>
              \/ TokenKey(d) = "javax_faces_ViewState"
              \/ \E i \in DOMAIN d["course_list"] : NormalizeCourseDict(d["course_list"][i]).legacy
         /\ FromDict(d, strict).model =
              [ f \in TheFields |->
                  CASE f = "course_list" ->
                         [i \in DOMAIN d["course_list"] |-> NormalizeCourseDict(d["course_list"][i]).entry]
                    [] f = "javax_faces_view_state" ->
                         IF TokenKey(d) = "none" THEN NoViewState ELSE d[TokenKey(d)]
                    [] OTHER -> d[f] ]
<1> DEFINE read == [i \in DOMAIN d["course_list"] |-> NormalizeCourseDict(d["course_list"][i])]
           older == \/ TokenKey(d) = "javax_faces_ViewState"
                    \/ \E i \in DOMAIN read : read[i].legacy
           ok == /\ \A f \in TheFields \ {"javax_faces_view_state"} : f \in DOMAIN d /\ d[f] # BadType
                 /\ TokenKey(d) # "none" => d[TokenKey(d)] # BadType
                 /\ \A i \in DOMAIN read : read[i].ok
                 /\ ~(strict /\ older)
           model == [ f \in TheFields |->
                        CASE f = "course_list" -> [i \in DOMAIN read |-> read[i].entry]
                          [] f = "javax_faces_view_state" ->
                               IF TokenKey(d) = "none" THEN NoViewState ELSE d[TokenKey(d)]
                          [] OTHER -> d[f] ]
<1>1. FromDict(d, strict) = IF ~ok THEN Unreadable ELSE [ok |-> TRUE, warned |-> older, model |-> model]
  BY SessionFieldsKnown, Zenon DEF FromDict, TokenKey, TheFields
<1> HIDE DEF ok, older, model
<1>2. ok /\ FromDict(d, strict) = [ok |-> TRUE, warned |-> older, model |-> model]
  BY <1>1, SMT DEF Unreadable
<1>3. (FromDict(d, strict).warned <=> older) /\ FromDict(d, strict).model = model
  BY <1>2
<1>4. \A f \in TheFields \ {"javax_faces_view_state"} : f \in DOMAIN d /\ d[f] # BadType
  BY <1>2 DEF ok
<1>5. TokenKey(d) # "none" => d[TokenKey(d)] # BadType
  BY <1>2 DEF ok
<1>6. \A i \in DOMAIN d["course_list"] : NormalizeCourseDict(d["course_list"][i]).ok
  BY <1>2 DEF ok
<1>7. older <=> \/ TokenKey(d) = "javax_faces_ViewState"
                \/ \E i \in DOMAIN d["course_list"] : NormalizeCourseDict(d["course_list"][i]).legacy
  BY DEF older
<1>8. model = [ f \in TheFields |->
                  CASE f = "course_list" ->
                         [i \in DOMAIN d["course_list"] |-> NormalizeCourseDict(d["course_list"][i]).entry]
                    [] f = "javax_faces_view_state" ->
                         IF TokenKey(d) = "none" THEN NoViewState ELSE d[TokenKey(d)]
                    [] OTHER -> d[f] ]
  <2>1. [i \in DOMAIN read |-> read[i].entry]
          = [i \in DOMAIN d["course_list"] |-> NormalizeCourseDict(d["course_list"][i]).entry]
    OBVIOUS
  <2> QED BY <2>1, Zenon DEF model
<1> QED BY <1>3, <1>4, <1>5, <1>6, <1>7, <1>8, Zenon

LEMMA SavedSession ==
  ASSUME Class = "Session"
  PROVE  /\ Saved = [f \in TheFields |-> Saved[f]]
         /\ Saved["course_list"] = result.model
<1>1. Saved = [SessionState EXCEPT !["status"] = NormalizeStatus(@)]
  BY DEF Saved, FromSessionState
<1>2. DOMAIN SessionState = TheFields /\ SessionState["course_list"] = result.model
  BY SessionFieldsKnown DEF SessionState, TheFields
<1> HIDE DEF Saved
<1>3. DOMAIN Saved = TheFields /\ Saved["course_list"] = result.model
  BY <1>1, <1>2
<1>4. Saved = [f \in TheFields |-> Saved[f]]
  <2>1. Saved = [f \in DOMAIN SessionState |->
                   IF f = "status" THEN NormalizeStatus(SessionState[f]) ELSE SessionState[f]]
    BY <1>1
  <2> QED BY <1>2, <2>1
<1> QED BY <1>3, <1>4

(* How the i-th entry is written, and under which key the token.           *)
HowAt(f, i) ==
  IF f \in {"dict", "json"} THEN "now"
  ELSE IF f = "named" THEN "named" ELSE IF i % 2 = 0 THEN "single" ELSE "half"

KeyIn(f) == IF f \in {"json", "named"} THEN "javax_faces_ViewState" ELSE "javax_faces_view_state"

LEMMA DictOf ==
  ASSUME NEW s, s = [f \in TheFields |-> s[f]]
  PROVE  /\ DOMAIN SessionDict(s) = TheFields
         /\ \A f \in TheFields \ {"course_list"} : SessionDict(s)[f] = s[f]
         /\ SessionDict(s)["course_list"] = [i \in DOMAIN s["course_list"] |-> Shape(s["course_list"][i], "now")]
<1>1. SessionDict(s) = [f \in TheFields |->
                          IF f = "course_list" THEN [i \in DOMAIN s[f] |-> CourseEntryDict(s[f][i])] ELSE s[f]]
  BY SessionFieldsKnown DEF SessionDict, StateOf, TheFields
<1>2. \A e : Shape(e, "now") = CourseEntryDict(e)
  BY DEF Shape
<1>3. SessionDict(s)["course_list"] = [i \in DOMAIN s["course_list"] |-> CourseEntryDict(s["course_list"][i])]
  BY <1>1, SessionFieldsKnown
<1> QED BY <1>1, <1>2, <1>3

LEMMA RenamedOf ==
  ASSUME NEW d, DOMAIN d = TheFields
  PROVE  /\ DOMAIN RenamedToken(d) = (TheFields \ {"javax_faces_view_state"}) \cup {"javax_faces_ViewState"}
         /\ \A f \in TheFields \ {"javax_faces_view_state"} : RenamedToken(d)[f] = d[f]
         /\ RenamedToken(d)["javax_faces_ViewState"] = d["javax_faces_view_state"]
BY SessionFieldsKnown DEF RenamedToken

LEMMA EntriesOf ==
  ASSUME NEW d, NEW entries, DOMAIN d = TheFields
  PROVE  /\ DOMAIN WithEntries(d, entries) = TheFields
         /\ \A f \in TheFields \ {"course_list"} : WithEntries(d, entries)[f] = d[f]
         /\ WithEntries(d, entries)["course_list"] = entries
BY SessionFieldsKnown DEF WithEntries

LEMMA SessionStored ==
  ASSUME Class = "Session", NEW f \in Forms
  PROVE  /\ DOMAIN StoredAs(f) = (TheFields \ {"javax_faces_view_state"}) \cup {KeyIn(f)}
         /\ \A p \in Plain : StoredAs(f)[p] = Saved[p]
         /\ StoredAs(f)[KeyIn(f)] = Saved["javax_faces_view_state"]
         /\ StoredAs(f)["course_list"] =
              [i \in DOMAIN result.model |-> Shape(result.model[i], HowAt(f, i))]
<1> DEFINE list == Saved["course_list"]
           now == SessionDict(Saved)
<1>1. /\ Saved = [k \in TheFields |-> Saved[k]] /\ list = result.model
  BY SavedSession
<1> HIDE DEF list
<1>2. /\ DOMAIN now = TheFields
      /\ \A k \in TheFields \ {"course_list"} : now[k] = Saved[k]
      /\ now["course_list"] = [i \in DOMAIN list |-> Shape(list[i], "now")]
  BY <1>1, DictOf DEF list
<1> HIDE DEF now
<1>3. CASE f = "dict"
  <2>1. StoredAs(f) = now
    BY <1>3 DEF StoredAs, now
  <2>2. KeyIn(f) = "javax_faces_view_state" /\ \A i : HowAt(f, i) = "now"
    BY <1>3 DEF KeyIn, HowAt
  <2> QED BY <1>1, <1>2, <2>1, <2>2, SessionFieldsKnown DEF Plain
<1>4. CASE f = "json"
  <2>1. StoredAs(f) = RenamedToken(now)
    BY <1>4 DEF StoredAs, now
  <2>2. KeyIn(f) = "javax_faces_ViewState" /\ \A i : HowAt(f, i) = "now"
    BY <1>4 DEF KeyIn, HowAt
  <2> QED BY <1>1, <1>2, <2>1, <2>2, SessionFieldsKnown, RenamedOf DEF Plain
<1>5. CASE f = "named"
  <2> DEFINE entries == [i \in DOMAIN list |-> OlderEntry(list[i], "named")]
  <2>1. StoredAs(f) = RenamedToken(WithEntries(now, entries))
    BY <1>5 DEF StoredAs, now, list
  <2>2. KeyIn(f) = "javax_faces_ViewState" /\ \A i : HowAt(f, i) = "named"
    BY <1>5 DEF KeyIn, HowAt
  <2>3. entries = [i \in DOMAIN list |-> Shape(list[i], HowAt(f, i))]
    BY <2>2 DEF Shape
  <2> HIDE DEF entries
  <2> QED BY <1>1, <1>2, <2>1, <2>2, <2>3, SessionFieldsKnown, RenamedOf, EntriesOf DEF Plain
<1>6. CASE f = "mixed"
  <2> DEFINE entries == [i \in DOMAIN list |-> MixedEntry(list[i], i)]
  <2>1. StoredAs(f) = WithEntries(now, entries)
    BY <1>6 DEF StoredAs, now, list
  <2>2. /\ KeyIn(f) = "javax_faces_view_state"
        /\ \A i : HowAt(f, i) = IF i % 2 = 0 THEN "single" ELSE "half"
    BY <1>6 DEF KeyIn, HowAt
  <2>3. entries = [i \in DOMAIN list |-> Shape(list[i], HowAt(f, i))]
    <3>1. \A e, i : MixedEntry(e, i) = Shape(e, HowAt(f, i))
      BY <2>2 DEF Shape, MixedEntry
    <3> QED BY <3>1
  <2> HIDE DEF entries
  <2> QED BY <1>1, <1>2, <2>1, <2>2, <2>3, SessionFieldsKnown, EntriesOf DEF Plain
<1> QED BY <1>3, <1>4, <1>5, <1>6, StoreAssumption

-----------------------------------------------------------------------------
IsEntryList(list) == IsSequence(list) /\ \A i \in DOMAIN list : IsEntry(list[i])

(* A session was stored, whole or damaged.                                 *)
SessionKept ==
  /\ Class = "Session" /\ form \in Forms /\ damage \in Damages \cup {Intact}
  /\ Applies(StoredAs(form), damage) /\ stored = DamagedIn(StoredAs(form), damage)
  /\ IsEntryList(result.model)

LEMMA HowShaped == \A f, i : HowAt(f, i) \in Shapes
BY DEF HowAt, Shapes

LEMMA EntriesWhole ==
  ASSUME SessionKept, damage # Intact, damage.key \notin DOMAIN StoredAs(form), NEW strict
  PROVE  ~FromDict(stored, strict).ok
<1> DEFINE D == StoredAs(form)
           list == result.model
           L == D["course_list"]
           n == Len(L)
           hurt == Damaged(L[n], damage)
<1>1. /\ L = [i \in DOMAIN list |-> Shape(list[i], HowAt(form, i))]
      /\ "course_list" \in DOMAIN D
  BY SessionStored, SessionFieldsKnown DEF SessionKept
<1>2. DOMAIN list = 1..Len(list) /\ Len(list) \in Nat
  <2>1. list \in Seq(ToSet(list))
    BY DEF SessionKept, IsEntryList, IsSequence
  <2> QED BY <2>1, LenProperties
<1>3. /\ L # <<>> /\ damage.key \in DOMAIN Last(L)
      /\ stored = [D EXCEPT !["course_list"] = [L EXCEPT ![n] = hurt]]
  BY SessionFieldsKnown DEF SessionKept, Applies, DamagedIn
<1> HIDE DEF D, list
<1>4. DOMAIN L = 1..n /\ n \in Nat /\ n \in DOMAIN L
  <2>1. DOMAIN L = 1..Len(list) /\ Len(list) \in Nat
    BY <1>1, <1>2
  <2> HIDE DEF L
  <2>2. n = Len(list)
    BY <1>1, <1>2, <2>1
  <2>3. n # 0
    BY <1>1, <1>2, <1>3, <2>2
  <2> QED BY <2>1, <2>2, <2>3
<1>5. L[n] = Shape(list[n], HowAt(form, n))
  BY <1>1, <1>4
<1> HIDE DEF L, n
<1>6. ~NormalizeCourseDict(hurt).ok
  <2>1. damage.key \in DOMAIN L[n]
    BY <1>3 DEF Last, n
  <2>2. damage \in Damages /\ HowAt(form, n) \in Shapes
    BY HowShaped DEF SessionKept
  <2> QED BY <1>5, <2>1, <2>2, ShapeHurt
<1> HIDE DEF hurt
<1>7. n \in DOMAIN stored["course_list"] /\ stored["course_list"][n] = hurt
  <2>1. stored["course_list"] = [L EXCEPT ![n] = hurt]
    BY <1>1, <1>3
  <2> QED BY <1>4, <2>1
<1> QED BY <1>6, <1>7, DictRead

(* What can be read of a stored session: all of it, or all but the token.  *)
LEMMA ReadableSession ==
  ASSUME SessionKept, NEW strict, FromDict(stored, strict).ok
  PROVE  /\ \A f \in TheFields \ {"javax_faces_view_state"} : stored[f] = StoredAs(form)[f]
         /\ \/ /\ damage = Intact /\ TokenKey(stored) = KeyIn(form)
               /\ stored[KeyIn(form)] = Saved["javax_faces_view_state"]
               /\ DOMAIN stored \cap ViewKeys = {KeyIn(form)}
            \/ /\ damage # Intact /\ damage.key = KeyIn(form) /\ TokenKey(stored) = "none"
               /\ DOMAIN stored \cap ViewKeys = {}
<1> DEFINE D == StoredAs(form)
           k == KeyIn(form)
<1>1. /\ DOMAIN D = (TheFields \ {"javax_faces_view_state"}) \cup {k}
      /\ D[k] = Saved["javax_faces_view_state"]
  BY SessionStored DEF SessionKept
<1>2. k \in ViewKeys /\ DOMAIN D \cap ViewKeys = {k}
  BY <1>1, SessionFieldsKnown DEF KeyIn, ViewKeys
<1> HIDE DEF D, k
<1>3. \A d : DOMAIN d \cap ViewKeys = {k} => TokenKey(d) = k
  BY <1>2 DEF TokenKey, KeyFor, ViewKeys
<1>4. \A d : DOMAIN d \cap ViewKeys = {} => TokenKey(d) = "none"
  BY DEF TokenKey, KeyFor, ViewKeys
<1>5. CASE damage = Intact
  <2>1. stored = D
    BY <1>5 DEF SessionKept, DamagedIn, Damaged, Intact, D
  <2> QED BY <1>1, <1>2, <1>3, <1>5, <2>1 DEF D, k
<1>6. CASE damage # Intact
  <2>1. damage.key \in DOMAIN D /\ damage \in Damages
    BY <1>6, EntriesWhole DEF SessionKept, D
  <2>2. stored = Damaged(D, damage)
    BY <1>6, <2>1 DEF SessionKept, DamagedIn, D
  <2>3. CASE damage.kind = "lost"
    <3>1. stored = [f \in DOMAIN D \ {damage.key} |-> D[f]]
      BY <2>2, <2>3 DEF Damaged, Without
    <3>2. damage.key \notin TheFields \ {"javax_faces_view_state"}
      <4>1. \A f \in TheFields \ {"javax_faces_view_state"} : f \in DOMAIN stored
        BY DictRead
      <4> QED BY <3>1, <4>1
    <3>3. damage.key = k
      BY <1>1, <2>1, <3>2
    <3>4. DOMAIN stored \cap ViewKeys = {}
      BY <1>2, <3>1, <3>3
    <3>5. \A f \in TheFields \ {"javax_faces_view_state"} : stored[f] = D[f]
      BY <1>1, <3>1, <3>2
    <3> QED BY <1>4, <1>6, <3>3, <3>4, <3>5 DEF D, k
  <2>4. CASE damage.kind = "mistyped"
    <3>1. DOMAIN stored = DOMAIN D /\ stored[damage.key] = BadType
      BY <2>1, <2>2, <2>4 DEF Damaged, Mistyped
    <3>2. damage.key \notin TheFields \ {"javax_faces_view_state"}
      BY <3>1, DictRead
    <3>3. damage.key = k
      BY <1>1, <2>1, <3>2
    <3>4. TokenKey(stored) = k /\ k # "none"
      BY <1>2, <1>3, <3>1 DEF ViewKeys
    <3> QED BY <3>1, <3>3, <3>4, DictRead
  <2> QED BY <2>1, <2>3, <2>4, StoreAssumption
<1> QED BY <1>5, <1>6

LEMMA SessionLoaded ==
  ASSUME SessionKept, NEW strict, FromDict(stored, strict).ok
  PROVE  /\ FromDict(stored, strict).model = Expected
         /\ FromDict(stored, strict).warned <=>
              \/ form \in {"json", "named"} /\ "javax_faces_ViewState" \in DOMAIN stored
              \/ form \in {"named", "mixed"} /\ result.model # <<>>
<1> DEFINE D == StoredAs(form)
           list == result.model
           read(i) == NormalizeCourseDict(stored["course_list"][i])
<1>1. /\ \A f \in TheFields \ {"javax_faces_view_state"} : stored[f] = D[f]
      /\ \A p \in Plain : D[p] = Saved[p]
      /\ stored["course_list"] = [i \in DOMAIN list |-> Shape(list[i], HowAt(form, i))]
  BY ReadableSession, SessionStored, SessionFieldsKnown DEF SessionKept
<1>2. /\ DOMAIN stored["course_list"] = DOMAIN list
      /\ \A i \in DOMAIN list : stored["course_list"][i] = Shape(list[i], HowAt(form, i))
  BY <1>1
<1>3. \A i \in DOMAIN list : read(i).entry = list[i] /\ (read(i).legacy <=> HowAt(form, i) # "now")
  <2> SUFFICES ASSUME NEW i \in DOMAIN list
               PROVE  read(i).entry = list[i] /\ (read(i).legacy <=> HowAt(form, i) # "now")
    OBVIOUS
  <2>1. NormalizeCourseDict(Shape(list[i], HowAt(form, i))).ok
    <3>1. \A j \in DOMAIN stored["course_list"] : NormalizeCourseDict(stored["course_list"][j]).ok
      BY DictRead
    <3> QED BY <1>2, <3>1
  <2>2. IsEntry(list[i]) /\ HowAt(form, i) \in Shapes
    BY HowShaped DEF SessionKept, IsEntryList
  <2> QED BY <1>2, <2>1, <2>2, ShapeRead
<1>4. /\ list = [i \in 1..Len(list) |-> list[i]] /\ DOMAIN list = 1..Len(list) /\ Len(list) \in Nat
      /\ Saved = [f \in TheFields |-> Saved[f]] /\ Saved["course_list"] = list
  <2>1. list \in Seq(ToSet(list))
    BY DEF SessionKept, IsEntryList, IsSequence
  <2> HIDE DEF list
  <2>2. list = [i \in 1..Len(list) |-> list[i]] /\ DOMAIN list = 1..Len(list) /\ Len(list) \in Nat
    BY <2>1, LenProperties
  <2> QED BY <2>2, SavedSession DEF SessionKept, list
<1>5. /\ damage = Intact => Expected = Saved
      /\ damage # Intact /\ damage.key = KeyIn(form) =>
           Expected = [Saved EXCEPT !["javax_faces_view_state"] = NoViewState]
  BY DEF Expected, Intact, KeyIn
<1>6. /\ TokenKey(stored) # "none" => /\ TokenKey(stored) = KeyIn(form) /\ damage = Intact
                                      /\ stored[TokenKey(stored)] = Saved["javax_faces_view_state"]
                                      /\ DOMAIN stored \cap ViewKeys = {KeyIn(form)}
      /\ TokenKey(stored) = "none" => /\ damage # Intact /\ damage.key = KeyIn(form)
                                      /\ DOMAIN stored \cap ViewKeys = {}
  <2>1. KeyIn(form) # "none"
    BY DEF KeyIn
  <2> QED BY <2>1, ReadableSession
<1> HIDE DEF D, list
<1>7. FromDict(stored, strict).model = Expected
  <2> DEFINE entries == [i \in DOMAIN stored["course_list"] |-> read(i).entry]
             tok == IF TokenKey(stored) = "none" THEN NoViewState ELSE stored[TokenKey(stored)]
  <2>1. entries = list
    BY <1>2, <1>3, <1>4
  <2>2. FromDict(stored, strict).model =
          [f \in TheFields |-> CASE f = "course_list" -> entries
                                 [] f = "javax_faces_view_state" -> tok
                                 [] OTHER -> stored[f]]
    BY DictRead, Zenon
  <2> HIDE DEF entries
  <2>3. Expected = [Saved EXCEPT !["javax_faces_view_state"] = tok]
    <3>1. CASE TokenKey(stored) = "none"
      BY <1>5, <1>6, <3>1
    <3>2. CASE TokenKey(stored) # "none"
      <4>1. Expected = Saved /\ tok = Saved["javax_faces_view_state"]
        BY <1>5, <1>6, <3>2
      <4> QED BY <1>4, <4>1
    <3> QED BY <3>1, <3>2
  <2>4. Expected = [f \in TheFields |-> IF f = "javax_faces_view_state" THEN tok ELSE Saved[f]]
    <3> HIDE DEF tok
    <3> QED BY <1>4, <2>3
  <2>5. \A f \in TheFields : (CASE f = "course_list" -> entries
                                 [] f = "javax_faces_view_state" -> tok
                                 [] OTHER -> stored[f])
                             = IF f = "javax_faces_view_state" THEN tok ELSE Saved[f]
    <3> HIDE DEF tok
    <3>1. \A f \in TheFields : f \notin {"course_list", "javax_faces_view_state"} => stored[f] = Saved[f]
      BY <1>1 DEF Plain
    <3> QED BY <1>4, <2>1, <3>1
  <2> HIDE DEF tok
  <2> QED BY <2>2, <2>4, <2>5
<1>8. FromDict(stored, strict).warned <=>
        \/ form \in {"json", "named"} /\ "javax_faces_ViewState" \in DOMAIN stored
        \/ form \in {"named", "mixed"} /\ list # <<>>
  <2>1. FromDict(stored, strict).warned <=>
          \/ TokenKey(stored) = "javax_faces_ViewState"
          \/ \E i \in DOMAIN list : HowAt(form, i) # "now"
    BY <1>2, <1>3, DictRead
  <2>2. TokenKey(stored) = "javax_faces_ViewState" <=>
          form \in {"json", "named"} /\ "javax_faces_ViewState" \in DOMAIN stored
    BY <1>6 DEF KeyIn, ViewKeys
  <2>3. form \in {"named", "mixed"} <=> \A i : HowAt(form, i) # "now"
    BY StoreAssumption DEF SessionKept, HowAt
  <2>4. form \notin {"named", "mixed"} <=> \A i : HowAt(form, i) = "now"
    BY StoreAssumption DEF SessionKept, HowAt
  <2>5. list # <<>> <=> \E i \in DOMAIN list : TRUE
    <3>1. list = <<>> => DOMAIN list = {}
      OBVIOUS
    <3>2. DOMAIN list = {} => Len(list) = 0
      BY <1>4
    <3>3. list \in Seq({list[i] : i \in 1..Len(list)})
      BY <1>4, SeqDef
    <3>4. Len(list) = 0 => list = <<>>
      BY <3>3
    <3> QED BY <3>1, <3>2, <3>4
  <2> QED BY <2>1, <2>2, <2>3, <2>4, <2>5
<1> QED BY <1>7, <1>8 DEF list
-----------------------------------------------------------------------------
(* What a page is parsed into is a model of its kind.                      *)
LEMMA FunctionIsSequence ==
  ASSUME NEW n \in Nat, NEW f, f = [i \in 1..n |-> f[i]]
  PROVE  IsSequence(f) /\ DOMAIN f = 1..n
<1>1. \A i \in 1..n : f[i] \in ToSet(f)
  BY DEF ToSet
<1>2. f \in [1..n -> ToSet(f)]
  BY <1>1
<1> QED BY <1>2, SeqDef DEF IsSequence

LEMMA PickIsSequence ==
  ASSUME NEW s, IsSequence(s), NEW S \in SUBSET (DOMAIN s)
  PROVE  /\ Cardinality(S) \in Nat /\ IsSequence(Pick(s, Increasing(S)))
         /\ DOMAIN Pick(s, Increasing(S)) = 1..Cardinality(S)
<1>1. s \in Seq(ToSet(s))
  BY DEF IsSequence
<1>2. /\ Pick(s, Increasing(S)) \in Seq(ToSet(s)) /\ Cardinality(S) \in Nat
      /\ DOMAIN Pick(s, Increasing(S)) = 1..Cardinality(S)
  BY <1>1, PickIncreasing
<1> QED BY <1>2, SequenceOf

LEMMA EntriesShaped ==
  ASSUME NEW rows, IsSequence(rows)
  PROVE  IsEntryList(Entries(rows))
<1> DEFINE S == { k \in DOMAIN rows : Listable(rows[k]) }
           kept == Pick(rows, Increasing(S))
           list == [i \in DOMAIN kept |-> [code |-> kept[i].cells[1], name |-> kept[i].cells[2]]]
<1>1. Entries(rows) = list
  BY DEF Entries, Filter
<1>2. Cardinality(S) \in Nat /\ DOMAIN kept = 1..Cardinality(S)
  BY PickIsSequence
<1> HIDE DEF kept, S
<1>3. DOMAIN list = 1..Cardinality(S) /\ list = [i \in 1..Cardinality(S) |-> list[i]]
  BY <1>2
<1>4. \A i \in DOMAIN list : IsEntry(list[i])
  BY DEF IsEntry
<1> HIDE DEF list
<1> QED BY <1>1, <1>2, <1>3, <1>4, FunctionIsSequence DEF IsEntryList

LEMMA CourseListShaped ==
  ASSUME NEW rows, IsSequence(rows)
  PROVE  IsEntryList(GetCourseList(rows))
<1>1. IsSequence(Filter(rows, InTable))
  <2>1. Filter(rows, InTable) = Pick(rows, Increasing({ k \in DOMAIN rows : InTable(rows[k]) }))
    BY DEF Filter
  <2>2. { k \in DOMAIN rows : InTable(rows[k]) } \in SUBSET (DOMAIN rows)
    OBVIOUS
  <2> QED BY <2>1, <2>2, PickIsSequence
<1> QED BY <1>1, EntriesShaped DEF GetCourseList

LEMMA FieldsListed ==
  /\ ToSet(FieldsOf["Schedule"]) = {"day", "start_time", "end_time", "classroom"}
  /\ ToSet(FieldsOf["Group"]) = {"group_name", "teacher", "faculty", "course_name", "duration",
                                 "schedule_type", "spots", "code", "schedules"}
  /\ ToSet(FieldsOf["CourseInfo"]) = {"course_name", "credits", "typology", "available_spots",
                                      "scrape_timestamp", "code", "groups"}
  /\ ToSet(FieldsOf["Prerequisite"]) = {"course_code", "course_name"}
  /\ ToSet(FieldsOf["Condition"]) = {"condition", "prereq_type", "all_required",
                                     "number_of_courses", "prerequisites"}
  /\ ToSet(FieldsOf["CoursePrereqs"]) = {"course_name", "code", "credits", "typology", "conditions"}
<1>1. ToSet(FieldsOf["Schedule"]) = {"day", "start_time", "end_time", "classroom"}
  BY DEF FieldsOf, ScheduleFields, ToSet
<1>2. ToSet(FieldsOf["Group"]) = {"group_name", "teacher", "faculty", "course_name", "duration",
                                 "schedule_type", "spots", "code", "schedules"}
  BY DEF FieldsOf, GroupFields, ToSet
<1>3. ToSet(FieldsOf["CourseInfo"]) = {"course_name", "credits", "typology", "available_spots",
                                      "scrape_timestamp", "code", "groups"}
  BY DEF FieldsOf, CourseInfoFields, ToSet
<1>4. ToSet(FieldsOf["Prerequisite"]) = {"course_code", "course_name"}
  BY DEF FieldsOf, PrerequisiteFields, ToSet
<1>5. ToSet(FieldsOf["Condition"]) = {"condition", "prereq_type", "all_required",
                                     "number_of_courses", "prerequisites"}
  BY DEF FieldsOf, ConditionFields, ToSet
<1>6. ToSet(FieldsOf["CoursePrereqs"]) = {"course_name", "code", "credits", "typology", "conditions"}
  BY DEF FieldsOf, CoursePrereqsFields, ToSet
<1> QED BY <1>1, <1>2, <1>3, <1>4, <1>5, <1>6

LEMMA SchedulesShaped ==
  ASSUME NEW elements, IsSequence(elements)
  PROVE  /\ IsSequence(ExtractSchedules(elements))
         /\ \A i \in DOMAIN ExtractSchedules(elements) : HasFields("Schedule", ExtractSchedules(elements)[i])
<1> DEFINE S == { k \in DOMAIN elements : elements[k].times # <<>> }
           timed == Pick(elements, Increasing(S))
           rec(i) == [day |-> Head(timed[i].times).day, start_time |-> Head(timed[i].times).start,
                     end_time |-> Head(timed[i].times).end,
                     classroom |-> IF timed[i].rooms = <<>> THEN Blank ELSE Last(timed[i].rooms)]
           list == [i \in DOMAIN timed |-> rec(i)]
<1>1. ExtractSchedules(elements) = list
  BY Zenon DEF ExtractSchedules, Filter
<1>2. Cardinality(S) \in Nat /\ DOMAIN timed = 1..Cardinality(S)
  BY PickIsSequence
<1> HIDE DEF timed, S
<1>3. \A i : HasFields("Schedule", rec(i))
  BY FieldsListed DEF HasFields
<1> HIDE DEF rec
<1>4. DOMAIN list = 1..Cardinality(S) /\ list = [i \in 1..Cardinality(S) |-> list[i]]
  BY <1>2
<1>5. \A i \in DOMAIN list : HasFields("Schedule", list[i])
  BY <1>3
<1> HIDE DEF list
<1> QED BY <1>1, <1>2, <1>4, <1>5, FunctionIsSequence

LEMMA GroupShaped ==
  ASSUME NEW group, NEW name, IsSequence(Head(group.panels).elements)
  PROVE  IsGroup(GroupModel(group, name))
<1> DEFINE g == GroupModel(group, name)
<1>1. g["schedules"] = ExtractSchedules(Head(group.panels).elements)
  BY DEF GroupModel
<1>2. HasFields("Group", g)
  <2>1. DOMAIN g = {"group_name", "teacher", "faculty", "course_name", "duration",
                    "schedule_type", "spots", "code", "schedules"}
    BY DEF GroupModel
  <2>2. g = [f \in DOMAIN g |-> g[f]]
    BY DEF GroupModel
  <2> HIDE DEF g
  <2> QED BY <2>1, <2>2, FieldsListed DEF HasFields
<1> HIDE DEF g
<1> QED BY <1>1, <1>2, SchedulesShaped DEF IsGroup, g

LEMMA PrerequisitesShaped ==
  ASSUME NEW divs, IsSequence(divs)
  PROVE  /\ IsSequence(Prerequisites(divs))
         /\ \A i \in DOMAIN Prerequisites(divs) : HasFields("Prerequisite", Prerequisites(divs)[i])
<1> DEFINE S == { k \in DOMAIN divs : Len(divs[k].spans) >= 2 }
           named == Pick(divs, Increasing(S))
           rec(i) == [course_code |-> named[i].spans[1], course_name |-> named[i].spans[2]]
           list == [i \in DOMAIN named |-> rec(i)]
<1>1. Prerequisites(divs) = list
  BY Zenon DEF Prerequisites, Filter
<1>2. Cardinality(S) \in Nat /\ DOMAIN named = 1..Cardinality(S)
  BY PickIsSequence
<1> HIDE DEF named, S
<1>3. \A i : HasFields("Prerequisite", rec(i))
  BY FieldsListed DEF HasFields
<1> HIDE DEF rec
<1>4. DOMAIN list = 1..Cardinality(S) /\ list = [i \in 1..Cardinality(S) |-> list[i]]
  BY <1>2
<1>5. \A i \in DOMAIN list : HasFields("Prerequisite", list[i])
  BY <1>3
<1> HIDE DEF list
<1> QED BY <1>1, <1>2, <1>4, <1>5, FunctionIsSequence

LEMMA ConditionShaped ==
  ASSUME NEW condition, IsSequence(condition), ~Skipped(condition)
  PROVE  IsCondition(ConditionModel(condition))
<1> DEFINE c == ConditionModel(condition)
<1>1. c["prerequisites"] = Prerequisites(Tail(condition))
  BY DEF ConditionModel
<1>2. IsSequence(Tail(condition))
  <2>1. condition \in Seq(ToSet(condition)) /\ Len(condition) >= 2
    BY LenProperties DEF IsSequence, Skipped
  <2>2. condition # <<>>
    BY <2>1
  <2>3. Tail(condition) \in Seq(ToSet(condition))
    BY <2>1, <2>2, HeadTailProperties
  <2> QED BY <2>3, SequenceOf
<1>3. HasFields("Condition", c)
  <2>1. DOMAIN c = {"condition", "prereq_type", "all_required", "number_of_courses", "prerequisites"}
    BY DEF ConditionModel
  <2>2. c = [f \in DOMAIN c |-> c[f]]
    BY DEF ConditionModel
  <2> HIDE DEF c
  <2> QED BY <2>1, <2>2, FieldsListed DEF HasFields
<1> HIDE DEF c
<1> QED BY <1>1, <1>2, <1>3, PrerequisitesShaped DEF IsCondition, c

LEMMA CourseShaped ==
  ASSUME NEW name, NEW its, IsSequence(its), \A i \in DOMAIN its : IsGroup(its[i])
  PROVE  IsCourseInfo(Course(name, its))
<1> DEFINE c == Course(name, its)
<1>1. c["groups"] = its
  BY DEF Course
<1>2. DOMAIN c = {"course_name", "credits", "typology", "available_spots", "scrape_timestamp", "code", "groups"}
  BY DEF Course
<1>3. c = [f \in DOMAIN c |-> c[f]]
  BY DEF Course
<1> HIDE DEF c
<1>4. HasFields("CourseInfo", c)
  BY <1>2, <1>3, FieldsListed DEF HasFields
<1> QED BY <1>1, <1>4 DEF IsCourseInfo, c

LEMMA PrereqsShaped ==
  ASSUME NEW name, NEW its, IsSequence(its), \A i \in DOMAIN its : IsCondition(its[i])
  PROVE  IsCoursePrereqs(Prereqs(name, its))
<1> DEFINE c == Prereqs(name, its)
<1>1. c["conditions"] = its
  BY DEF Prereqs
<1>2. DOMAIN c = {"course_name", "credits", "typology", "conditions", "code"}
  BY DEF Prereqs
<1>3. c = [f \in DOMAIN c |-> c[f]]
  BY DEF Prereqs
<1> HIDE DEF c
<1>4. HasFields("CoursePrereqs", c)
  BY <1>2, <1>3, FieldsListed DEF HasFields
<1> QED BY <1>1, <1>4 DEF IsCoursePrereqs, c
-----------------------------------------------------------------------------
(* What was read so far, and what came of it, is made of such models.      *)
Shaped ==
  /\ pc = "items" =>
       \A i \in DOMAIN items : IF input.fn = "course" THEN IsGroup(items[i]) ELSE IsCondition(items[i])
  /\ pc = "done" /\ result.kind = "ok" =>
       /\ input.fn = "table" => result.model = GetCourseList(Page)
       /\ input.fn = "course" => IsCourseInfo(result.model)
       /\ input.fn = "prereqs" => IsCoursePrereqs(result.model)

LEMMA AppendShaped ==
  ASSUME NEW s, NEW x, IsSequence(s), NEW i \in DOMAIN Append(s, x)
  PROVE  Append(s, x)[i] = x \/ (i \in DOMAIN s /\ Append(s, x)[i] = s[i])
<1>1. IsSequence(Append(s, x)) /\ Len(Append(s, x)) = Len(s) + 1 /\ Len(s) \in Nat
  BY Appended
<1>2. DOMAIN Append(s, x) = 1..(Len(s) + 1) /\ DOMAIN s = 1..Len(s)
  <2>1. Append(s, x) \in Seq(ToSet(Append(s, x))) /\ s \in Seq(ToSet(s))
    BY <1>1 DEF IsSequence
  <2>2. DOMAIN Append(s, x) = 1..Len(Append(s, x)) /\ DOMAIN s = 1..Len(s)
    BY <2>1, LenProperties
  <2> QED BY <1>1, <2>2
<1>3. CASE i = Len(s) + 1
  BY <1>3, Appended
<1>4. CASE i # Len(s) + 1
  <2>1. i \in 1..Len(s)
    BY <1>1, <1>2, <1>4
  <2> QED BY <1>2, <2>1, Appended
<1> QED BY <1>3, <1>4

LEMMA ParserShapes ==
  ASSUME ParserInv, Shaped, ParserStep
  PROVE  Shaped'
<1>0. input \in Inputs /\ IsSequence(items) /\ at \in Nat \ {0}
  BY DEF ParserInv, Parsed
<1>1. CASE ReadTable
  BY <1>1 DEF ReadTable, Finish, Shaped, Page
<1>2. CASE ReadHead
  <2>1. pc' \in {"items", "done"} /\ items' = items /\ items = <<>> /\ (pc' = "done" => result'.kind = "err")
    BY <1>2 DEF ReadHead, Refuse, Finish, ParserInv, Parsed
  <2>2. DOMAIN items' = {}
    BY <2>1
  <2> QED BY <2>1, <2>2 DEF Shaped
<1>3. CASE ReadGroup
  <2> DEFINE group == Page.groups[at]
  <2>1. /\ pc = "items" /\ pc' = "items" /\ input' = input /\ input.fn = "course" /\ at <= Len(Page.groups)
    BY <1>3 DEF ReadGroup, TryGroup
  <2>2. CASE GroupErrors(group) # <<>>
    BY <1>3, <2>1, <2>2 DEF ReadGroup, TryGroup, Shaped
  <2>3. CASE GroupErrors(group) = <<>>
    <3>1. items' = Append(items, GroupModel(group, Head(Page.titles)))
      BY <1>3, <2>3 DEF ReadGroup, TryGroup
    <3>2. group.panels # <<>>
      BY <2>3 DEF GroupErrors
    <3>3. group \in ToSet(Page.groups)
      <4>1. at \in DOMAIN Page.groups
        BY <1>0, <2>1, InputsAssumption, LenProperties DEF Page, IsSequence
      <4> QED BY <4>1 DEF ToSet
    <3>4. IsGroup(GroupModel(group, Head(Page.titles)))
      <4>1. IsSequence(Head(group.panels).elements)
        BY <1>0, <2>1, <3>2, <3>3, InputsAssumption DEF Page
      <4> HIDE DEF group
      <4> QED BY <4>1, GroupShaped
    <3>5. \A i \in DOMAIN items : IsGroup(items[i])
      BY <2>1 DEF Shaped
    <3> HIDE DEF group
    <3>6. \A i \in DOMAIN items' : IsGroup(items'[i])
      BY <1>0, <3>1, <3>4, <3>5, AppendShaped
    <3> QED BY <2>1, <3>6 DEF Shaped
  <2> QED BY <2>2, <2>3
<1>4. CASE ReadCondition
  <2> DEFINE condition == Page.conditions[at]
  <2>1. /\ pc = "items" /\ input' = input /\ input.fn = "prereqs" /\ at <= Len(Page.conditions)
    BY <1>4 DEF ReadCondition
  <2>2. CASE pc' = pc /\ items' = items
    BY <2>1, <2>2 DEF Shaped
  <2>3. CASE pc' = "done" /\ result'.kind = "err"
    BY <2>3 DEF Shaped
  <2>4. CASE pc' = pc /\ ~Skipped(condition) /\ items' = Append(items, ConditionModel(condition))
    <3>1. condition \in ToSet(Page.conditions)
      <4>1. at \in DOMAIN Page.conditions
        BY <1>0, <2>1, InputsAssumption, LenProperties DEF Page, IsSequence
      <4> QED BY <4>1 DEF ToSet
    <3>2. IsSequence(condition)
      BY <1>0, <2>1, <3>1, InputsAssumption DEF Page
    <3> HIDE DEF condition
    <3>3. IsCondition(ConditionModel(condition))
      BY <2>4, <3>2, ConditionShaped
    <3>4. \A i \in DOMAIN items : IsCondition(items[i])
      BY <2>1 DEF Shaped
    <3>5. \A i \in DOMAIN items' : IsCondition(items'[i])
      BY <1>0, <2>4, <3>3, <3>4, AppendShaped
    <3> QED BY <2>1, <2>4, <3>5 DEF Shaped
  <2> QED BY <1>4, <2>2, <2>3, <2>4 DEF ReadCondition, Refuse, Finish
<1>5. CASE Conclude
  <2>1. /\ pc = "items" /\ pc' = "done" /\ input' = input /\ input.fn \in {"course", "prereqs"}
    BY <1>5 DEF Conclude, Refuse, Finish, ParserInv, Parsed
  <2>2. CASE errors # <<>>
    BY <1>5, <2>1, <2>2 DEF Conclude, Refuse, Finish, Shaped
  <2>3. CASE errors = <<>> /\ input.fn = "course"
    <3>1. result' = [kind |-> "ok", model |-> Course(Head(Page.titles), items)]
      BY <1>5, <2>3 DEF Conclude, Finish
    <3>2. IsCourseInfo(Course(Head(Page.titles), items))
      BY <1>0, <2>1, <2>3, CourseShaped DEF Shaped
    <3> QED BY <2>1, <2>3, <3>1, <3>2 DEF Shaped
  <2>4. CASE errors = <<>> /\ input.fn = "prereqs"
    <3>1. result' = [kind |-> "ok", model |-> Prereqs(Head(Page.titles), items)]
      BY <1>5, <2>4 DEF Conclude, Finish
    <3>2. IsCoursePrereqs(Prereqs(Head(Page.titles), items))
      BY <1>0, <2>1, <2>4, PrereqsShaped DEF Shaped
    <3> QED BY <2>1, <2>4, <3>1, <3>2 DEF Shaped
  <2> QED BY <2>1, <2>2, <2>3, <2>4
<1> QED BY <1>1, <1>2, <1>3, <1>4, <1>5 DEF ParserStep

-----------------------------------------------------------------------------
(* The inductive invariant of the stored and the loaded: what is loaded    *)
(* from is what was stored, of a page that was accepted.                   *)
LoadInv ==
  /\ ParserInv /\ Shaped
  /\ stage \in {"parsing", "stored", "loaded"}
  /\ stage # "parsing" => pc = "done" /\ result.kind = "ok"
  /\ stage # "loaded" => outcome = "none"
  /\ stage = "stored" =>
       /\ form \in IF Class = "Session" THEN Forms ELSE {"dict"}
       /\ damage \in Damages \cup {Intact}
       /\ Applies(StoredAs(form), damage) /\ stored = DamagedIn(StoredAs(form), damage)
  /\ LoadedIsStored /\ OlderFormsWarn

LEMMA KeptSession ==
  ASSUME LoadInv, stage = "stored", Class = "Session"
  PROVE  SessionKept
<1>1. input.fn = "table" /\ input \in Inputs
  <2>1. input \in Inputs
    BY DEF LoadInv, ParserInv, Parsed
  <2>2. input.fn = "course" => Class = "CourseInfo"
    BY DEF Class
  <2>3. input.fn = "prereqs" => Class = "CoursePrereqs"
    BY DEF Class
  <2> QED BY <2>1, <2>2, <2>3, InputsAssumption
<1>2. result.model = GetCourseList(Page) /\ IsSequence(Page)
  BY <1>1, InputsAssumption DEF LoadInv, Shaped, Page
<1>3. IsEntryList(result.model)
  BY <1>2, CourseListShaped
<1> QED BY <1>3 DEF LoadInv, SessionKept

LEMMA UnchangedSaved ==
  ASSUME UNCHANGED <<input, result, token, damage, form, stored>>
  PROVE  /\ Class' = Class /\ Saved' = Saved /\ Expected' = Expected
         /\ \A f : StoredAs(f)' = StoredAs(f)
<1>1. Class' = Class /\ Saved' = Saved
  BY DEF Class, Saved, SessionState
<1>2. Expected' = Expected
  BY <1>1 DEF Expected
<1>3. \A f : StoredAs(f)' = StoredAs(f)
  BY <1>1 DEF StoredAs
<1> QED BY <1>1, <1>2, <1>3

LEMMA LoadingKeeps ==
  ASSUME LoadInv, SetCourse \/ (\E strict \in BOOLEAN : SetSession(strict) \/ RestoreSession(strict))
  PROVE  LoadInv'
<1>1. /\ stage = "stored" /\ stage' = "loaded"
      /\ UNCHANGED <<token, form, damage, stored>> /\ UNCHANGED parser_vars
  BY DEF SetCourse, SetSession, RestoreSession, Ended
<1>2. UNCHANGED <<input, pc, at, items, errors, result>>
  BY <1>1 DEF parser_vars
<1>3. Expected' = Expected /\ Class' = Class
  BY <1>1, <1>2, UnchangedSaved
<1>4. ParserInv' /\ Shaped'
  BY <1>2 DEF LoadInv, Shaped, Page, ParserInv, Parsed, NothingLost, GroupsRead, ConditionsRead,
     GroupAt, Blocks, IsSequence
<1>5. LoadedIsStored' /\ OlderFormsWarn'
  <2>1. CASE SetCourse /\ Class = "CourseInfo"
    <3>1. /\ held' = SetCourseInfoState(held, stored).model
          /\ outcome' = IF SetCourseInfoState(held, stored).ok THEN "silent" ELSE "error"
      BY <2>1 DEF SetCourse, Ended
    <3>2. input.fn = "course" /\ IsCourseInfo(result.model)
      <4>1. input \in Inputs
        BY DEF LoadInv, ParserInv, Parsed
      <4>2. input.fn = "course"
        BY <2>1, <4>1, InputsAssumption DEF Class
      <4> QED BY <1>1, <4>2 DEF LoadInv, Shaped
    <3>3. /\ form = "dict" /\ damage \in Damages \cup {Intact} /\ Saved = result.model
          /\ StoredAs(form) = CourseInfoState(result.model)
          /\ Applies(CourseInfoState(result.model), damage)
          /\ stored = DamagedIn(CourseInfoState(result.model), damage)
      <4>1. form = "dict" /\ Saved = result.model
        BY <1>1, <2>1 DEF LoadInv, Saved
      <4>2. StoredAs(form) = CourseInfoState(result.model)
        BY <2>1, <4>1 DEF StoredAs
      <4> QED BY <1>1, <4>1, <4>2 DEF LoadInv
    <3>4. SetCourseInfoState(held, stored).ok => held' = Expected
      <4> SUFFICES ASSUME SetCourseInfoState(held, stored).ok PROVE held' = Expected
        OBVIOUS
      <4>1. damage = Intact /\ SetCourseInfoState(held, stored).model = result.model
        BY <2>1, <3>2, <3>3, CourseLoaded
      <4> QED BY <3>1, <3>3, <4>1 DEF Expected, Intact
    <3> QED BY <1>3, <2>1, <3>1, <3>4 DEF LoadedIsStored, OlderFormsWarn
  <2>2. CASE SetCourse /\ Class = "CoursePrereqs"
    <3>1. /\ held' = SetCoursePrereqsState(held, stored).model
          /\ outcome' = IF SetCoursePrereqsState(held, stored).ok THEN "silent" ELSE "error"
      BY <2>2 DEF SetCourse, Ended
    <3>2. input.fn = "prereqs" /\ IsCoursePrereqs(result.model)
      <4>1. input \in Inputs
        BY DEF LoadInv, ParserInv, Parsed
      <4>2. input.fn = "prereqs"
        BY <2>2, <4>1, InputsAssumption DEF Class
      <4> QED BY <1>1, <4>2 DEF LoadInv, Shaped
    <3>3. /\ form = "dict" /\ damage \in Damages \cup {Intact} /\ Saved = result.model
          /\ StoredAs(form) = CoursePrereqsState(result.model)
          /\ Applies(CoursePrereqsState(result.model), damage)
          /\ stored = DamagedIn(CoursePrereqsState(result.model), damage)
      <4>1. form = "dict" /\ Saved = result.model
        BY <1>1, <2>2 DEF LoadInv, Saved
      <4>2. StoredAs(form) = CoursePrereqsState(result.model)
        BY <2>2, <4>1 DEF StoredAs
      <4> QED BY <1>1, <4>1, <4>2 DEF LoadInv
    <3>4. SetCoursePrereqsState(held, stored).ok => held' = Expected
      <4> SUFFICES ASSUME SetCoursePrereqsState(held, stored).ok PROVE held' = Expected
        OBVIOUS
      <4>1. damage = Intact /\ SetCoursePrereqsState(held, stored).model = result.model
        BY <2>2, <3>2, <3>3, PrereqsLoaded
      <4> QED BY <3>1, <3>3, <4>1 DEF Expected, Intact
    <3> QED BY <1>3, <2>2, <3>1, <3>4 DEF LoadedIsStored, OlderFormsWarn
  <2>3. CASE SetCourse /\ Class \notin {"CourseInfo", "CoursePrereqs"}
    <3>1. input \in Inputs
      BY DEF LoadInv, ParserInv, Parsed
    <3> QED BY <2>3, <3>1, InputsAssumption DEF SetCourse, Class
  <2>4. ASSUME NEW strict \in BOOLEAN, SetSession(strict)
        PROVE  LoadedIsStored' /\ OlderFormsWarn'
    <3> DEFINE read == FromDict(stored, strict)
    <3>1. /\ Class = "Session"
          /\ read.ok => held' = read.model /\ outcome' = IF read.warned THEN "warned" ELSE "silent"
          /\ ~read.ok => outcome' = "error"
      BY <2>4 DEF SetSession, Ended, Replaced
    <3>2. read.ok => /\ read.model = Expected
                     /\ read.warned <=>
                          \/ form \in {"json", "named"} /\ "javax_faces_ViewState" \in DOMAIN stored
                          \/ form \in {"named", "mixed"} /\ result.model # <<>>
      BY <1>1, <3>1, KeptSession, SessionLoaded
    <3> HIDE DEF read
    <3>3. LoadedIsStored'
      BY <1>3, <3>1, <3>2 DEF LoadedIsStored
    <3>4. OlderFormsWarn'
      BY <1>1, <1>2, <3>1, <3>2 DEF OlderFormsWarn
    <3> QED BY <3>3, <3>4
  <2>5. ASSUME NEW strict \in BOOLEAN, RestoreSession(strict)
        PROVE  LoadedIsStored' /\ OlderFormsWarn'
    <3> DEFINE data == [timeout |-> 60, state_dict |-> stored]
    <3>1. PICK d \in {data, Without(data, "state_dict"), Mistyped(data, "state_dict")} :
            /\ FromState(d, strict).ok => held' = FromState(d, strict).model /\ outcome' = "restored"
            /\ ~FromState(d, strict).ok => outcome' = "refused"
      BY <2>5 DEF RestoreSession, Ended
    <3>2. Class = "Session"
      BY <2>5 DEF RestoreSession
    <3>3. ASSUME FromState(d, strict).ok PROVE FromState(d, strict).model = IntoSessionState(Expected)
      <4>1. "state_dict" \in DOMAIN d /\ d["state_dict"] # BadType
        BY <3>3 DEF FromState, Unreadable
      <4>2. d["state_dict"] = stored
        BY <4>1 DEF Without, Mistyped
      <4>3. /\ FromDict(stored, strict).ok
            /\ FromState(d, strict) =
                 [FromDict(stored, strict) EXCEPT !.model = IntoSessionState(@)]
        BY <3>3, <4>1, <4>2 DEF FromState, Unreadable
      <4>4. FromDict(stored, strict).model = Expected
        BY <1>1, <3>2, <4>3, KeptSession, SessionLoaded
      <4>5. "model" \in DOMAIN FromDict(stored, strict)
        BY <4>3, Zenon DEF FromDict, Unreadable
      <4> QED BY <4>3, <4>4, <4>5
    <3> QED BY <1>3, <3>1, <3>3 DEF LoadedIsStored, OlderFormsWarn
  <2> QED BY <2>1, <2>2, <2>3, <2>4, <2>5
<1> QED BY <1>1, <1>2, <1>4, <1>5 DEF LoadInv

-----------------------------------------------------------------------------
LEMMA StoringKeeps ==
  ASSUME LoadInv, Store
  PROVE  LoadInv'
<1>1. /\ stage = "parsing" /\ stage' = "stored" /\ pc = "done" /\ result.kind = "ok"
      /\ UNCHANGED <<token, outcome>> /\ UNCHANGED parser_vars
  BY DEF Store
<1>2. UNCHANGED <<input, pc, at, items, errors, result>>
  BY <1>1 DEF parser_vars
<1>3. PICK f \in IF Class = "Session" THEN Forms ELSE {"dict"}, dm \in Damages \cup {Intact} :
        /\ Applies(StoredAs(f), dm) /\ form' = f /\ damage' = dm /\ stored' = DamagedIn(StoredAs(f), dm)
  BY DEF Store
<1>4. Class' = Class /\ \A k : StoredAs(k)' = StoredAs(k)
  <2>1. Class' = Class /\ Saved' = Saved
    BY <1>1, <1>2 DEF Class, Saved, SessionState
  <2> QED BY <2>1 DEF StoredAs
<1>5. ParserInv' /\ Shaped'
  BY <1>2 DEF LoadInv, Shaped, Page, ParserInv, Parsed, NothingLost, GroupsRead, ConditionsRead,
     GroupAt, Blocks, IsSequence
<1>6. outcome' = "none"
  BY <1>1 DEF LoadInv
<1>7. LoadedIsStored' /\ OlderFormsWarn'
  BY <1>6 DEF LoadedIsStored, OlderFormsWarn
<1>8. /\ form' \in IF Class' = "Session" THEN Forms ELSE {"dict"}
      /\ damage' \in Damages \cup {Intact}
  BY <1>3, <1>4
<1>9. Applies(StoredAs(form), damage)' /\ stored' = DamagedIn(StoredAs(form), damage)'
  BY <1>3, <1>4 DEF DamagedIn, Applies
<1> QED BY <1>1, <1>2, <1>5, <1>6, <1>7, <1>8, <1>9 DEF LoadInv

LEMMA NextKeepsLoad == LoadInv /\ [Next]_vars => LoadInv'
<1> SUFFICES ASSUME LoadInv, [Next]_vars PROVE LoadInv'
  OBVIOUS
<1>1. CASE Parse
  <2>1. UNCHANGED store_vars /\ stage = "parsing"
    <3>1. pc # "done" /\ UNCHANGED store_vars
      BY <1>1 DEF Parse, ParserStep, ReadTable, ReadHead, ReadGroup, ReadCondition, Conclude
    <3> QED BY <3>1 DEF LoadInv
  <2>2. ParserInv'
    BY <1>1, NextKeepsParserInv DEF LoadInv, Next
  <2>3. Shaped'
    BY <1>1, ParserShapes DEF LoadInv, Parse
  <2>4. stage' = "parsing" /\ outcome' = "none"
    BY <2>1 DEF store_vars, LoadInv
  <2>5. LoadedIsStored' /\ OlderFormsWarn'
    BY <2>4 DEF LoadedIsStored, OlderFormsWarn
  <2> QED BY <2>2, <2>3, <2>4, <2>5 DEF LoadInv
<1>2. CASE Store
  BY <1>2, StoringKeeps
<1>3. CASE SetCourse \/ (\E strict \in BOOLEAN : SetSession(strict) \/ RestoreSession(strict))
  BY <1>3, LoadingKeeps
<1>4. CASE Rest \/ UNCHANGED vars
  <2>1. UNCHANGED <<input, pc, at, items, errors, result, stage, token, form, damage, stored, held, outcome>>
    BY <1>4 DEF Rest, vars
  <2>2. Class' = Class /\ Saved' = Saved /\ Expected' = Expected /\ StoredAs(form)' = StoredAs(form)
    BY <2>1, UnchangedSaved
  <2>3. ParserInv' /\ Shaped'
    BY <2>1 DEF LoadInv, Shaped, Page, ParserInv, Parsed, NothingLost, GroupsRead, ConditionsRead,
       GroupAt, Blocks, IsSequence
  <2>4. LoadedIsStored' /\ OlderFormsWarn'
    BY <2>1, <2>2 DEF LoadInv, LoadedIsStored, OlderFormsWarn
  <2>5. stage = "stored" =>
          Applies(StoredAs(form), damage)' /\ stored' = DamagedIn(StoredAs(form), damage)'
    BY <2>1, <2>2 DEF LoadInv, Applies, DamagedIn
  <2> QED BY <2>1, <2>2, <2>3, <2>4, <2>5 DEF LoadInv
<1> QED BY <1>1, <1>2, <1>3, <1>4 DEF Next

LEMMA InitLoad == DataInit => LoadInv
<1>1. IsSequence(<<>>) /\ <<>> \in Seq(BadParts)
  BY EmptySeq, SequenceOf
<1>2. DataInit => ParserInv
  BY <1>1 DEF DataInit, Init, ParserInv, Parsed, NothingLost
<1> QED BY <1>2 DEF DataInit, Init, LoadInv, Shaped, LoadedIsStored, OlderFormsWarn

-----------------------------------------------------------------------------
(* Of the rows a table shows, the entry of one before which none is left   *)
(* out is at the row's own position.                                       *)
LEMMA EntryAtRow ==
  ASSUME NEW rows, IsSequence(rows), NEW i \in DOMAIN Filter(rows, InTable),
         \A j \in 1..i : Listable(Filter(rows, InTable)[j])
  PROVE  /\ i <= Len(GetCourseList(rows))
         /\ GetCourseList(rows)[i].code = Filter(rows, InTable)[i].cells[1]
<1> DEFINE shown == Filter(rows, InTable)
           S == { k \in DOMAIN shown : Listable(shown[k]) }
           kept == Pick(shown, Increasing(S))
           list == [k \in DOMAIN kept |-> [code |-> kept[k].cells[1], name |-> kept[k].cells[2]]]
<1>1. IsSequence(shown)
  <2>1. shown = Pick(rows, Increasing({ k \in DOMAIN rows : InTable(rows[k]) }))
    BY DEF Filter
  <2>2. { k \in DOMAIN rows : InTable(rows[k]) } \in SUBSET (DOMAIN rows)
    OBVIOUS
  <2> QED BY <2>1, <2>2, PickIsSequence
<1>2. Entries(shown) = list
  BY DEF Entries, Filter
<1> HIDE DEF shown
<1>3. shown \in Seq(ToSet(shown)) /\ DOMAIN shown = 1..Len(shown) /\ Len(shown) \in Nat
  BY <1>1, LenProperties DEF IsSequence
<1>4. i \in Nat \ {0} /\ i \in 1..Len(shown) /\ \A j \in 1..i : Listable(shown[j])
  BY <1>3 DEF shown
<1>5. /\ S \in SUBSET (DOMAIN shown) /\ S \in SUBSET Int /\ IsFiniteSet(S) /\ \A k \in S : k >= 1
      /\ 1..i \subseteq S
  <2>1. S \in SUBSET (1..Len(shown)) /\ IsFiniteSet(1..Len(shown))
    BY <1>3, FS_Interval
  <2>2. IsFiniteSet(S)
    BY <2>1, FS_Subset
  <2>3. S \in SUBSET Int /\ \A k \in S : k >= 1
    <3> HIDE DEF S
    <3> QED BY <1>3, <2>1
  <2>4. \A j \in 1..i : j \in DOMAIN shown
    BY <1>3, <1>4
  <2>5. 1..i \subseteq S
    BY <1>4, <2>4
  <2> QED BY <2>2, <2>3, <2>5
<1>6. Cardinality(S) \in Nat /\ DOMAIN kept = 1..Cardinality(S)
  BY <1>1, <1>5, PickIsSequence
<1>7. i \in 1..Cardinality(S) /\ Increasing(S)[i] = i
  BY <1>4, <1>5, IncreasingBegins
<1>8. kept[i] = shown[i]
  <2>1. DOMAIN Increasing(S) = DOMAIN kept
    BY DEF Pick
  <2>2. i \in DOMAIN Increasing(S)
    BY <1>6, <1>7, <2>1
  <2> QED BY <1>7, <2>2 DEF Pick
<1> HIDE DEF kept, S
<1>9. /\ DOMAIN list = 1..Cardinality(S) /\ i \in DOMAIN list
      /\ list[i].code = shown[i].cells[1] /\ list # <<>>
  BY <1>6, <1>7, <1>8
<1>10. Len(list) = Cardinality(S)
  BY <1>6, <1>9
<1> HIDE DEF list
<1>11. GetCourseList(rows) = list
  BY <1>2, <1>9 DEF GetCourseList, shown
<1> QED BY <1>6, <1>7, <1>9, <1>10, <1>11 DEF shown

LEMMA LoadedPosition ==
  ASSUME LoadInv
  PROVE  PositionIsRow
<1> SUFFICES ASSUME input.fn = "table", outcome \in {"silent", "warned", "restored"},
                    NEW i \in DOMAIN Filter(Page, InTable),
                    \A j \in 1..i : Listable(Filter(Page, InTable)[j])
             PROVE  /\ i <= Len(held["course_list"])
                    /\ held["course_list"][i].code = Filter(Page, InTable)[i].cells[1]
  BY DEF PositionIsRow
<1>1. stage = "loaded" /\ pc = "done" /\ result.kind = "ok" /\ input \in Inputs
  BY DEF LoadInv, ParserInv, Parsed
<1>2. Class = "Session" /\ result.model = GetCourseList(Page) /\ IsSequence(Page)
  BY <1>1, InputsAssumption DEF LoadInv, Shaped, Class, Page
<1>3. Expected["course_list"] = result.model /\ IntoSessionState(Expected)["course_list"] = result.model
  <2>1. Saved = [f \in TheFields |-> Saved[f]] /\ Saved["course_list"] = result.model
    BY <1>2, SavedSession
  <2>2. Expected \in {Saved, [Saved EXCEPT !["javax_faces_view_state"] = NoViewState]}
    BY DEF Expected
  <2>3. DOMAIN Expected = TheFields /\ Expected["course_list"] = result.model
    <3> HIDE DEF Saved, Expected
    <3>1. CASE Expected = Saved
      BY <2>1, <3>1
    <3>2. CASE Expected = [Saved EXCEPT !["javax_faces_view_state"] = NoViewState]
      BY <2>1, <3>2
    <3> QED BY <2>2, <3>1, <3>2
  <2> HIDE DEF Expected
  <2>4. IntoSessionState(Expected)["course_list"] = Expected["course_list"]
    BY <2>3, SessionFieldsKnown DEF IntoSessionState
  <2> QED BY <2>3, <2>4
<1>4. held["course_list"] = GetCourseList(Page)
  BY <1>2, <1>3 DEF LoadInv, LoadedIsStored
<1> QED BY <1>2, <1>4, EntryAtRow

-----------------------------------------------------------------------------
LEMMA LoadedInvariant == Spec => []LoadInv
BY InitLoad, NextKeepsLoad, PTL DEF Spec

(* Whatever the page, what a later program loads is what this one saved,   *)
(* through each form of a stored session and every level of a course's     *)
(* lists; of what was damaged at any of them, nothing is loaded but a      *)
(* session that lost its token.                                            *)
THEOREM LoadsWhatWasStored == Spec => []LoadedIsStored
<1>1. LoadInv => LoadedIsStored
  BY DEF LoadInv
<1> QED BY <1>1, LoadedInvariant, PTL

(* A load warns exactly when the session is stored in an older form.       *)
THEOREM WarnsOfOlderForms == Spec => []OlderFormsWarn
<1>1. LoadInv => OlderFormsWarn
  BY DEF LoadInv
<1> QED BY <1>1, LoadedInvariant, PTL

(* Until a row of the table is left out, the position of a course in the   *)
(* loaded list is that of its row, whatever the form of the stored list.   *)
THEOREM PositionsAreRows == Spec => []PositionIsRow
BY LoadedPosition, LoadedInvariant, PTL
=============================================================================
