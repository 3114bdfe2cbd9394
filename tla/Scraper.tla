------------------------------- MODULE Scraper -------------------------------
(***************************************************************************)
(* SiaScraper of src/sia_scraper/scraper.py: what a program does with one  *)
(* scraper, call after call (overlapping calls are PySession's matter).    *)
(* The scraper sees the wrapper's copy of the session; the Rust session    *)
(* does the work.  A call is a step: an operator gives the set of its      *)
(* results, each with the state it leaves.  A course is its code.          *)
(***************************************************************************)
EXTENDS Integers, Sequences, SequencesExt, SessionModel, Ordering

CONSTANTS
  Careers,          (* search code and kind, as set_career takes them       *)
  NoCareer,         (* none selected                                        *)
  Table,            (* the courses of a career, in the catalog's order      *)
  Batches,          (* arguments of scrape_courses: indices and codes       *)
  NoCode,           (* the empty code                                       *)
  MaxCalls          (* bound on the calls of a behaviour                    *)

ASSUME ScraperAssumption ==
  /\ NoCareer \notin Careers
  /\ DOMAIN Table = Careers
  /\ \A career \in Careers : Table[career] \in Seq(ToSet(Table[career]))
  /\ \A b \in Batches : b.indices \in Seq(Int) /\ b.codes \in Seq(ToSet(b.codes))
  /\ MaxCalls \in Nat

VARIABLES
  sc,               (* the scraper: Rust's session and the wrapper's copy   *)
  saved,            (* session data kept outside, and what it was made from *)
  last,             (* the last call and how it ended                       *)
  calls             (* calls so far                                         *)

vars == <<sc, saved, last, calls>>

Closed == [on |-> FALSE, status |-> "CREATED", career |-> NoCareer, list |-> <<>>]
Opened == [Closed EXCEPT !.on = TRUE, !.status = "SESSION_SET"]

Model(rust)  == [status |-> NormalizeStatus(rust.status), career |-> rust.career, list |-> rust.list]
Synced(rust) == [rust |-> rust, cache |-> Model(rust)]
Fresh        == Synced(Closed)

NoData   == [kind |-> "none", bad |-> "nothing", model |-> Model(Closed), origin |-> Closed]
NoReport == [raised |-> FALSE, courses |-> <<>>, batch |-> "none", split |-> FALSE]

Init ==
  /\ sc = Fresh
  /\ saved = NoData
  /\ last = [call |-> "none", career |-> NoCareer, report |-> NoReport]
  /\ calls = 0

-----------------------------------------------------------------------------
(* Results.                                                                *)

Ok(s)    == [s |-> s, report |-> NoReport]
Raise(s) == [s |-> s, report |-> [NoReport EXCEPT !.raised = TRUE]]

(* An exception ends the caller too.                                       *)
AndThen(results, Cont(_)) ==
  UNION { IF r.report.raised THEN {r} ELSE Cont(r.s) : r \in results }

-----------------------------------------------------------------------------
(* The session's operations, each of which may fail.                       *)

InitSession(s) == { Raise(s), Ok(Synced(Opened)) }

(* A page without a table gives an empty list.                             *)
Lists(career) == { Table[career], <<>> }

OnCareerPage(career, list) ==
  [on |-> TRUE, status |-> "ON_CAREER_PAGE", career |-> career, list |-> list]

(* A failure after the first answer has published the career.              *)
SetCareer(s, career) ==
  IF ~s.rust.on THEN { Raise(s) }
  ELSE { Raise(s), Raise([s EXCEPT !.rust.career = career]) }
       \cup { Ok(Synced(OnCareerPage(career, list))) : list \in Lists(career) }

Close(s) == { Ok(Fresh) }

InList(rust, i) == rust.on /\ rust.status = "ON_CAREER_PAGE" /\ i \in 0..Len(rust.list) - 1

(* The scrape navigates to Rust's career again and opens the row i of what *)
(* it then finds; the wrapper's copy is not synchronised.                  *)
ScrapeCourse(s, i, code) ==
  { Raise(s) } \cup
  IF ~InList(s.rust, i) THEN {}
  ELSE LET table == Table[s.rust.career]
           found == [s EXCEPT !.rust.list = table]
       IN  { Raise([s EXCEPT !.rust.list = list]) : list \in Lists(s.rust.career) } \cup
           IF i \in 0..Len(table) - 1
             THEN { [Ok(found) EXCEPT !.report.courses = <<[course |-> table[i + 1], code |-> code]>>] }
             ELSE {}

-----------------------------------------------------------------------------
(* Courses by code.                                                        *)

GetCourseIndex(s, code) ==
  IF s.cache.status # "ON_CAREER_PAGE" THEN -1
  ELSE SelectInSeq(s.cache.list, LAMBDA c : c = code) - 1

GetCourseInfo(s, i, code) ==
  LET index == IF code # NoCode THEN GetCourseIndex(s, code) ELSE i
  IN  IF index < 0 THEN { Raise(s) } ELSE ScrapeCourse(s, index, code)

-----------------------------------------------------------------------------
(* Batches.  Arguments that are refused give no pairs: lengths that differ *)
(* or a code that is not found.  An index is passed on as it is; one below *)
(* zero fails in Rust.                                                     *)

PairsUnsorted(s, b) ==
  LET indices == IF b.indices # <<>> THEN b.indices
                 ELSE [k \in DOMAIN b.codes |-> GetCourseIndex(s, b.codes[k])]
      codes   == IF b.codes # <<>> THEN b.codes ELSE [k \in DOMAIN indices |-> NoCode]
      unknown == b.indices = <<>> /\ \E k \in DOMAIN indices : indices[k] < 0
  IN  IF Len(indices) # Len(codes) \/ unknown THEN <<>>
      ELSE [k \in DOMAIN indices |-> [index |-> indices[k], code |-> codes[k]]]

(* Sorted by index; equal indices keep their order.                        *)
PrepareScrapeIndices(s, b) == SortBy(PairsUnsorted(s, b), LAMBDA p : p.index)

(* The codes by index; of several the last.                                *)
CodeOf(pairs, index) ==
  LET ks == { k \in DOMAIN pairs : pairs[k].index = index /\ pairs[k].code # NoCode }
  IN  IF ks = {} THEN NoCode ELSE pairs[Max(ks)].code

ApplyByPosition(successes, pairs, failed) ==
  IF Len(successes) > Len(pairs) THEN <<>>
  ELSE [ k \in DOMAIN successes |-> [course |-> successes[k], code |-> pairs[k].code] ]

ApplyToAll(successes, pairs, failed) ==
  IF Len(successes) # Len(pairs) THEN <<>>
  ELSE [ k \in DOMAIN successes |->
           [course |-> successes[k], code |-> CodeOf(pairs, pairs[k].index)] ]

(* Too few or too many successes for the indices that did not fail are     *)
(* refused, unless no code has to be applied.                              *)
ApplyCourseCodes(successes, pairs, failed) ==
  LET kept == Filter(pairs, LAMBDA p : p.index \notin failed)
  IN  IF \A k \in DOMAIN pairs : pairs[k].code = NoCode
        THEN [ k \in DOMAIN successes |-> [course |-> successes[k], code |-> NoCode] ]
      ELSE IF Len(successes) # Len(kept) THEN <<>>
      ELSE [ k \in DOMAIN successes |->
               [course |-> successes[k], code |-> CodeOf(pairs, kept[k].index)] ]

(* What a batch returns when the positions in good succeed, in the order   *)
(* of the indices; in abort mode any failure is raised instead.            *)
Batch(s, pairs, mode, good) ==
  LET table     == Table[s.rust.career]
      bad       == DOMAIN pairs \ good
      failed    == { pairs[k].index : k \in bad }
      order     == Increasing(good)
      successes == [ k \in DOMAIN order |-> table[pairs[order[k]].index + 1] ]
      courses   == ApplyCourseCodes(successes, pairs, failed)
  IN  IF mode = "abort" /\ bad # {}
        THEN [Raise(s) EXCEPT !.report.batch = "aborted"]
        ELSE [s |-> s,
              report |-> [raised  |-> Len(courses) # Len(successes),
                          courses |-> courses,
                          batch   |-> "returned",
                          split   |-> \E k \in good : pairs[k].index \in failed]]

(* The positions that can succeed.  The first to be scraped has its index  *)
(* in the session's list; every scrape may replace the list of the clone,  *)
(* so that an index after it has only to be in the catalog's table.        *)
Scrapable(s, pairs) ==
  { k \in DOMAIN pairs :
      /\ \E j \in 1..k : InList(s.rust, pairs[j].index)
      /\ pairs[k].index \in 0..Len(Table[s.rust.career]) - 1 }

(* The batch works on a clone: the session stays as it is.                 *)
ScrapeCourses(s, b, mode) ==
  LET pairs == PrepareScrapeIndices(s, b)
  IN  IF pairs = <<>> \/ ~s.rust.on THEN { Raise(s) }
      ELSE { Batch(s, pairs, mode, good) : good \in SUBSET Scrapable(s, pairs) }

-----------------------------------------------------------------------------
(* Session data.                                                           *)

RestoredUnselected(model) ==
  [on |-> TRUE, status |-> "SESSION_SET", career |-> model.career, list |-> model.list]

Restored(model) ==
  [on |-> TRUE, status |-> DenormalizeStatus(model.status), career |-> model.career, list |-> model.list]

(* run_until_complete is refused inside a running event loop.              *)
LoadFromStateDict(s, data, running) ==
  IF running \/ data.bad # "nothing" THEN { Raise(s) }
  ELSE { Ok(Synced(Restored(data.model))) }

(* load_session_dict and _load_session_from_model: only the copy, field by *)
(* field.                                                                  *)
LoadIntoCopy(s, data) ==
  LET coded == [s EXCEPT !.cache.career = data.model.career]
      known == [coded EXCEPT !.cache.status = data.model.status]
  IN  CASE data.bad = "status" -> { Raise(coded) }
        [] data.bad = "list"   -> { Raise(known) }
        [] OTHER               -> { Ok([known EXCEPT !.cache.list = data.model.list]) }

LoadSession(s, data, running) ==
  IF data.kind = "state_dict" THEN LoadFromStateDict(s, data, running)
  ELSE LoadIntoCopy(s, data)

(* The factories are coroutines: the event loop runs.                      *)
Create(data, init_session) ==
  AndThen( IF data.kind = "none" THEN { Ok(Fresh) } ELSE LoadSession(Fresh, data, TRUE),
           LAMBDA s : IF data.kind = "state_dict" \/ (data.kind = "none" /\ init_session)
                        THEN InitSession(s) ELSE { Ok(s) } )

CreateCareerSession(career) ==
  AndThen(Create(NoData, TRUE), LAMBDA s : SetCareer(s, career))

OtherCode(s, career) == s.cache.career = NoCareer \/ s.cache.career.code # career.code

OtherCareer(s, career) == s.cache.career # career

InitSiaScraper(career, data) ==
  IF data.kind = "none" THEN CreateCareerSession(career)
  ELSE AndThen( Create(data, FALSE),
                LAMBDA s :
                  IF s.cache.status = "NO_SESSION"
                    THEN AndThen(Close(s), LAMBDA c : CreateCareerSession(career))
                  ELSE IF OtherCareer(s, career) THEN SetCareer(s, career)
                  ELSE { Ok(s) } )

-----------------------------------------------------------------------------
(* The calls of a program.                                                 *)

Ends(name, career, r) ==
  /\ calls < MaxCalls
  /\ calls' = calls + 1
  /\ sc' = r.s
  /\ last' = [call |-> name, career |-> career, report |-> r.report]

(* A factory that raises leaves the program with the scraper it had.       *)
Makes(name, career, r) ==
  Ends(name, career, [s |-> IF r.report.raised THEN sc ELSE r.s, report |-> r.report])

CreateCall ==
  /\ \E data \in {NoData, saved}, init_session \in BOOLEAN :
       \E r \in Create(data, init_session) : Makes("create", NoCareer, r)
  /\ UNCHANGED saved

InitSiaScraperCall ==
  /\ \E career \in Careers, data \in {NoData, saved} :
       \E r \in InitSiaScraper(career, data) : Makes("init_sia_scraper", career, r)
  /\ UNCHANGED saved

LoadSessionCall ==
  /\ saved.kind # "none"
  /\ \E running \in BOOLEAN :
       \E r \in LoadSession(sc, saved, running) : Ends("load_session", NoCareer, r)
  /\ UNCHANGED saved

SetCareerCall ==
  /\ \E career \in Careers : \E r \in SetCareer(sc, career) : Ends("set_career", career, r)
  /\ UNCHANGED saved

CloseSessionCall ==
  /\ \E r \in Close(sc) : Ends("close_session", NoCareer, r)
  /\ UNCHANGED saved

Courses == UNION { ToSet(Table[career]) : career \in Careers }
Indices == UNION { 0..Len(Table[career]) : career \in Careers }

GetCourseInfoCall ==
  /\ \E code \in Courses \cup {NoCode}, i \in Indices :
       /\ code # NoCode => i = 0
       /\ \E r \in GetCourseInfo(sc, i, code) : Ends("get_course_info", NoCareer, r)
  /\ UNCHANGED saved

(* A program that gives an index and a code means that course by both.     *)
Consistent(s, b) ==
  b.indices # <<>> /\ b.codes # <<>> =>
    \A k \in DOMAIN b.indices \cap DOMAIN b.codes :
      \/ b.codes[k] = NoCode
      \/ /\ b.indices[k] \in 0..Len(s.cache.list) - 1
         /\ b.codes[k] = s.cache.list[b.indices[k] + 1]

ScrapeCoursesCall ==
  /\ \E b \in Batches, mode \in {"abort", "skip", "retry"} :
       /\ Consistent(sc, b)
       /\ \E r \in ScrapeCourses(sc, b, mode) : Ends("scrape_courses", NoCareer, r)
  /\ UNCHANGED saved

(* get_session_data gives the state_dict form; its inner dict is the older *)
(* form.  Outside, a dict may be damaged.                                  *)
SaveSession ==
  /\ sc.rust.on
  /\ \E kind \in {"state_dict", "legacy"}, bad \in {"nothing", "status", "list"} :
       saved' = [kind |-> kind, bad |-> bad, model |-> Model(sc.rust), origin |-> sc.rust]
  /\ Ends("get_session_data", NoCareer, Ok(sc))

(* get_state gives the model, and synchronises the copy.                   *)
GetState ==
  /\ sc.rust.on
  /\ saved' = [kind |-> "model", bad |-> "nothing", model |-> Model(sc.rust), origin |-> sc.rust]
  /\ Ends("get_state", NoCareer, Ok(Synced(sc.rust)))

Done == calls = MaxCalls /\ UNCHANGED vars

Next ==
  \/ CreateCall \/ InitSiaScraperCall \/ LoadSessionCall \/ SetCareerCall \/ CloseSessionCall
  \/ GetCourseInfoCall \/ ScrapeCoursesCall \/ SaveSession \/ GetState \/ Done

Spec == Init /\ [][Next]_vars

-----------------------------------------------------------------------------
(* As long as the list the program sees is that of the career Rust works   *)
(* on, a course comes back under its own code, whichever of the batch      *)
(* failed and however often an index was given.                            *)
LabelledWhenListCurrent ==
  sc.rust.on /\ sc.rust.career \in Careers /\ sc.cache.list = Table[sc.rust.career] =>
    \A k \in DOMAIN last.report.courses :
      last.report.courses[k].code \in {NoCode, last.report.courses[k].course}

(* A batch that came to an end is not lost on its way through Python,      *)
(* unless an index given twice both succeeded and failed.                  *)
ResultKept ==
  last.report.batch = "returned" /\ last.report.raised => last.report.split

(* init_sia_scraper returns a scraper for the career and kind it was asked.*)
ReturnsCareerAsked ==
  last.call = "init_sia_scraper" /\ ~last.report.raised =>
    sc.cache.career = last.career /\ sc.cache.status # "NO_SESSION"

(* A session that is loaded back from its state_dict is the one saved.     *)
RestoresWhatWasSaved ==
  last.call = "load_session" /\ ~last.report.raised /\ saved.kind = "state_dict" =>
    sc.rust = saved.origin /\ sc.cache = saved.model

-----------------------------------------------------------------------------
(* What the repository says of the program and the program does not do.    *)

(* scraper.py:375 and README.md:62: a course asked for by its code.        *)
LabelledRight ==
  \A k \in DOMAIN last.report.courses :
    last.report.courses[k].code \in {NoCode, last.report.courses[k].course}
=============================================================================
