---------------------------- MODULE ScraperProofs ----------------------------
(***************************************************************************)
(* Proofs about Scraper for every catalog and any number of calls: what    *)
(* the factories return, what loading restores, which course has a code.  *)
(***************************************************************************)
EXTENDS Scraper, SequenceLemmas

AnyCareer == Careers \cup {NoCareer}
AnyList   == { Table[career] : career \in Careers } \cup {<<>>}

Rusts  == [ on : BOOLEAN, status : RustStatuses, career : AnyCareer, list : AnyList ]
Models == [ status : PythonStatuses, career : AnyCareer, list : AnyList ]

(* On the career page a session has a career.                              *)
Selected(rust) == rust.status = "ON_CAREER_PAGE" => rust.career \in Careers

IsRust(rust) == rust \in Rusts /\ Selected(rust)

IsScraper(s) == s \in [ rust : Rusts, cache : Models ] /\ Selected(s.rust)

(* What is kept outside was made from a session that was there.            *)
IsSaved(data) ==
  \/ data = NoData
  \/ data.kind # "none" /\ IsRust(data.origin) /\ data.origin.on /\ data.model = Model(data.origin)

ScraperInv == IsScraper(sc) /\ IsSaved(saved) /\ RestoresWhatWasSaved

-----------------------------------------------------------------------------
LEMMA ModelTyped ==
  ASSUME NEW rust, IsRust(rust)
  PROVE  Model(rust) \in Models /\ IsScraper(Synced(rust))
<1>1. Model(rust) \in Models
  BY DEF IsRust, Rusts, Models, Model, NormalizeStatus, RustStatuses, PythonStatuses
<1> QED  BY <1>1 DEF IsRust, IsScraper, Synced

LEMMA ConstantsTyped ==
  /\ IsRust(Closed) /\ IsRust(Opened) /\ IsScraper(Fresh)
  /\ \A career \in Careers, list \in AnyList : IsRust(OnCareerPage(career, list))
<1>1. IsRust(Closed) /\ IsRust(Opened)
  BY DEF IsRust, Rusts, Selected, Closed, Opened, AnyCareer, AnyList, RustStatuses
<1>2. \A career \in Careers, list \in AnyList : IsRust(OnCareerPage(career, list))
  BY DEF IsRust, Rusts, Selected, OnCareerPage, AnyCareer, RustStatuses
<1> QED  BY <1>1, <1>2, ModelTyped DEF Fresh

LEMMA ListsTyped ==
  ASSUME NEW career \in Careers
  PROVE  Lists(career) \subseteq AnyList
BY DEF Lists, AnyList

LEMMA Reports ==
  ASSUME NEW s
  PROVE  /\ Ok(s).s = s /\ Ok(s).report.raised = FALSE
         /\ Raise(s).s = s /\ Raise(s).report.raised = TRUE
BY DEF Ok, Raise, NoReport

(* A status survives the way to Python and back.                           *)
LEMMA RestoredIsSaved ==
  ASSUME NEW rust, IsRust(rust), rust.on
  PROVE  Restored(Model(rust)) = rust
<1>1. DenormalizeStatus(NormalizeStatus(rust.status)) = rust.status
  BY DEF IsRust, Rusts, RustStatuses, NormalizeStatus, DenormalizeStatus
<1>2. rust.on = TRUE
  BY DEF IsRust, Rusts
<1> QED  BY <1>1, <1>2 DEF Restored, Model, IsRust, Rusts

-----------------------------------------------------------------------------
(* What each call leaves: a scraper, and of what it returns.               *)

LEMMA SetCareerGives ==
  ASSUME NEW s, IsScraper(s), NEW career \in Careers, NEW r \in SetCareer(s, career)
  PROVE  /\ IsScraper(r.s)
         /\ ~r.report.raised => r.s.cache.career = career /\ r.s.cache.status = "ON_CAREER_PAGE"
<1>1. CASE r = Raise(s)
  BY <1>1, Reports
<1>2. CASE r = Raise([s EXCEPT !.rust.career = career])
  <2>1. IsScraper([s EXCEPT !.rust.career = career])
    BY DEF IsScraper, Rusts, Selected, AnyCareer
  <2> QED  BY <1>2, <2>1, Reports
<1>3. CASE \E list \in Lists(career) : r = Ok(Synced(OnCareerPage(career, list)))
  <2>1. PICK list \in AnyList : r = Ok(Synced(OnCareerPage(career, list)))
    BY <1>3, ListsTyped
  <2>2. r.s = Synced(OnCareerPage(career, list))
    BY <2>1, Reports
  <2>3. IsScraper(r.s)
    BY <2>2, ConstantsTyped, ModelTyped
  <2>4. r.s.cache = Model(OnCareerPage(career, list))
    BY <2>2 DEF Synced
  <2> QED  BY <2>3, <2>4 DEF Model, OnCareerPage, NormalizeStatus
<1> QED  BY <1>1, <1>2, <1>3 DEF SetCareer

LEMMA InitSessionGives ==
  ASSUME NEW s, IsScraper(s), NEW r \in InitSession(s)
  PROVE  IsScraper(r.s)
<1>1. CASE r = Raise(s)
  BY <1>1, Reports
<1>2. CASE r = Ok(Synced(Opened))
  <2>1. r.s = Synced(Opened)
    BY <1>2, Reports
  <2> QED  BY <2>1, ConstantsTyped, ModelTyped
<1> QED  BY <1>1, <1>2 DEF InitSession

(* A scrape moves only the list of Rust's session.                         *)
LEMMA ScrapeCourseGives ==
  ASSUME NEW s, IsScraper(s), NEW i, NEW code, NEW r \in ScrapeCourse(s, i, code)
  PROVE  IsScraper(r.s)
<1>1. \A list \in AnyList : IsScraper([s EXCEPT !.rust.list = list])
  BY DEF IsScraper, Rusts, Selected
<1>2. CASE r = Raise(s)
  BY <1>2, Reports
<1>3. CASE InList(s.rust, i)
  <2>1. s.rust.career \in Careers
    BY <1>3 DEF InList, IsScraper, Selected
  <2>2. Table[s.rust.career] \in AnyList /\ Lists(s.rust.career) \subseteq AnyList
    BY <2>1, ListsTyped DEF AnyList
  <2>3. r = Raise(s) \/ \E list \in AnyList : r.s = [s EXCEPT !.rust.list = list]
    BY <1>3, <2>2, Reports DEF ScrapeCourse, Ok, Raise
  <2> QED  BY <1>1, <1>2, <2>3
<1> QED  BY <1>2, <1>3 DEF ScrapeCourse

LEMMA GetCourseInfoGives ==
  ASSUME NEW s, IsScraper(s), NEW i, NEW code, NEW r \in GetCourseInfo(s, i, code)
  PROVE  IsScraper(r.s)
<1>1. CASE r = Raise(s)
  BY <1>1, Reports
<1>2. CASE \E index : r \in ScrapeCourse(s, index, code)
  BY <1>2, ScrapeCourseGives
<1> QED  BY <1>1, <1>2 DEF GetCourseInfo

LEMMA ScrapeCoursesGives ==
  ASSUME NEW s, NEW b, NEW mode, NEW r \in ScrapeCourses(s, b, mode)
  PROVE  r.s = s
<1>1. \A pairs, good : Batch(s, pairs, mode, good).s = s
  BY DEF Batch, Raise
<1>2. CASE r = Raise(s)
  BY <1>2, Reports
<1>3. CASE \E pairs, good : r = Batch(s, pairs, mode, good)
  BY <1>1, <1>3
<1> QED  BY <1>2, <1>3 DEF ScrapeCourses

(* What was saved is a session's, and is restored as it was, or in the     *)
(* copy only.                                                              *)
LEMMA LoadSessionGives ==
  ASSUME NEW s, IsScraper(s), NEW data, IsSaved(data), data.kind # "none", NEW running,
         NEW r \in LoadSession(s, data, running)
  PROVE  /\ IsScraper(r.s)
         /\ ~r.report.raised /\ data.kind = "state_dict" =>
              r.s.rust = data.origin /\ r.s.cache = data.model
<1>1. /\ IsRust(data.origin) /\ data.origin.on /\ data.model = Model(data.origin)
      /\ data.model \in Models
  BY ModelTyped DEF IsSaved, NoData
<1>2. CASE r = Raise(s)
  BY <1>2, Reports
<1>3. CASE data.kind = "state_dict" /\ r # Raise(s)
  <2>1. r = Ok(Synced(data.origin))
    BY <1>1, <1>3, RestoredIsSaved DEF LoadSession, LoadFromStateDict
  <2>2. r.s = Synced(data.origin)
    BY <2>1, Reports
  <2> QED  BY <1>1, <2>2, ModelTyped DEF Synced
<1>4. CASE data.kind # "state_dict"
  <2> DEFINE coded == [s EXCEPT !.cache.career = data.model.career]
             known == [coded EXCEPT !.cache.status = data.model.status]
             whole == [known EXCEPT !.cache.list = data.model.list]
  <2>1. IsScraper(coded)
    BY <1>1 DEF IsScraper, Models
  <2>2. IsScraper(known)
    BY <1>1, <2>1 DEF IsScraper, Models
  <2>3. IsScraper(whole)
    BY <1>1, <2>2 DEF IsScraper, Models
  <2>4. r \in { Raise(coded), Raise(known), Ok(whole) }
    BY <1>4, Zenon DEF LoadSession, LoadIntoCopy
  <2> HIDE DEF coded, known, whole
  <2>5. r.s \in { coded, known, whole }
    BY <2>4, Reports
  <2> QED  BY <1>4, <2>1, <2>2, <2>3, <2>5
<1> QED  BY <1>2, <1>3, <1>4

LEMMA CreateGives ==
  ASSUME NEW data, IsSaved(data), NEW init_session, NEW r \in Create(data, init_session)
  PROVE  IsScraper(r.s)
<1> DEFINE first == IF data.kind = "none" THEN { Ok(Fresh) } ELSE LoadSession(Fresh, data, TRUE)
<1>1. ASSUME NEW p \in first  PROVE IsScraper(p.s)
  <2>1. CASE data.kind = "none"
    <3>1. p.s = Fresh
      BY <1>1, <2>1, Reports
    <3> QED  BY <3>1, ConstantsTyped
  <2>2. CASE data.kind # "none"
    BY <1>1, <2>2, ConstantsTyped, LoadSessionGives
  <2> QED  BY <2>1, <2>2
<1>2. \E p \in first : r = p \/ r = Ok(p.s) \/ r \in InitSession(p.s)
  BY Zenon DEF Create, AndThen
<1> HIDE DEF first
<1>3. PICK p \in first : r = p \/ r = Ok(p.s) \/ r \in InitSession(p.s)
  BY <1>2
<1>4. IsScraper(p.s)
  BY <1>1
<1>5. CASE r = p \/ r = Ok(p.s)
  BY <1>4, <1>5, Reports
<1>6. CASE r \in InitSession(p.s)
  BY <1>4, <1>6, InitSessionGives
<1> QED  BY <1>3, <1>5, <1>6

LEMMA CreateCareerSessionGives ==
  ASSUME NEW career \in Careers, NEW r \in CreateCareerSession(career)
  PROVE  /\ IsScraper(r.s)
         /\ ~r.report.raised => r.s.cache.career = career /\ r.s.cache.status = "ON_CAREER_PAGE"
<1>1. IsSaved(NoData)
  BY DEF IsSaved
<1>2. PICK p \in Create(NoData, TRUE) : r \in IF p.report.raised THEN {p} ELSE SetCareer(p.s, career)
  BY DEF CreateCareerSession, AndThen
<1> QED  BY <1>1, <1>2, CreateGives, SetCareerGives

(* The factory restores or selects, and selects again what was restored    *)
(* for another career or for none.                                         *)
LEMMA InitSiaScraperGives ==
  ASSUME NEW career \in Careers, NEW data, IsSaved(data), NEW r \in InitSiaScraper(career, data)
  PROVE  /\ IsScraper(r.s)
         /\ ~r.report.raised => r.s.cache.career = career /\ r.s.cache.status # "NO_SESSION"
<1> DEFINE Rest(s) ==
      IF s.cache.status = "NO_SESSION"
        THEN AndThen(Close(s), LAMBDA c : CreateCareerSession(career))
      ELSE IF OtherCareer(s, career) THEN SetCareer(s, career)
      ELSE { Ok(s) }
<1>1. CASE r \in CreateCareerSession(career)
  BY <1>1, CreateCareerSessionGives
<1>2. CASE data.kind # "none"
  <2>1. InitSiaScraper(career, data) =
          UNION { IF p.report.raised THEN {p} ELSE Rest(p.s) : p \in Create(data, FALSE) }
    BY <1>2, Zenon DEF InitSiaScraper, AndThen
  <2>2. PICK p \in Create(data, FALSE) : r \in IF p.report.raised THEN {p} ELSE Rest(p.s)
    BY <2>1, Zenon
  <2>3. IsScraper(p.s)
    BY CreateGives
  <2>4. CASE p.report.raised
    BY <2>2, <2>3, <2>4
  <2>5. CASE ~p.report.raised /\ p.s.cache.status = "NO_SESSION"
    <3>1. r \in UNION { IF c.report.raised THEN {c} ELSE CreateCareerSession(career) : c \in Close(p.s) }
      BY <2>2, <2>5, Zenon DEF AndThen
    <3>2. r \in IF Ok(Fresh).report.raised THEN {Ok(Fresh)} ELSE CreateCareerSession(career)
      BY <3>1, Zenon DEF Close
    <3>3. r \in CreateCareerSession(career)
      BY <3>2, Reports
    <3> QED  BY <1>1, <3>3
  <2>6. CASE /\ ~p.report.raised
             /\ p.s.cache.status # "NO_SESSION"
             /\ OtherCareer(p.s, career)
    <3>1. r \in SetCareer(p.s, career)
      BY <2>2, <2>6
    <3> QED  BY <2>3, <3>1, SetCareerGives
  <2>7. CASE /\ ~p.report.raised
             /\ p.s.cache.status # "NO_SESSION"
             /\ ~OtherCareer(p.s, career)
    <3>1. r.s = p.s
      BY <2>2, <2>7, Reports
    <3> QED  BY <2>3, <2>7, <3>1 DEF OtherCareer
  <2> QED  BY <2>4, <2>5, <2>6, <2>7
<1> QED  BY <1>1, <1>2 DEF InitSiaScraper

-----------------------------------------------------------------------------
(* The calls.  Loading restores what was saved, and saving makes the       *)
(* saved data of a session that is there.                                  *)

LEMMA CallLeaves ==
  ASSUME NEW name, NEW career, NEW r, Ends(name, career, r)
  PROVE  sc' = r.s /\ last' = [call |-> name, career |-> career, report |-> r.report]
BY DEF Ends

LEMMA FactoryLeaves ==
  ASSUME NEW name, NEW career, NEW r, Makes(name, career, r)
  PROVE  /\ sc' = IF r.report.raised THEN sc ELSE r.s
         /\ last' = [call |-> name, career |-> career, report |-> r.report]
BY DEF Makes, Ends

LEMMA InitScraper == Init => ScraperInv
<1> SUFFICES ASSUME Init  PROVE ScraperInv
  OBVIOUS
<1>1. IsScraper(sc)
  BY ConstantsTyped DEF Init
<1>2. IsSaved(saved)
  BY DEF Init, IsSaved
<1>3. RestoresWhatWasSaved
  BY DEF Init, RestoresWhatWasSaved
<1> QED  BY <1>1, <1>2, <1>3 DEF ScraperInv

LEMMA NextKeepsScraper == ScraperInv /\ [Next]_vars => ScraperInv'
<1> SUFFICES ASSUME ScraperInv, [Next]_vars  PROVE ScraperInv'
  OBVIOUS
<1>0. IsScraper(sc) /\ IsSaved(saved) /\ IsSaved(NoData)
  BY DEF ScraperInv, IsSaved
<1>1. CASE CreateCall
  <2>1. PICK data \in {NoData, saved}, init_session \in BOOLEAN :
         \E r \in Create(data, init_session) : Makes("create", NoCareer, r)
    BY <1>1 DEF CreateCall
  <2>r. PICK r \in Create(data, init_session) : Makes("create", NoCareer, r)
    BY <2>1
  <2>2. IsScraper(r.s)
    BY <1>0, CreateGives
  <2>3. IsScraper(sc')
    BY <1>0, <2>r, <2>2, FactoryLeaves
  <2>4. last'.call = "create"
    BY <2>r, FactoryLeaves
  <2> QED  BY <1>0, <1>1, <2>3, <2>4 DEF CreateCall, ScraperInv, RestoresWhatWasSaved
<1>2. CASE InitSiaScraperCall
  <2>1. PICK career \in Careers, data \in {NoData, saved} :
         \E r \in InitSiaScraper(career, data) : Makes("init_sia_scraper", career, r)
    BY <1>2 DEF InitSiaScraperCall
  <2>r. PICK r \in InitSiaScraper(career, data) : Makes("init_sia_scraper", career, r)
    BY <2>1
  <2>2. IsScraper(r.s)
    BY <1>0, InitSiaScraperGives
  <2>3. IsScraper(sc')
    BY <1>0, <2>r, <2>2, FactoryLeaves
  <2>4. last'.call = "init_sia_scraper"
    BY <2>r, FactoryLeaves
  <2> QED  BY <1>0, <1>2, <2>3, <2>4 DEF InitSiaScraperCall, ScraperInv, RestoresWhatWasSaved
<1>3. CASE LoadSessionCall
  <2>1. PICK running \in BOOLEAN :
         \E r \in LoadSession(sc, saved, running) : Ends("load_session", NoCareer, r)
    BY <1>3 DEF LoadSessionCall
  <2>r. PICK r \in LoadSession(sc, saved, running) : Ends("load_session", NoCareer, r)
    BY <2>1
  <2>2. sc' = r.s /\ last'.report = r.report /\ saved' = saved
    BY <1>3, <2>r, CallLeaves DEF LoadSessionCall
  <2>3. saved.kind # "none"
    BY <1>3 DEF LoadSessionCall
  <2>4. /\ IsScraper(r.s)
        /\ ~r.report.raised /\ saved.kind = "state_dict" =>
             r.s.rust = saved.origin /\ r.s.cache = saved.model
    BY <1>0, <2>3, LoadSessionGives
  <2> QED  BY <1>0, <2>2, <2>4 DEF ScraperInv, RestoresWhatWasSaved
<1>4. CASE SetCareerCall
  <2>1. PICK career \in Careers :
         \E r \in SetCareer(sc, career) : Ends("set_career", career, r)
    BY <1>4 DEF SetCareerCall
  <2>r. PICK r \in SetCareer(sc, career) : Ends("set_career", career, r)
    BY <2>1
  <2>2. IsScraper(sc') /\ last'.call = "set_career"
    BY <1>0, <2>r, SetCareerGives, CallLeaves
  <2> QED  BY <1>0, <1>4, <2>2 DEF SetCareerCall, ScraperInv, RestoresWhatWasSaved
<1>5. CASE CloseSessionCall
  <2>1. Ends("close_session", NoCareer, Ok(Fresh))
    BY <1>5 DEF CloseSessionCall, Close
  <2>2. IsScraper(sc') /\ last'.call = "close_session"
    BY <2>1, ConstantsTyped DEF Ends, Ok
  <2> QED  BY <1>0, <1>5, <2>2 DEF CloseSessionCall, ScraperInv, RestoresWhatWasSaved
<1>6. CASE GetCourseInfoCall
  <2>1. PICK code \in Courses \cup {NoCode}, i \in Indices :
         \E r \in GetCourseInfo(sc, i, code) : Ends("get_course_info", NoCareer, r)
    BY <1>6 DEF GetCourseInfoCall
  <2>r. PICK r \in GetCourseInfo(sc, i, code) : Ends("get_course_info", NoCareer, r)
    BY <2>1
  <2>2. IsScraper(sc') /\ last'.call = "get_course_info"
    BY <1>0, <2>r, GetCourseInfoGives, CallLeaves
  <2> QED  BY <1>0, <1>6, <2>2 DEF GetCourseInfoCall, ScraperInv, RestoresWhatWasSaved
<1>7. CASE ScrapeCoursesCall
  <2>1. PICK b \in Batches, mode \in {"abort", "skip", "retry"} :
         \E r \in ScrapeCourses(sc, b, mode) : Ends("scrape_courses", NoCareer, r)
    BY <1>7 DEF ScrapeCoursesCall
  <2>r. PICK r \in ScrapeCourses(sc, b, mode) : Ends("scrape_courses", NoCareer, r)
    BY <2>1
  <2>2. IsScraper(sc') /\ last'.call = "scrape_courses"
    BY <1>0, <2>r, ScrapeCoursesGives, CallLeaves
  <2> QED  BY <1>0, <1>7, <2>2 DEF ScrapeCoursesCall, ScraperInv, RestoresWhatWasSaved
<1>8. CASE SaveSession
  <2>1. PICK kind \in {"state_dict", "legacy"}, bad \in {"nothing", "status", "list"} :
          saved' = [kind |-> kind, bad |-> bad, model |-> Model(sc.rust), origin |-> sc.rust]
    BY <1>8 DEF SaveSession
  <2>2. IsRust(sc.rust) /\ sc.rust.on
    BY <1>0, <1>8 DEF SaveSession, IsScraper, IsRust
  <2>3. IsSaved(saved')
    BY <2>1, <2>2 DEF IsSaved
  <2>4. Ends("get_session_data", NoCareer, Ok(sc))
    BY <1>8 DEF SaveSession
  <2>5. IsScraper(sc') /\ last'.call = "get_session_data"
    BY <1>0, <2>4 DEF Ends, Ok
  <2> QED  BY <2>3, <2>5 DEF ScraperInv, RestoresWhatWasSaved
<1>9. CASE GetState
  <2>1. saved' = [kind |-> "model", bad |-> "nothing", model |-> Model(sc.rust), origin |-> sc.rust]
    BY <1>9 DEF GetState
  <2>2. IsRust(sc.rust) /\ sc.rust.on
    BY <1>0, <1>9 DEF GetState, IsScraper, IsRust
  <2>3. IsSaved(saved')
    BY <2>1, <2>2 DEF IsSaved
  <2>4. Ends("get_state", NoCareer, Ok(Synced(sc.rust)))
    BY <1>9 DEF GetState
  <2>5. sc' = Synced(sc.rust) /\ last'.call = "get_state"
    BY <2>4 DEF Ends, Ok
  <2>6. IsScraper(sc')
    BY <2>2, <2>5, ModelTyped
  <2> QED  BY <2>3, <2>5, <2>6 DEF ScraperInv, RestoresWhatWasSaved
<1>10. CASE UNCHANGED vars
  BY <1>0, <1>10 DEF ScraperInv, RestoresWhatWasSaved, vars
<1> QED  BY <1>1, <1>2, <1>3, <1>4, <1>5, <1>6, <1>7, <1>8, <1>9, <1>10 DEF Next, Done

(* Of a program that calls one scraper, for every catalog, every argument  *)
(* and any number of calls: a state_dict that load_session accepts gives   *)
(* back the session it was made from, and the copy of it.                  *)
THEOREM RestoresSaved == Spec => []RestoresWhatWasSaved
<1>1. ScraperInv => RestoresWhatWasSaved
  BY DEF ScraperInv
<1> QED  BY <1>1, InitScraper, NextKeepsScraper, PTL DEF Spec

(* What init_sia_scraper returns is a scraper whose copy holds the career  *)
(* and the kind it was asked for, restored or selected again.              *)
THEOREM ReturnsCareer == Spec => []ReturnsCareerAsked
<1>1. Init => ReturnsCareerAsked
  BY DEF Init, ReturnsCareerAsked
<1>2. ScraperInv /\ ReturnsCareerAsked /\ [Next]_vars => ReturnsCareerAsked'
  <2> SUFFICES ASSUME ScraperInv, ReturnsCareerAsked, [Next]_vars  PROVE ReturnsCareerAsked'
    OBVIOUS
  <2>1. IsSaved(saved) /\ IsSaved(NoData)
    BY DEF ScraperInv, IsSaved
  <2>2. CASE InitSiaScraperCall
    <3>1. PICK career \in Careers, data \in {NoData, saved} :
           \E r \in InitSiaScraper(career, data) : Makes("init_sia_scraper", career, r)
      BY <2>2 DEF InitSiaScraperCall
    <3>r. PICK r \in InitSiaScraper(career, data) : Makes("init_sia_scraper", career, r)
      BY <3>1
    <3>2. ~r.report.raised => r.s.cache.career = career /\ r.s.cache.status # "NO_SESSION"
      BY <2>1, InitSiaScraperGives
    <3>3. /\ sc' = IF r.report.raised THEN sc ELSE r.s
          /\ last'.career = career /\ last'.report = r.report
      BY <3>r, FactoryLeaves
    <3> QED  BY <3>2, <3>3 DEF ReturnsCareerAsked
  <2>3. CASE UNCHANGED vars
    BY <2>3 DEF ReturnsCareerAsked, vars
  <2>4. last'.call # "init_sia_scraper" => ReturnsCareerAsked'
    BY DEF ReturnsCareerAsked
  <2>5. CASE CreateCall
    <3>1. PICK r : Makes("create", NoCareer, r)
      BY <2>5 DEF CreateCall
    <3> QED  BY <2>4, <3>1, FactoryLeaves
  <2>6. CASE LoadSessionCall
    <3>1. PICK r : Ends("load_session", NoCareer, r)
      BY <2>6 DEF LoadSessionCall
    <3> QED  BY <2>4, <3>1, CallLeaves
  <2>7. CASE CloseSessionCall
    <3>1. PICK r : Ends("close_session", NoCareer, r)
      BY <2>7 DEF CloseSessionCall
    <3> QED  BY <2>4, <3>1, CallLeaves
  <2>8. CASE GetCourseInfoCall
    <3>1. PICK r : Ends("get_course_info", NoCareer, r)
      BY <2>8 DEF GetCourseInfoCall
    <3> QED  BY <2>4, <3>1, CallLeaves
  <2>9. CASE ScrapeCoursesCall
    <3>1. PICK r : Ends("scrape_courses", NoCareer, r)
      BY <2>9 DEF ScrapeCoursesCall
    <3> QED  BY <2>4, <3>1, CallLeaves
  <2>10. CASE SetCareerCall
    <3>1. PICK career, r : Ends("set_career", career, r)
      BY <2>10 DEF SetCareerCall
    <3> QED  BY <2>4, <3>1, CallLeaves
  <2>11. CASE SaveSession
    BY <2>4, <2>11 DEF SaveSession, Ends
  <2>12. CASE GetState
    BY <2>4, <2>12 DEF GetState, Ends
  <2> QED  BY <2>2, <2>3, <2>5, <2>6, <2>7, <2>8, <2>9, <2>10, <2>11, <2>12 DEF Next, Done
<1> QED  BY <1>1, <1>2, InitScraper, NextKeepsScraper, PTL DEF Spec

-----------------------------------------------------------------------------
(* A list of courses, each under its own code or none.                     *)
Labelled(courses) ==
  \A k \in DOMAIN courses : courses[k].code \in {NoCode, courses[k].course}

(* What a code given with an index may be: the code found there.           *)
Right(s, p) == p.code = NoCode \/ p.code = s.cache.list[p.index + 1]

ListCurrent(s) == s.rust.on /\ s.rust.career \in Careers /\ s.cache.list = Table[s.rust.career]

-----------------------------------------------------------------------------
(* The position SelectInSeq gives is that of the code, or 0.               *)
LEMMA SelectedIsCode ==
  ASSUME NEW T, NEW list \in Seq(T), NEW code
  PROVE  LET i == SelectInSeq(list, LAMBDA c : c = code)
         IN  i = 0 \/ (i \in 1..Len(list) /\ list[i] = code)
<1> DEFINE I == { i \in 1..Len(list) : list[i] = code }
<1>1. CASE I = {}
  BY <1>1 DEF SelectInSeq
<1>2. CASE I # {}
  <2>1. I \in SUBSET Nat
    OBVIOUS
  <2>2. PICK n \in I : \A m \in I : n <= m
    BY <1>2, <2>1, LeastNatural
  <2>3. Min(I) \in I
    <3> HIDE DEF I
    <3> QED BY <2>2 DEF Min
  <2>4. SelectInSeq(list, LAMBDA c : c = code) = Min(I)
    BY <1>2 DEF SelectInSeq
  <2> QED BY <2>3, <2>4
<1> QED BY <1>1, <1>2

LEMMA IndexIsOfCode ==
  ASSUME NEW s, NEW T, s.cache.list \in Seq(T), NEW code
  PROVE  /\ GetCourseIndex(s, code) \in Int
         /\ GetCourseIndex(s, code) >= 0 =>
              /\ GetCourseIndex(s, code) + 1 \in 1..Len(s.cache.list)
              /\ s.cache.list[GetCourseIndex(s, code) + 1] = code
<1> DEFINE i == SelectInSeq(s.cache.list, LAMBDA c : c = code)
<1>1. i = 0 \/ (i \in 1..Len(s.cache.list) /\ s.cache.list[i] = code)
  BY SelectedIsCode
<1>2. GetCourseIndex(s, code) = IF s.cache.status # "ON_CAREER_PAGE" THEN -1 ELSE i - 1
  BY DEF GetCourseIndex
<1> HIDE DEF i
<1>3. CASE s.cache.status # "ON_CAREER_PAGE"
  BY <1>2, <1>3
<1>4. CASE s.cache.status = "ON_CAREER_PAGE"
  <2>1. i \in Int /\ i - 1 + 1 = i
    BY <1>1
  <2> QED BY <1>1, <1>2, <1>4, <2>1
<1> QED BY <1>3, <1>4

-----------------------------------------------------------------------------
(* Every pair a batch is prepared with has a code that belongs to its      *)
(* index: the program gave both, or the index was looked up.               *)
LEMMA PairsRight ==
  ASSUME NEW s, NEW T, s.cache.list \in Seq(T), NEW b \in Batches, Consistent(s, b)
  PROVE  /\ PairsUnsorted(s, b) \in Seq([index : Int, code : {NoCode} \cup ToSet(b.codes)])
         /\ \A k \in DOMAIN PairsUnsorted(s, b) : Right(s, PairsUnsorted(s, b)[k])
<1> DEFINE indices == IF b.indices # <<>> THEN b.indices
                      ELSE [k \in DOMAIN b.codes |-> GetCourseIndex(s, b.codes[k])]
           codes   == IF b.codes # <<>> THEN b.codes ELSE [k \in DOMAIN indices |-> NoCode]
           unknown == b.indices = <<>> /\ \E k \in DOMAIN indices : indices[k] < 0
           pairs   == [k \in DOMAIN indices |-> [index |-> indices[k], code |-> codes[k]]]
           P       == [index : Int, code : {NoCode} \cup ToSet(b.codes)]
<1>1. b.indices \in Seq(Int) /\ b.codes \in Seq(ToSet(b.codes))
  BY ScraperAssumption
<1>2. /\ DOMAIN b.indices = 1..Len(b.indices) /\ Len(b.indices) \in Nat
      /\ DOMAIN b.codes = 1..Len(b.codes) /\ Len(b.codes) \in Nat
      /\ \A k \in DOMAIN b.indices : b.indices[k] \in Int
      /\ \A k \in DOMAIN b.codes : b.codes[k] \in ToSet(b.codes)
  BY <1>1, LenProperties, ElementOfSeq
<1>3. PairsUnsorted(s, b) =
        IF Len(indices) # Len(codes) \/ unknown THEN <<>> ELSE pairs
  BY DEF PairsUnsorted
<1>4. CASE Len(indices) # Len(codes) \/ unknown
  <2>1. PairsUnsorted(s, b) = <<>>
    BY <1>3, <1>4
  <2>2. <<>> \in Seq(P) /\ DOMAIN <<>> = {}
    OBVIOUS
  <2> QED BY <2>1, <2>2
<1>5. CASE ~(Len(indices) # Len(codes) \/ unknown)
  <2>1. /\ DOMAIN indices = 1..Len(indices) /\ Len(indices) \in Nat
        /\ \A k \in DOMAIN indices : indices[k] \in Int
    <3>1. CASE b.indices # <<>>
      BY <1>2, <3>1
    <3>2. CASE b.indices = <<>>
      <4>1. \A k \in DOMAIN b.codes : GetCourseIndex(s, b.codes[k]) \in Int
        BY IndexIsOfCode
      <4>2. indices = [k \in 1..Len(b.codes) |-> GetCourseIndex(s, b.codes[k])]
        BY <1>2, <3>2
      <4>3. indices \in Seq(Int) /\ Len(indices) = Len(b.codes)
        <5> HIDE DEF indices
        <5> QED BY <1>2, <4>1, <4>2
      <4> HIDE DEF indices
      <4> QED BY <1>2, <4>3, ElementOfSeq, LenProperties
    <3> HIDE DEF indices
    <3> QED BY <3>1, <3>2
  <2>2. b.indices = <<>> => \A k \in DOMAIN indices : indices[k] >= 0
    <3> HIDE DEF indices, codes
    <3> QED BY <1>5, <2>1
  <2>3. /\ DOMAIN codes = DOMAIN indices
        /\ \A k \in DOMAIN codes : codes[k] \in {NoCode} \cup ToSet(b.codes)
        /\ b.codes # <<>> => codes = b.codes
        /\ b.codes = <<>> => \A k \in DOMAIN codes : codes[k] = NoCode
    <3>1. CASE b.codes # <<>>
      <4>1. codes = b.codes /\ Len(indices) = Len(codes)
        BY <1>5, <3>1
      <4> HIDE DEF indices, codes
      <4> QED BY <1>2, <2>1, <3>1, <4>1
    <3>2. CASE b.codes = <<>>
      BY <3>2
    <3> QED BY <3>1, <3>2
  <2>4. \A k \in DOMAIN indices :
          codes[k] = NoCode \/ codes[k] = s.cache.list[indices[k] + 1]
    <3> SUFFICES ASSUME NEW k \in DOMAIN indices, codes[k] # NoCode
                 PROVE  codes[k] = s.cache.list[indices[k] + 1]
      OBVIOUS
    <3>1. b.codes # <<>> /\ codes[k] = b.codes[k] /\ k \in DOMAIN b.codes
      <4> HIDE DEF indices, codes
      <4> QED BY <2>3
    <3>2. CASE b.indices # <<>>
      <4>1. indices[k] = b.indices[k] /\ k \in DOMAIN b.indices
        BY <3>2
      <4> HIDE DEF indices, codes
      <4> QED BY <3>1, <3>2, <4>1 DEF Consistent
    <3>3. CASE b.indices = <<>>
      <4>1. indices[k] = GetCourseIndex(s, b.codes[k])
        BY <3>1, <3>3
      <4> HIDE DEF indices, codes
      <4>2. GetCourseIndex(s, b.codes[k]) >= 0
        BY <2>2, <3>3, <4>1
      <4> QED BY <3>1, <4>1, <4>2, IndexIsOfCode
    <3> QED BY <3>2, <3>3
  <2> HIDE DEF indices, codes
  <2>5. /\ DOMAIN pairs = 1..Len(indices)
        /\ \A k \in DOMAIN pairs : pairs[k] \in P /\ pairs[k].index = indices[k] /\ pairs[k].code = codes[k]
    BY <2>1, <2>2, <2>3
  <2>6. pairs \in Seq(P)
    <3>1. pairs = [k \in 1..Len(indices) |-> pairs[k]]
      BY <2>1
    <3> HIDE DEF pairs, P
    <3>2. pairs \in [1..Len(indices) -> P]
      BY <2>5, <3>1
    <3> QED BY <2>1, <3>2, SeqDef
  <2>7. \A k \in DOMAIN pairs : Right(s, pairs[k])
    <3> HIDE DEF pairs
    <3> QED BY <2>1, <2>4, <2>5 DEF Right
  <2>8. PairsUnsorted(s, b) = pairs
    BY <1>3, <1>5
  <2> QED BY <2>6, <2>7, <2>8
<1> QED BY <1>4, <1>5

(* Sorting keeps them.                                                     *)
LEMMA SortedPairsRight ==
  ASSUME NEW s, NEW T, s.cache.list \in Seq(T), NEW b \in Batches, Consistent(s, b)
  PROVE  /\ PrepareScrapeIndices(s, b) \in Seq([index : Int, code : {NoCode} \cup ToSet(b.codes)])
         /\ \A k \in DOMAIN PrepareScrapeIndices(s, b) : Right(s, PrepareScrapeIndices(s, b)[k])
<1> DEFINE u     == PairsUnsorted(s, b)
           P     == [index : Int, code : {NoCode} \cup ToSet(b.codes)]
           keys  == [k \in DOMAIN u |-> u[k].index]
           order == ByKey(keys)
           pairs == Pick(u, order)
<1>1. u \in Seq(P) /\ \A k \in DOMAIN u : Right(s, u[k])
  BY PairsRight
<1>2. PrepareScrapeIndices(s, b) = pairs
  BY DEF PrepareScrapeIndices, SortBy
<1> HIDE DEF u
<1>3. /\ DOMAIN u = 1..Len(u) /\ Len(u) \in Nat
      /\ \A k \in DOMAIN u : u[k] \in P
  BY <1>1, LenProperties, ElementOfSeq
<1>4. DOMAIN keys = 1..Len(u) /\ \A k \in DOMAIN keys : k \in Int /\ keys[k] \in Int
  <2>1. \A k \in DOMAIN u : u[k].index \in Int
    BY <1>3
  <2> QED BY <1>3, <2>1
<1>5. IsKeyed(keys)
  <2>1. IsFiniteSet(1..Len(u))
    BY <1>3, FS_Interval
  <2> HIDE DEF keys
  <2> QED BY <1>4, <2>1 DEF IsKeyed
<1> HIDE DEF keys
<1>6. /\ Cardinality(DOMAIN keys) \in Nat
      /\ DOMAIN order = 1..Cardinality(DOMAIN keys)
      /\ \A n \in DOMAIN order : order[n] \in DOMAIN u
  BY <1>3, <1>4, <1>5, ByKeyOrders
<1> HIDE DEF order
<1>7. /\ pairs = [n \in 1..Cardinality(DOMAIN keys) |-> u[order[n]]]
      /\ DOMAIN pairs = 1..Cardinality(DOMAIN keys)
  BY <1>6 DEF Pick
<1>8. \A n \in DOMAIN pairs : order[n] \in DOMAIN u /\ pairs[n] = u[order[n]]
  BY <1>6, <1>7
<1> HIDE DEF pairs, P
<1>9. \A n \in DOMAIN pairs : pairs[n] \in P /\ Right(s, pairs[n])
  BY <1>1, <1>3, <1>8
<1>10. pairs \in Seq(P)
  <2>1. pairs \in [1..Cardinality(DOMAIN keys) -> P]
    BY <1>7, <1>9
  <2> QED BY <1>6, <2>1, SeqDef
<1> QED BY <1>2, <1>9, <1>10 DEF P

(* The code applied to an index is the code of one of its pairs, or none.  *)
LEMMA CodeApplied ==
  ASSUME NEW C, NEW pairs \in Seq([index : Int, code : C]), NEW index
  PROVE  \/ CodeOf(pairs, index) = NoCode
         \/ \E k \in DOMAIN pairs : pairs[k].index = index /\ CodeOf(pairs, index) = pairs[k].code
<1> DEFINE ks == { k \in DOMAIN pairs : pairs[k].index = index /\ pairs[k].code # NoCode }
<1>1. CASE ks = {}
  BY <1>1 DEF CodeOf
<1>2. CASE ks # {}
  <2>1. DOMAIN pairs = 1..Len(pairs) /\ Len(pairs) \in Nat
    BY LenProperties
  <2>2. Max(ks) \in ks
    <3> DEFINE S == { Len(pairs) - k : k \in ks }
    <3>1. S \in SUBSET Nat /\ S # {}
      BY <1>2, <2>1
    <3>2. PICK n \in S : \A m \in S : n <= m
      BY <3>1, LeastNatural
    <3>3. PICK k \in ks : n = Len(pairs) - k
      BY <3>2
    <3>4. \A m \in ks : Len(pairs) - k <= Len(pairs) - m
      BY <3>2, <3>3
    <3>5. ks \subseteq 1..Len(pairs)
      BY <2>1
    <3> HIDE DEF ks, S
    <3>6. \A m \in ks : k >= m
      BY <2>1, <3>3, <3>4, <3>5
    <3> QED BY <3>3, <3>6 DEF Max
  <2>3. CodeOf(pairs, index) = pairs[Max(ks)].code
    BY <1>2 DEF CodeOf
  <2> QED BY <2>2, <2>3
<1> QED BY <1>1, <1>2

-----------------------------------------------------------------------------
(* A position that failed is not kept.  When every position that succeeded *)
(* is, the kept pairs are those of the successes; when one is not, its     *)
(* index both failed and succeeded.                                        *)
LEMMA BatchGives ==
  ASSUME NEW s, ListCurrent(s), NEW C, NEW mode,
         NEW pairs \in Seq([index : Int, code : C]),
         \A k \in DOMAIN pairs : Right(s, pairs[k]),
         NEW good \in SUBSET (DOMAIN pairs),
         NEW r, r = Batch(s, pairs, mode, good)
  PROVE  Labelled(r.report.courses)
<1> DEFINE P         == [index : Int, code : C]
           table     == Table[s.rust.career]
           bad       == DOMAIN pairs \ good
           failed    == { pairs[k].index : k \in bad }
           order     == Increasing(good)
           successes == [ k \in DOMAIN order |-> table[pairs[order[k]].index + 1] ]
           courses   == ApplyCourseCodes(successes, pairs, failed)
           K         == { k \in DOMAIN pairs : pairs[k].index \notin failed }
           kept      == Pick(pairs, Increasing(K))
<1>1. \/ r.report.courses = <<>>
      \/ r.report.courses = courses
  <2>1. CASE mode = "abort" /\ bad # {}
    <3>1. r.report = [NoReport EXCEPT !.raised = TRUE, !.batch = "aborted"]
      BY <2>1 DEF Batch, Raise
    <3> QED BY <3>1 DEF NoReport
  <2>2. CASE ~(mode = "abort" /\ bad # {})
    BY <2>2 DEF Batch
  <2> QED BY <2>1, <2>2
<1>2. /\ Cardinality(good) \in Nat /\ IsFiniteSet(good) /\ good \in SUBSET Int
      /\ Cardinality(K) \in Nat /\ K \in SUBSET (DOMAIN pairs)
      /\ Len(kept) = Cardinality(K) /\ DOMAIN kept = 1..Cardinality(K)
      /\ \A n \in 1..Cardinality(K) : Increasing(K)[n] \in K /\ kept[n] = pairs[Increasing(K)[n]]
  <2>1. /\ Cardinality(good) \in Nat /\ IsFiniteSet(good) /\ good \in SUBSET Int
    BY PickIncreasing
  <2>2. K \in SUBSET (DOMAIN pairs)
    OBVIOUS
  <2> HIDE DEF K, P
  <2> QED BY <2>1, <2>2, PickIncreasing
<1>3. /\ DOMAIN order = 1..Cardinality(good)
      /\ \A n \in 1..Cardinality(good) : order[n] \in good
  BY <1>2, IncreasingOrders
<1>4. DOMAIN successes = 1..Cardinality(good) /\ Len(successes) = Cardinality(good)
  BY <1>2, <1>3
<1>5. courses =
        IF \A k \in DOMAIN pairs : pairs[k].code = NoCode
          THEN [ k \in DOMAIN successes |-> [course |-> successes[k], code |-> NoCode] ]
        ELSE IF Len(successes) # Len(kept) THEN <<>>
        ELSE [ k \in DOMAIN successes |->
                 [course |-> successes[k], code |-> CodeOf(pairs, kept[k].index)] ]
  BY DEF ApplyCourseCodes, Filter
<1>6. K \in SUBSET good
  <2>1. \A k \in K : k \in good
    OBVIOUS
  <2> QED BY <2>1, Zenon
<1>7. CASE courses = [ k \in DOMAIN successes |-> [course |-> successes[k], code |-> NoCode] ]
  <2>1. r.report.courses = <<>> \/ r.report.courses = courses
    BY <1>1, Zenon
  <2> HIDE DEF courses, successes
  <2>2. Labelled(courses)
    BY <1>7 DEF Labelled
  <2>3. Labelled(<<>>)
    BY DEF Labelled
  <2> QED BY <2>1, <2>2, <2>3, Zenon
<1>8. CASE courses = <<>>
  <2>1. r.report.courses = <<>>
    BY <1>1, <1>8
  <2> QED BY <2>1 DEF Labelled
<1>9. CASE /\ Len(successes) = Len(kept)
           /\ courses = [ k \in DOMAIN successes |->
                            [course |-> successes[k], code |-> CodeOf(pairs, kept[k].index)] ]
  <2>1. K = good
    BY <1>2, <1>4, <1>6, <1>9, FS_Subset
  <2>2. ASSUME NEW n \in DOMAIN successes
        PROVE  CodeOf(pairs, kept[n].index) \in {NoCode, successes[n]}
    <3> DEFINE k == order[n]
    <3>1. /\ k \in good /\ kept[n] = pairs[k] /\ successes[n] = table[pairs[k].index + 1]
      BY <1>2, <1>3, <1>4, <2>1
    <3> HIDE DEF k, successes, table, kept
    <3>2. CASE CodeOf(pairs, pairs[k].index) # NoCode
      <4>1. PICK j \in DOMAIN pairs : /\ pairs[j].index = pairs[k].index
                                      /\ CodeOf(pairs, pairs[k].index) = pairs[j].code
        BY <3>2, CodeApplied
      <4>2. pairs[j].code = s.cache.list[pairs[j].index + 1]
        BY <3>2, <4>1 DEF Right
      <4>3. s.cache.list = table
        BY DEF ListCurrent, table
      <4> QED BY <3>1, <4>1, <4>2, <4>3
    <3> QED BY <3>1, <3>2
  <2> HIDE DEF successes, kept
  <2>3. Labelled(courses)
    BY <1>9, <2>2 DEF Labelled
  <2>4. Labelled(<<>>)
    BY DEF Labelled
  <2> QED BY <1>1, <2>3, <2>4
<1> HIDE DEF courses, successes, kept
<1> QED BY <1>5, <1>7, <1>8, <1>9

(* A result is refused only when an index given twice both succeeded and   *)
(* failed.                                                                 *)
LEMMA BatchKept ==
  ASSUME NEW s, NEW P, NEW mode, NEW pairs \in Seq(P),
         NEW good \in SUBSET (DOMAIN pairs),
         NEW r, r = Batch(s, pairs, mode, good),
         r.report.batch = "returned", r.report.raised
  PROVE  r.report.split
<1> DEFINE table     == Table[s.rust.career]
           bad       == DOMAIN pairs \ good
           failed    == { pairs[k].index : k \in bad }
           order     == Increasing(good)
           successes == [ k \in DOMAIN order |-> table[pairs[order[k]].index + 1] ]
           courses   == ApplyCourseCodes(successes, pairs, failed)
           K         == { k \in DOMAIN pairs : pairs[k].index \notin failed }
           kept      == Pick(pairs, Increasing(K))
<1>1. /\ r.report.raised = (Len(courses) # Len(successes))
      /\ r.report.split = \E k \in good : pairs[k].index \in failed
  <2> DEFINE refused == Len(courses) # Len(successes)
             split   == \E k \in good : pairs[k].index \in failed
             kind    == "returned"
  <2>1. ~(mode = "abort" /\ bad # {})
    <3> SUFFICES ASSUME mode = "abort" /\ bad # {}  PROVE FALSE
      OBVIOUS
    <3>1. r.report = [NoReport EXCEPT !.raised = TRUE, !.batch = "aborted"]
      BY DEF Batch, Raise
    <3> QED BY <3>1 DEF NoReport
  <2>2. r.report = [raised |-> refused, courses |-> courses, batch |-> kind, split |-> split]
    BY <2>1 DEF Batch
  <2> HIDE DEF refused, split, courses
  <2>3. r.report.raised = refused /\ r.report.split = split
    BY <2>2, SMT
  <2> QED BY <2>3 DEF refused, split
<1>2. /\ Cardinality(good) \in Nat /\ IsFiniteSet(good) /\ good \in SUBSET Int
      /\ Len(kept) = Cardinality(K)
  BY PickIncreasing
<1>3. DOMAIN order = 1..Cardinality(good)
  BY <1>2, IncreasingOrders
<1>4. DOMAIN successes = 1..Cardinality(good) /\ Len(successes) = Cardinality(good)
  BY <1>2, <1>3
<1>5. courses =
        IF \A k \in DOMAIN pairs : pairs[k].code = NoCode
          THEN [ k \in DOMAIN successes |-> [course |-> successes[k], code |-> NoCode] ]
        ELSE IF Len(successes) # Len(kept) THEN <<>>
        ELSE [ k \in DOMAIN successes |->
                 [course |-> successes[k], code |-> CodeOf(pairs, kept[k].index)] ]
  BY DEF ApplyCourseCodes, Filter
<1>6. Len(courses) # Len(successes)
  <2> HIDE DEF courses, successes
  <2> QED BY <1>1, Zenon
<1>7. \A code : Len([ k \in DOMAIN successes |-> [course |-> successes[k], code |-> code[k]] ])
                  = Cardinality(good)
  <2> HIDE DEF successes
  <2> QED BY <1>2, <1>4
<1>8. Len(successes) # Len(kept)
  <2>1. /\ courses # [ k \in DOMAIN successes |-> [course |-> successes[k], code |-> NoCode] ]
        /\ courses # [ k \in DOMAIN successes |->
                         [course |-> successes[k], code |-> CodeOf(pairs, kept[k].index)] ]
    <3> HIDE DEF courses, successes, kept
    <3> QED BY <1>2, <1>4, <1>6
  <2> HIDE DEF courses, successes, kept
  <2> QED BY <1>5, <2>1
<1>9. K # good
  BY <1>2, <1>4, <1>8
<1>10. \E k \in good : pairs[k].index \in failed
  <2>1. \A k \in K : k \in good
    OBVIOUS
  <2>2. PICK k \in good : k \notin K
    BY <1>9, <2>1, Zenon
  <2> QED BY <2>2
<1> HIDE DEF failed
<1> QED BY <1>1, <1>10, Zenon
-----------------------------------------------------------------------------
(* Only get_course_info and scrape_courses return courses.                 *)
Quiet(r) == r.report.courses = <<>> /\ r.report.batch = "none"

LEMMA QuietEnds ==
  ASSUME NEW s
  PROVE  Quiet(Ok(s)) /\ Quiet(Raise(s))
BY DEF Quiet, Ok, Raise, NoReport

LEMMA QuietSession ==
  ASSUME NEW s, NEW r
  PROVE  /\ r \in InitSession(s) => Quiet(r)
         /\ r \in Close(s) => Quiet(r)
         /\ \A career : r \in SetCareer(s, career) => Quiet(r)
         /\ \A data, running : r \in LoadSession(s, data, running) => Quiet(r)
<1>1. r \in InitSession(s) => Quiet(r)
  BY QuietEnds DEF InitSession
<1>2. r \in Close(s) => Quiet(r)
  BY QuietEnds DEF Close
<1>3. \A career : r \in SetCareer(s, career) => Quiet(r)
  BY QuietEnds DEF SetCareer
<1>4. ASSUME NEW data, NEW running, r \in LoadSession(s, data, running)
      PROVE  Quiet(r)
  <2>1. CASE r \in LoadFromStateDict(s, data, running)
    BY <2>1, QuietEnds DEF LoadFromStateDict
  <2>2. CASE r \in LoadIntoCopy(s, data)
    <3> DEFINE coded == [s EXCEPT !.cache.career = data.model.career]
               known == [coded EXCEPT !.cache.status = data.model.status]
               whole == [known EXCEPT !.cache.list = data.model.list]
    <3>1. r \in { Raise(coded), Raise(known), Ok(whole) }
      BY <2>2, Zenon DEF LoadIntoCopy
    <3> HIDE DEF coded, known, whole
    <3> QED BY <3>1, QuietEnds
  <2> QED BY <1>4, <2>1, <2>2 DEF LoadSession
<1> QED BY <1>1, <1>2, <1>3, <1>4

LEMMA QuietCreate ==
  ASSUME NEW data, NEW init_session, NEW r \in Create(data, init_session)
  PROVE  Quiet(r)
<1> DEFINE first == IF data.kind = "none" THEN { Ok(Fresh) } ELSE LoadSession(Fresh, data, TRUE)
<1>1. \A p \in first : Quiet(p)
  BY QuietEnds, QuietSession
<1>2. \E p \in first : r = p \/ r = Ok(p.s) \/ r \in InitSession(p.s)
  BY Zenon DEF Create, AndThen
<1> HIDE DEF first
<1> QED BY <1>1, <1>2, QuietEnds, QuietSession

LEMMA QuietCreateCareer ==
  ASSUME NEW career, NEW r \in CreateCareerSession(career)
  PROVE  Quiet(r)
<1>1. PICK p \in Create(NoData, TRUE) : r \in IF p.report.raised THEN {p} ELSE SetCareer(p.s, career)
  BY DEF CreateCareerSession, AndThen
<1> QED BY <1>1, QuietCreate, QuietSession

LEMMA QuietFactory ==
  ASSUME NEW career, NEW data, NEW r \in InitSiaScraper(career, data)
  PROVE  Quiet(r)
<1> DEFINE Rest(s) ==
      IF s.cache.status = "NO_SESSION"
        THEN AndThen(Close(s), LAMBDA c : CreateCareerSession(career))
      ELSE IF OtherCareer(s, career) THEN SetCareer(s, career)
      ELSE { Ok(s) }
<1>1. CASE data.kind = "none"
  BY <1>1, QuietCreateCareer DEF InitSiaScraper
<1>2. CASE data.kind # "none"
  <2>1. InitSiaScraper(career, data) =
          UNION { IF p.report.raised THEN {p} ELSE Rest(p.s) : p \in Create(data, FALSE) }
    BY <1>2, Zenon DEF InitSiaScraper, AndThen
  <2>2. PICK p \in Create(data, FALSE) : r \in IF p.report.raised THEN {p} ELSE Rest(p.s)
    BY <2>1, Zenon
  <2>3. CASE r = p
    BY <2>3, QuietCreate
  <2>4. CASE r \in AndThen(Close(p.s), LAMBDA c : CreateCareerSession(career))
    <3>1. \E c \in Close(p.s) : r = c \/ r \in CreateCareerSession(career)
      BY <2>4, Zenon DEF AndThen
    <3> QED BY <3>1, QuietSession, QuietCreateCareer
  <2>5. CASE r \in SetCareer(p.s, career) \/ r = Ok(p.s)
    BY <2>5, QuietSession, QuietEnds
  <2> QED BY <2>2, <2>3, <2>4, <2>5
<1> QED BY <1>1, <1>2

-----------------------------------------------------------------------------
(* A course asked for by code is the one the list has under that code.     *)
LEMMA CourseLabelled ==
  ASSUME NEW s, IsScraper(s), NEW i, NEW code, NEW r \in GetCourseInfo(s, i, code)
  PROVE  /\ r.s.cache = s.cache /\ r.s.rust.on = s.rust.on /\ r.s.rust.career = s.rust.career
         /\ r.report.batch = "none"
         /\ ListCurrent(s) => Labelled(r.report.courses)
<1> DEFINE index == IF code # NoCode THEN GetCourseIndex(s, code) ELSE i
           table == Table[s.rust.career]
           Entry == [course |-> table[index + 1], code |-> code]
<1>1. ASSUME NEW t, r = Raise(t), t.cache = s.cache,
             t.rust.on = s.rust.on, t.rust.career = s.rust.career
      PROVE  /\ r.s.cache = s.cache /\ r.s.rust.on = s.rust.on /\ r.s.rust.career = s.rust.career
             /\ r.report.batch = "none" /\ r.report.courses = <<>>
  BY <1>1 DEF Raise, NoReport
<1>2. \A courses : courses = <<>> => Labelled(courses)
  BY DEF Labelled
<1>3. CASE r = Raise(s)
  BY <1>1, <1>2, <1>3
<1>4. CASE r \in ScrapeCourse(s, index, code) /\ ~(index < 0)
  <2>1. \A list : /\ [s EXCEPT !.rust.list = list].cache = s.cache
                  /\ [s EXCEPT !.rust.list = list].rust.on = s.rust.on
                  /\ [s EXCEPT !.rust.list = list].rust.career = s.rust.career
    BY DEF IsScraper, Rusts
  <2>2. CASE \E list : r = Raise([s EXCEPT !.rust.list = list])
    BY <1>1, <1>2, <2>1, <2>2
  <2>3. CASE r = [Ok([s EXCEPT !.rust.list = table]) EXCEPT !.report.courses = <<Entry>>]
    <3>1. r.s = [s EXCEPT !.rust.list = table] /\ r.report.courses = <<Entry>>
          /\ r.report.batch = "none"
      BY <2>3 DEF Ok, NoReport
    <3>2. ASSUME ListCurrent(s), code # NoCode
          PROVE  table[index + 1] = code
      <4>1. s.cache.list = table /\ table \in Seq(ToSet(table))
        BY <3>2, ScraperAssumption DEF ListCurrent
      <4>2. index = GetCourseIndex(s, code) /\ GetCourseIndex(s, code) \in Int
        BY <3>2, <4>1, IndexIsOfCode
      <4>3. GetCourseIndex(s, code) >= 0
        <5> HIDE DEF index
        <5> QED BY <1>4, <4>2
      <4> HIDE DEF index, table
      <4> QED BY <4>1, <4>2, <4>3, IndexIsOfCode
    <3>3. ListCurrent(s) => Entry.code \in {NoCode, Entry.course}
      BY <3>2
    <3> HIDE DEF Entry
    <3>4. ListCurrent(s) => Labelled(<<Entry>>)
      BY <3>3 DEF Labelled
    <3> QED BY <2>1, <3>1, <3>4
  <2>4. CASE r = Raise(s)
    BY <1>3, <2>4
  <2> QED BY <1>4, <2>2, <2>3, <2>4 DEF ScrapeCourse
<1> QED BY <1>3, <1>4 DEF GetCourseInfo

LEMMA ListTyped ==
  ASSUME NEW list \in AnyList
  PROVE  list \in Seq(ToSet(list))
<1>1. CASE list = <<>>
  BY <1>1
<1>2. CASE \E career \in Careers : list = Table[career]
  BY <1>2, ScraperAssumption
<1> QED BY <1>1, <1>2 DEF AnyList

LEMMA BatchLabelled ==
  ASSUME NEW s, IsScraper(s), NEW b \in Batches, Consistent(s, b), NEW mode,
         NEW r \in ScrapeCourses(s, b, mode)
  PROVE  /\ r.s = s
         /\ ListCurrent(s) => Labelled(r.report.courses)
         /\ r.report.batch = "returned" /\ r.report.raised => r.report.split
<1> DEFINE pairs == PrepareScrapeIndices(s, b)
           C == {NoCode} \cup ToSet(b.codes)
<1>1. r.s = s
  BY ScrapeCoursesGives
<1>2. s.cache.list \in Seq(ToSet(s.cache.list))
  BY ListTyped DEF IsScraper, Models
<1>3. pairs \in Seq([index : Int, code : C]) /\ \A k \in DOMAIN pairs : Right(s, pairs[k])
  BY <1>2, SortedPairsRight
<1>4. CASE r = Raise(s)
  <2>1. r.report.courses = <<>> /\ r.report.batch = "none"
    BY <1>4, QuietEnds DEF Quiet
  <2> QED BY <1>1, <2>1 DEF Labelled
<1>5. CASE \E good \in SUBSET Scrapable(s, pairs) : r = Batch(s, pairs, mode, good)
  <2>1. PICK good \in SUBSET Scrapable(s, pairs) : r = Batch(s, pairs, mode, good)
    BY <1>5
  <2>2. good \in SUBSET (DOMAIN pairs)
    BY DEF Scrapable
  <2> HIDE DEF pairs, C
  <2>3. ListCurrent(s) => Labelled(r.report.courses)
    BY <1>3, <2>1, <2>2, BatchGives
  <2>4. r.report.batch = "returned" /\ r.report.raised => r.report.split
    BY <1>3, <2>1, <2>2, BatchKept
  <2> QED BY <1>1, <2>3, <2>4
<1> QED BY <1>4, <1>5 DEF ScrapeCourses

-----------------------------------------------------------------------------
LEMMA InitLabelled == Init => LabelledWhenListCurrent /\ ResultKept
BY DEF Init, NoReport, LabelledWhenListCurrent, ResultKept

LEMMA NextLabelled ==
  ScraperInv /\ LabelledWhenListCurrent /\ ResultKept /\ [Next]_vars
    => LabelledWhenListCurrent' /\ ResultKept'
<1> SUFFICES ASSUME ScraperInv, LabelledWhenListCurrent, ResultKept, [Next]_vars
             PROVE  LabelledWhenListCurrent' /\ ResultKept'
  OBVIOUS
<1>0. IsScraper(sc)
  BY DEF ScraperInv
<1>1. ASSUME last'.report.courses = <<>>, last'.report.batch = "none"
      PROVE  LabelledWhenListCurrent' /\ ResultKept'
  BY <1>1 DEF LabelledWhenListCurrent, ResultKept
<1>2. ASSUME NEW name, NEW career, NEW r, Quiet(r), Ends(name, career, r) \/ Makes(name, career, r)
      PROVE  LabelledWhenListCurrent' /\ ResultKept'
  <2>1. last'.report = r.report
    BY <1>2 DEF Ends, Makes
  <2> QED BY <1>1, <1>2, <2>1 DEF Quiet
<1>3. CASE CreateCall
  BY <1>2, <1>3, QuietCreate DEF CreateCall
<1>4. CASE InitSiaScraperCall
  BY <1>2, <1>4, QuietFactory DEF InitSiaScraperCall
<1>5. CASE LoadSessionCall
  BY <1>2, <1>5, QuietSession DEF LoadSessionCall
<1>6. CASE SetCareerCall
  BY <1>2, <1>6, QuietSession DEF SetCareerCall
<1>7. CASE CloseSessionCall
  BY <1>2, <1>7, QuietSession DEF CloseSessionCall
<1>8. CASE SaveSession
  BY <1>2, <1>8, QuietEnds DEF SaveSession
<1>9. CASE GetState
  BY <1>2, <1>9, QuietEnds DEF GetState
<1>10. CASE GetCourseInfoCall
  <2>1. PICK code, i : \E r \in GetCourseInfo(sc, i, code) : Ends("get_course_info", NoCareer, r)
    BY <1>10 DEF GetCourseInfoCall
  <2>2. PICK r \in GetCourseInfo(sc, i, code) : Ends("get_course_info", NoCareer, r)
    BY <2>1
  <2>3. sc' = r.s /\ last'.report = r.report
    BY <2>2, CallLeaves
  <2>4. /\ r.s.cache = sc.cache /\ r.s.rust.on = sc.rust.on /\ r.s.rust.career = sc.rust.career
        /\ r.report.batch = "none"
        /\ ListCurrent(sc) => Labelled(r.report.courses)
    BY <1>0, <2>2, CourseLabelled
  <2>5. LabelledWhenListCurrent'
    BY <2>3, <2>4 DEF LabelledWhenListCurrent, ListCurrent, Labelled
  <2>6. ResultKept'
    BY <2>3, <2>4 DEF ResultKept
  <2> QED BY <2>5, <2>6
<1>11. CASE ScrapeCoursesCall
  <2>1. PICK b \in Batches, mode \in {"abort", "skip", "retry"} :
          /\ Consistent(sc, b)
          /\ \E r \in ScrapeCourses(sc, b, mode) : Ends("scrape_courses", NoCareer, r)
    BY <1>11 DEF ScrapeCoursesCall
  <2>2. PICK r \in ScrapeCourses(sc, b, mode) : Ends("scrape_courses", NoCareer, r)
    BY <2>1
  <2>3. sc' = r.s /\ last'.report = r.report
    BY <2>2, CallLeaves
  <2>4. /\ r.s = sc
        /\ ListCurrent(sc) => Labelled(r.report.courses)
        /\ r.report.batch = "returned" /\ r.report.raised => r.report.split
    BY <1>0, <2>1, <2>2, BatchLabelled
  <2>5. LabelledWhenListCurrent'
    BY <2>3, <2>4 DEF LabelledWhenListCurrent, ListCurrent, Labelled
  <2>6. ResultKept'
    BY <2>3, <2>4 DEF ResultKept
  <2> QED BY <2>5, <2>6
<1>12. CASE UNCHANGED vars
  BY <1>12 DEF vars, LabelledWhenListCurrent, ResultKept
<1> QED BY <1>3, <1>4, <1>5, <1>6, <1>7, <1>8, <1>9, <1>10, <1>11, <1>12 DEF Next, Done

(* For every catalog, every batch a program may mean and whichever of its  *)
(* courses fail: while the program's list is that of the career Rust works *)
(* on, no course comes back under another's code.                          *)
THEOREM LabelledWhenCurrent == Spec => []LabelledWhenListCurrent
BY InitLabelled, NextLabelled, InitScraper, NextKeepsScraper, PTL DEF Spec

(* A batch that came to an end reaches the program, unless an index given  *)
(* twice both succeeded and failed.                                        *)
THEOREM ResultsKept == Spec => []ResultKept
BY InitLabelled, NextLabelled, InitScraper, NextKeepsScraper, PTL DEF Spec
=============================================================================
