# sia-scraper: a TLA+ model of the scraping core

sia-scraper drives the public course catalog (SIA) of the Universidad Nacional
de Colombia. The catalog is an Oracle ADF application: its state lives on the
server, keyed by a cookie, and every page carries a one-use token
(`javax.faces.ViewState`). Opening one course takes up to eleven dependent POSTs. The
core is a Rust crate (`src/rust/src`, tokio, reqwest, PyO3); a thin Python
package (`src/src/sia_scraper`) wraps it.

This directory holds TLA+ modules of that core, TLC configurations that check
them on small instances, and eight modules of machine-checked proofs. Paths below
are relative to `src/`; `sia_session.rs` is `rust/src/http/sia_session.rs`.

To run a check, e.g. `tlc -config MCConcurrentBatch.cfg MCConcurrentBatch`; to
check proofs, e.g. `tlapm ConcurrentBatchProofs.tla`.

## 1. Inventory

| component | state | operations | talks to |
|---|---|---|---|
| Retry policy (`http/retry.rs`, `http/errors.rs`; `compute_backoff_ms`) | none | `should_retry`, `calculate_delay`, `compute_backoff_ms`, the two retry loops | called by the Rust session for each request, and for each course |
| Rust session (`sia_session.rs`, `http/session.rs`, `http/client.rs`, `http/types.rs`) | `SessionState` behind an `Arc<RwLock>`: ViewState, window id, page id, career code, name and kind, status, course list; the HTTP client with its cookie jar | `init_session`, `set_career`, `scrape_course_info`, `scrape_course_prereqs`, `clone_with_owned_state` | the catalog, over HTTP; held by the PyO3 session |
| ADF request builder (`parsers/adf_request.rs`) | none | `build_request_body` and what it can refuse | the Rust session, per POST |
| Catalog server (external) | one page per cookie session: token, filters, table or course | GET, eight filter actions, select, open, back | answers the client |
| Sequential batch (`scrape_courses_batch`, `scrape_course_with_retry`) | the loop's position, its retries, the `ScrapeResult` | one call in mode abort, skip or retry | a clone of the session |
| Concurrent batch (`scrape_courses_concurrent`) | one future per course, the shared abort flag, the outcomes | one call in mode abort, skip or retry, with `max_concurrent` | one clone of the session per course |
| PyO3 session (`http/py_session.rs`) | `Arc<RwLock<Option<SiaSession>>>`, timeout | the above as asyncio futures, `reset`, `__aenter__`, `from_state`, pickling | Python; clones for batches |
| Python wrapper (`sia_scraper/session.py`) | `_active_operation`, fields copied from Rust | the same, one at a time; `close` | PyO3 session |
| Python scraper (`sia_scraper/scraper.py`) | session, course list | load a session, prepare indices, scrape, attach course codes | wrapper |
| Persistence (`models/session.rs`) | none | `to_dict`/`from_dict` with the older formats, status names, conversions from and to `SessionState` | PyO3 session, scraper |
| Course and prerequisite models (`models/course.rs`, `models/prereqs.rs`) | their fields | `__getstate__`, `__setstate__` | Python, pickling |
| Parsers (`parsers/*.rs`) | none | token, window id, course table, course page, prerequisites | Rust session; Python directly |
| Extension module (`lib.rs`) | none | one-shot functions that make a session of their own; plain `async_get`, `async_post`; `parse_*` | all of the above |
| Constants, tooling | none | — | — |

### What is hard here

1. **A token that rotates.** Each answer replaces the token; a request with an
   older one acts on stale components and may show anything. Retries, clones and
   concurrent tasks all hold tokens for a while.
2. **State in two places.** The client remembers a career, a list and a status;
   the server has its own page. A failure or a cancellation half way leaves them
   apart.
3. **Awaits.** `set_career` reads the session's state, posts, publishes, reads
   again; the lock is never held over an await. Two tasks on one session
   interleave there.
4. **The abort flag** of a concurrent batch: loaded before and after each
   scrape, stored by the future that fails first, with others in flight,
   asleep between retries or not yet begun.
5. **Two counting conventions for attempts**, `1..=max_attempts` and
   `0..=max_retries`, with two backoff formulas of which one saturates and one
   does not.
6. **Cancellation.** Python drops a call at any await; its Rust future is dropped
   a little later, or finishes first, possibly while it waits for the lock.
7. **Positions and codes.** A course is asked for by code, looked up in Python's
   copy of the list, and opened by its row in the list the server shows after
   another navigation.
8. **Pages and stores of several shapes.** Labels anywhere in a row, blocks
   without content, tables outside a table, three forms of a course entry and
   two names of the token: each read by rules that may lose a part in silence.

### What makes each component correct

- Retry policy: exactly the attempts allowed, only for errors worth retrying, a
  wait between any two of them that follows the backoff formula for as long as the
  word can hold any of it.
- Rust session: each POST carries the current token; a scrape that succeeds
  returns the course it was asked for; a successful navigation leaves code,
  name, kind and list of one career; whatever failed or was cancelled, a session
  that says it is on the career page can send its next request; every operation
  ends.
- Batches: one verdict per course, in input order; in abort mode one error, the
  one that caused the abort; no failure reported before its retries are used up;
  never more than `max_concurrent` at a time; the call returns.
- PyO3 session and wrapper: overlapping calls are refused and never lock the
  session for good; a reset or an initialisation never replaces a session some
  operation still works in; the wrapper's status is the session's.
- Scraper and persistence: a course comes back under its own code; a batch that
  ended is not lost; a factory returns the career it was asked for; what is
  loaded is what was saved, in whichever form; a load that fails keeps the lists
  that were there.
- Parsers: a page is accepted exactly when all of it can be read; what is
  accepted is complete and in order; a refusal names every part it is for; the
  position of a course in the list is its row.

`PROJECT.json` lists the hazards one by one, at the line where each bites, with
the property that covers it or the reason why none does.

## 2. Modules

```
Retry ──────┬── RetryLoop ───────┬─ RetryLoopProofs
            │                    └─────────────────── MCRetryLoop
            ├── ConcurrentBatch ─┬─ ConcurrentBatchProofs
            │      │ implements  └─────────────────── MCConcurrentBatch
            │      ▼
            │   BatchContract
            │      ▲
            │      │ implements
            ├── SequentialBatch ─┬─ SequentialBatchProofs
            │                    └─────────────────── MCSequentialBatch
            └── SiaSession ──────┬─ SiaSessionProofs
AdfServer ──────┘                └─────────────────── MCSiaSession

Ordering ─┬─ SequenceLemmas, for the proofs of the three that sort or filter:
          └─ ConcurrentBatch, Scraper, TableParser

TableParser ── CourseParser ─┐
                             ├─ DataPath ─┬─ DataPathProofs
SessionModel ─┬─ Models ─────┘            └────────── MCDataPath
              ├─ PySession ──┬─ PySessionProofs
              │              └─────────────────────── MCPySession
              └─ Scraper ────┬─ ScraperProofs
                             └─────────────────────── MCScraper
```

### Ordering

Sorting by a key and filtering, as Rust's and Python's libraries do them: stable,
and in order. `SortBy` puts an element at the place that its rank gives it, the
number of elements that do not come after it; `Filter` puts the positions that
pass in increasing order. The community modules have the same operators, but
defined by recursion or by a choice among all permutations, of which a proof by
the installed provers can make nothing; a rank is the cardinality of a set, and
the library has theorems about those.

### Retry

`should_retry`, `calculate_delay`, `compute_backoff_ms` and the default policy
as pure operators. A `u64` is a number modulo `WordMax + 1`: the multiplication
of `calculate_delay` wraps, as in a release build (a debug build panics there), the
one of `compute_backoff_ms` saturates, with its shift capped by `ShiftCap` (31 in
the code). The random
jitter of `calculate_delay` becomes the set of delays it can produce.
`ExactBackoffMs` is the reference: the unbounded product, capped.

### RetryLoop

Both loops of `sia_session.rs`, chosen by `call.loop`: `init_session` and
`post_request` (654–671) around one request, `scrape_course_with_retry`
(992–1011) around one course. `Succeed`, `Fail(e)` and `Wake` are the outcomes of
one attempt and the end of a sleep. `async_get`, `async_post` and
`async_get_with_config` of `lib.rs` are the same machine with one attempt; which
calls raise an error status is `RaisesStatus`. `tried` and `slept` are histories.
With `max_attempts = 0` the loop body never runs and the call reports an error all
the same, as in the code.

### BatchContract, SequentialBatch, ConcurrentBatch

`BatchContract` is what a caller of a batch may rely on, whatever the schedule:
positions get at most one verdict (`Settle`); the reply (`Answer`) lists every
verdict in input order, or in abort mode is the error of a failed course. The
result is described, not computed: `IsResult` says of two lists that they hold
each its verdicts, once and in order, however a schedule came by them.

`SequentialBatch` is `scrape_courses_batch`. `ScrapeOk`, `ScrapeErr`,
`RefuseIndex` are the ends of one `scrape_course_info`; since each scrape
navigates again, each that reaches the server may replace the course list, whose
length `list_len` decides whether a later index is refused. `RecordOk`,
`RecordErr`, `Abort` and `Return` are the arms of the loop after it.

`ConcurrentBatch` is `scrape_courses_concurrent`. All futures of the batch run
on one task, so an action is what one poll does between two awaits: `Admit`
(`buffer_unordered` pulls the next future), `Start`, `ScrapeOk`, `ScrapeErr`,
`Wake` (end of the sleep between retries), each of which may end the future
(`Finish`: store the outcome, collect it). `Assemble` is the code after
`collect()`: sort by position, and in abort mode return the earliest error that
is not `Aborted`. Each worker owns its copy of the session, so what a scrape
returns is left open here; the session below says what it can be.

### AdfServer (external)

The catalog, only as far as the client's code depends on it: one valid token,
rotated by each page; filters that must be applied in order; one page (search or
course). A request that does not carry the current token, or is meant for the
page that is not shown, is answered with anything the catalog could show.
The answer to the faculty filter brings the list of its careers, in which the
client looks up the name of the one it selects (`extract_career_name`): a name is
known by the code it belongs to, and for a code of `Unnamed` the entry may be
missing or blank, for which the client stores "N/A" and goes on.
Nothing in the repository implements it; the definitions are marked external in
the map, except the client's own action sequences.

### SiaSession

`SiaSession` of `sia_session.rs` over that server. `state` is the
`SessionState` of each session value (`Root` and the clones batches work on),
`local` the copy `set_career` works on, `request` the encoded body. One
operation goes through

| action | code |
|---|---|
| `InitSession`, `SetCareer`, `ScrapeCourse`, `ScrapeBatch` | the entry of each operation with its checks |
| `InitSiaSession`, `SetCareerOnce`, `GetCourseXml` | the one-shot functions of `lib.rs`: a new session with a cookie jar of its own, then the same requests, the index unchecked |
| `Send` | building the body: from the operation's copy for the filters and `SELECT_ROW`, from a fresh `get_state` for `COURSE_PAGE_LINK` and `BACK_BTTN` |
| `Serve`, `ServeError`, `Lose` | the network: an answer, an error page, a transport error before or after the server acted |
| `Wake` | the next attempt of `post_request`, with the same body |
| `ReceivePost`, `ReceiveGet` | `do_post_request` stores the token of any answer; `do_init_session` |
| `CareerAnswer`, `ShowCourses` | a turn of `set_career`'s loop: status check, publish, copy again; and its end |
| `RowSelected`, `CourseOpened`, `WentBack` | the three requests of a course, and which of their statuses are looked at |
| `Cancel` | the future is dropped at an await |

`srv` is one server session per cookie jar: clones share the one of `Root`
(`clone_with_owned_state` shares the HTTP client), a one-shot session goes by the
name of its caller and has its own. A batch appears as its clone scraping one
course: the loops around it are the two modules above. `call.from` is a history
variable: the page the server showed when the call began.

### SessionModel

`normalize_status` and `denormalize_status` of `models/session.rs`: the two
names a status has, in Rust and in Python.

### PySession

`PySiaSession` (`py_session.rs`) and the wrapper around it (`session.py`), or
`PySiaSession` used directly, as `face` says. A call of a task (`Call`) passes the
guard `_active_operation` and starts a Rust future; the future goes on by
itself until the task is resumed with its result (`Resume`) or cancelled
(`Cancel`). `inner` is the `Option<SiaSession>` with an identity that each
`init_session` makes new; `readers` and `queue` are tokio's fair lock.

| action | code |
|---|---|
| `Start` | the future begins: `init_session` connects, the others ask for the lock |
| `Connect` | `SiaSession::new(...)` and its `init_session`, outside the lock, then a place in the queue |
| `Write` | `*inner.write().await = Some(session)`, or `None` |
| `Enter` | the read guard is there: a state is copied, a batch takes its clone, a navigation or a scrape keeps the guard |
| `Publish`, `Succeed`, `Fail` | what `SiaSession` does to its state meanwhile: the first and the last publication of a navigation, its end, a failure at any point |
| `EndBatch` | the batch returns; its clone is gone |
| `Drop` | the future of a cancelled task is dropped, its guard or place with it |

The inside of a navigation is `SiaSession`'s matter; here it is reduced to what
the wrapper can see. A cancelled task's future may also end by itself first, as
the bridge promises no more.

### Scraper

`SiaScraper` and the factories of `scraper.py`: one program, call after call.
`sc.rust` is the Rust session, `sc.cache` the wrapper's copy. A call is one step
and an operator of its own (`ScrapeCourses`, `InitSiaScraper`, ...) that gives the
set of its results, each with the state it leaves: an exception half way is a
result too. `AndThen` chains calls and stops at an exception, as Python does.
`saved` is session data outside the program, in the three forms the repository
has (`state_dict`, its inner older dict, the model), possibly damaged.
A course is identified with its code; `Table` is the catalog. `NoCode` as a label
means that the scraper wrote none. The navigation of a session restored from
data fails or yields a list like any other, since its cookies are new.

### TableParser, CourseParser

The parsers of `parsers/table_parser.rs` and `parsers/course_parser.rs`. A page
is what the selectors find on it: rows with the texts of their spans, panels,
divs. A text is a sequence of words, of which only the kind (which label it is, a
number, "yes", any other), the case and the digits matter.

`GetCourseList` is a pure operator: the rows of the document with two spans, the
first of them not blank, and only when there is none the same rule over the raw
text. `parse_course_model` and `parse_prereqs_model` are steps: `ReadHead`
(title, credits, with the one difference between the two builds of the crate),
`ReadGroup` or `ReadCondition` for each part of the page, `Conclude`. Groups go
on after an error and collect the errors, in both builds; a condition with a
number too large ends the call at once, one with too few headers is remembered,
one of a single div is passed over. `MaxI32` and `MaxI64` stand for the two
widths: parsing refuses what does not fit, the sum of the spots wraps.

### Models, DataPath

`Models` has the records of `models/*.rs` and their conversions as operators on
dictionaries (functions on their keys): `StateOf` is what every `__getstate__` does
(`CourseInfoState`, `GroupState`, `SessionDict`, ...), `SetStateOf` what every
`__setstate__` of a course model does (`SetCourseInfoState`, ...): it assigns field by field and stops at the first that is
missing or of another type. `FromDict` reads a session in the current and the
older forms. The parts of a part nest as in the code.

`DataPath` puts them in a row: parse a page (`Parse`), write it down (`Store`) as
`to_dict` does, as JSON does, or as an earlier version did, perhaps damaged in one
place; load it (`SetSession`, `SetCourse`, `RestoreSession`) into an object that
held something else or into a new session, with Python's warnings raised as
errors or not (`strict`).

## 3. Runs

Passing runs, all complete state spaces:

| run | states | what it shows |
|---|---|---|
| `retry_loop` | 47 k | `GivesUpWithReason`, `WaitsBetweenAttempts`: exactly the allowed attempts under both conventions and only for curable errors. `CourseBackoffExact`: the saturating product is the meant one under the cap. `RequestBackoffUntilShiftedOut`: the wrapping one too, wrapped products included, until the initial delay is shifted out of the word, after which every wait is the floor. `Terminates`. |
| `concurrent_batch` | 38 k | the abort flag (`OneTrigger`, `AbortHasCause`, `NoScrapeAfterAbort`), the retries (`RetriesUsedUp`), the pool (`WithinConcurrency`), the collection (`CollectedOnce`), `Terminates`, and the refinement `KeepsContract`. |
| `sequential_batch` | 7.3 k | `KeepsContract` again, `Terminates`, and `EmptyListPoisonsTheRest`: one answer without a table makes every later course of the batch fail. |
| `session` | 1.3 M | one caller, its session and one-shot functions, lost requests and error pages: `FreshRequests`, `ScrapedRightCourse`, `CareerCoherent`, `Terminates`. |
| `session_faults` | 4.7 M | two tasks on the session, a batch clone and `init_sia_session`; lost answers, error pages, incomplete first pages, cancellation: `ReadyOnCareerPage`, `SelectionRequested` (the code and kind of a career are never mixed), `TokenNeverLost`. |
| `py_session` | 217 k | two tasks, with and without the wrapper, one of them cancelled anywhere: `OneOperation`, `StatusCurrent`, `NoSwapUnderOperation`, and `Terminates`: nothing waits for the lock for ever. |
| `scraper` | 58 k | five calls on one scraper: `LabelledWhenListCurrent`, `ResultKept` (batches, with every subset of failures), `ReturnsCareerAsked`, `RestoresWhatWasSaved`. |
| `data_path` | 72 k | pages of every shape, stored in four forms, damaged, loaded: `AcceptedIffExaminedReadable` (of the conditions, those of two divs or more), `NothingLost`, `EveryBadGroupNamed` for the parsers; `LoadedIsStored`, `FailedLoadKeepsLists`, `OlderFormsWarn` for the stores; `PositionIsRow` across both: the position a scrape uses is the row of its course. |

Violations, each a statement of the repository that the code does not keep:

| run | statement | what happens |
|---|---|---|
| `stale_token_after_loss` | `docs/QUIRKS.md:19`, each POST uses the latest ViewState | `post_request` resends the body of its first attempt; if only the answer was lost, the server has already rotated the token. |
| `stale_token_after_batch` | the same | a batch runs on a clone; the tokens its answers bring are dropped with it, and the session's next POST carries the one from before. Workers of a parallel batch do this to one another. |
| `mislabelled_course` | `scraper.py:64`, "loaded courses for the active career", by which `README.md:108` asks for a course | `set_career` publishes the career after its first POST and the list after its last. When a POST between fails, `get_course_info(course_code=...)` finds the code in the old list, Rust opens that row of the new career, and the other course is returned under the asked code. |
| `headless_condition` | `docs/MIGRATION_v2.md:19`, "Prerequisite conditions with insufficient headers now fail parsing" | `extract_prereq_conditions` passes over a block of fewer than two divs before it counts headers (`course_parser.rs:600`): the page is accepted, without the condition. |

`LabelledWhenListCurrent` is the part of `LabelledRight` that holds: while
Python's list is that of the career Rust works on. `AcceptedIffExaminedReadable`
is the part of the strict parsing that holds: what a block of one div would have to
say is not asked.

### Bounds, and why they are enough

- `retry_loop`: an 8-bit word (`WordMax = 255`), `ShiftCap = 7`, an initial delay of 6,
  a cap of 15, a floor of 2. Between courses `max_retries = 9 > ShiftCap` reaches
  the clamped shift, the saturation and the cap. Between requests `max_attempts = 10`
  reaches every stage of the product: 6 and 12 below the cap, 24 to 192 above it, 384
  wrapped to 128, then 768 and 1536 wrapped to nothing. In the code, with 800 ms and 64
  bits, this is attempt 60; its own limits (at most 4) stay far below, but
  `with_max_attempts` takes any number. The other modules use the same word.
- Concurrent batch: three futures, up to two at a time, zero or two retries, one
  retryable and one final error. Three is the least number with one future in
  each of the roles an abort tells apart: the one that fails, one in flight, one
  not yet admitted. `max_concurrent = 0` is the refused call. The clock moves by
  0 or 1 per outcome, so equal timestamps occur.
- Sequential batch: four positions, one index twice, one that only the longest
  list has; the list may shrink, grow and become empty at every scrape.
- `session`: `MaxCalls = 4` (initialise, select, scrape, and one more on top of
  whatever was left; one-shot calls among them); two well-formed careers, one of
  each kind, one code that is not four parts, one whose parts are not numbers;
  two course indices of which one is outside the shorter list; a name that the
  answer may lack; two attempts per request; the statuses 404 (final) and 503 (retryable). It leaves out lost
  answers because `FreshRequests` is false with them: that is the run
  `stale_token_after_loss`.
- `session_faults`: three calls of two callers, which is enough for a second
  navigation between any two requests of a first, and for a batch's clone beside
  either; one attempt per request, the two well-formed careers. The callers are
  symmetric, and only safety is
  checked there, so that the reduction is sound.
- `Faults` selects what the network does in a run, so that the interesting faults
  combine within a space TLC exhausts.
- `data_path`: `MaxI32 = 99`, `MaxI64 = 999` and numbers of up to four digits, so
  that a number fits both widths, one or none and a sum wraps. Tables of up to
  three rows over five kinds of row; course pages with every kind of head and up
  to two groups, each with every pairing of one of seven teacher rows and a spots row;
  prerequisite pages with up to two conditions of every kind; one lost or
  mistyped key at each level of the dictionaries, the token under each of its keys.
- `py_session`: two tasks, three futures (a cancelled task leaves one behind),
  two careers, three calls and one cancellation in a behaviour: two calls that
  meet and one that comes after them, behind whatever they left in the queue.
- `scraper`: three careers, of which two are the kinds of one code, with lists
  of 3, 1 and 2 courses that share some; nine arguments of a batch (unsorted,
  repeated, before and after the list, empty, of unequal lengths); five calls, which is
  select, fail, save, load and scrape. The violation needs fewer and uses four.
- Tokens are counted, not bounded: each of the finitely many requests makes one.

### Fairness

`PySession` assumes weak fairness of each future and of each task whose future
is done, `SiaSession` of each caller's progress, `RetryLoop` and
`SequentialBatch` of their one thread, `ConcurrentBatch` of each future and of
the assembly. The code justifies it: the client has a timeout on every request
(`client.rs`), so a request ends with an answer or an error; `tokio::time::sleep`
ends; the executor polls what is woken; the lock is first come, first served. `DataPath` has no liveness: a parse is one call. Nothing is assumed about which
answer arrives, and a caller need not begin an operation: `Terminates` speaks of begun
ones only. No strong fairness is used.

A type invariant is checked where it is part of what is proved of a module
(`concurrent_batch`); the others fail at a field that is not there. Deadlock is
checked in all runs. A finished call is a named stuttering step
(`Done`, `Returned`, `Rest`), so that a state in which something should go on
but nothing can is reported.

## 4. Proofs

`ConcurrentBatchProofs` proves, for every batch length `N`, every set of
concurrency and retry limits and every set of errors:

| theorem | statement |
|---|---|
| `TypeCorrect` | `Spec => []TypeOK`, with `attempt[p] <= EffectiveRetries` in it |
| `SingleTrigger` | `Spec => []OneTrigger` |
| `AbortCaused` | `Spec => []AbortHasCause` |
| `NoEarlyFailure` | `Spec => []RetriesUsedUp` |
| `Collected` | `Spec => []CollectedOnce` |
| `QuietAfterAbort` | `Spec => NoScrapeAfterAbort` |
| `Bounded` | `Spec => []WithinConcurrency` |
| `ImplementsContract` | `Spec => KeepsContract`: the initial states map to initial states and every step of every interleaving settles one open position, answers, or stutters |

The only assumption is `BatchAssumption` of `ConcurrentBatch`: `N` and the
limits are naturals and `Aborted` is not an error a scrape ends with by itself.

None of the invariants is inductive alone. The inductive invariant is

    IndInv == TypeOK /\ AnsweredWhenDone /\ SleepsBelowLimit /\ OnlyDoneCollected
              /\ AbortHasCause /\ OneTrigger /\ RetriesUsedUp /\ CollectedOnce

- `AnsweredWhenDone` (a future has an answer exactly when it is done) makes a
  future that fails a *new* trigger, and keeps one that finished from changing
  its verdict;
- `AbortHasCause` is what makes `OneTrigger` inductive: a future that reads the
  flag as FALSE in abort mode knows that there is no trigger yet;
- `SleepsBelowLimit` bounds the counter of a future that wakes, which `TypeOK`
  needs;
- `OnlyDoneCollected` makes a position that is being collected a new one, which
  `CollectedOnce` needs.

Every future ends by `Finish`, whose effect is the same in five places: the
lemmas `FinishKeeps` and `FinishWithoutTrigger` are about it, `MoveKeeps` and
`BeginKeeps` about the steps that end nothing, and `GivingUpKeeps` about the one
step that may raise the flag. `NextIndInv` then has one case per action.
`WithinConcurrency` is proved beside it from finite-set cardinality
(`NextWithinConcurrency`): only `Admit` adds to `InFlight`, one element, below
the bound.

The refinement needs one more invariant, `RepliesLast`: nothing is answered
before every future has ended. A future that ends settles its position with the
verdict it has from then on (`FinishImplements`; `VerdictCases` says which it
is), every other step of a future is a stutter, and `Assemble` answers
(`AssembleImplements`): the outcomes that were collected are one per position
(`CollectedOnce`), so that sorted by position they are the positions in order
(`SortedResults`), and the first error among them that is not `Aborted` is the
one of the only trigger there is (`TriggerVerdict`).

`PySessionProofs` proves, for every number of tasks, futures, careers, calls and
cancellations:

| theorem | statement |
|---|---|
| `OneOperationAtATime` | `Spec => []OneOperation` |
| `NoSwap` | `Spec => NoSwapUnderOperation` |
| `StatusIsCurrent` | `Spec => []StatusCurrent` |

- For the first the inductive invariant is `GuardInv`: the types of `py` and
  `active`, and `OneOperation` itself. A call enters only when the guard is free
  (`CallKeepsGuard`); a task that returns or is cancelled was alone in it
  (`LeavingKeepsGuard`); the Rust side does not touch it.
- For the second it is `LockInv`: the types of the session and of the futures,
  and `HoldsGuard`: a future that works in the session is among the readers.
  Each step gives one future another record and takes at most its own guard
  away (`OneFutureMoves`, `FinishMoves`, `StageMoves`, `LeaveKeeps`); only
  `Write` changes the session's identity, and it needs that nobody reads. That a
  task waits for an existing future comes from `GuardInv`'s types.
- For the third both are needed, and two more. `QueueInv` is the discipline of
  the lock: whoever waits is behind a writer that is in line, nobody is in line
  twice or while it reads, and a guard is held only by a future that has work to
  do (`Removed` and `Admitted` say what `RemoveFirst` and `Admit` leave of a
  queue). `StatusInv` says, as long as nothing was cancelled, that a future
  belongs to the one task that awaits it (`Owned`), that its stage tells which
  method it runs (`Kinds`), and that the copy, as it will be once the task has
  read its result, has the status of the session (`Agreed`). One operation at a
  time makes that one task the only one to change either side, so that a
  disagreement can last no longer than the operation does.

The assumption of the module, `PyAssumption`, only says that the absent values
are not among the others; no proof uses more.

`ScraperProofs` proves, for every catalog, all arguments and any number of calls:

| theorem | statement |
|---|---|
| `RestoresSaved` | `Spec => []RestoresWhatWasSaved` |
| `ReturnsCareer` | `Spec => []ReturnsCareerAsked` |
| `LabelledWhenCurrent` | `Spec => []LabelledWhenListCurrent` |
| `ResultsKept` | `Spec => []ResultKept` |

    ScraperInv == IsScraper(sc) /\ IsSaved(saved) /\ RestoresWhatWasSaved

- `IsScraper` types the two halves of a scraper, and says that a session on the
  career page has a career: a scrape takes its table from it;
- `IsSaved` says that the data kept outside, damaged or not, was made from an open
  session and carries its model. With `RestoredIsSaved`, that a status survives
  the way to Python and back, loading gives the session back.

Each call has a lemma of what it gives (`SetCareerGives`, `LoadSessionGives`,
`InitSiaScraperGives`, ...), proved from those of the calls it makes, as the code
composes them. `ReturnsCareer` is the last of these: whichever way
`init_sia_scraper` goes, through an exception, another career, a status without a
session or a session that already fits, it cannot return with another career.

The other two are about batches of any length. The indices go to Rust in
increasing order without those outside the list, and come back as the courses
that succeeded, without their indices: the scraper counts again which these must
be. That the k-th course is the one of the k-th index that did not fail is a
statement about three orders (of the request, of the successes in it, of the
indices that did not fail), and the same order in all three is what
`SequenceLemmas` is for. An index given twice, of which one scrape failed, makes
the counts differ; the scraper raises then, and `split` in `ResultKept` is
exactly that case.

`RetryLoopProofs` proves, for every limit, delay, policy and set of errors:

| theorem | statement |
|---|---|
| `GivesUpOnlyWithReason` | `Spec => []GivesUpWithReason` |
| `WaitsOnlyBetween` | `Spec => []WaitsBetweenAttempts` |
| `CourseBackoff` | `Spec => []CourseBackoffExact` |
| `RequestBackoff` | `Spec => []RequestBackoffUntilShiftedOut` |

The invariant is `LoopInv == TypeOK /\ Accounts`, where `Accounts` ties the
counter, which starts at 0 in one loop and at 1 in the other, to the attempts
made and the waits taken in each stage. The first two theorems need no more. The
third assumes that the cap of the delay is at most `2 ^ ShiftCap` (60 000 against
2^31), so that whenever the shift is clamped the cap has been reached.

The fourth says of a loop with any number of attempts, hence of products that do wrap,
which of its waits are still right. It assumes a word of any number of bits, and
`CapSquaredFits`: the initial delay is between 1 and the cap, and the square of the cap
fits the word (6000 ms squared against 2^64). The argument is `DelayExactOrGone`.
While the product fits there is nothing to show. When it does not, then the power of two
alone is above the cap, since the initial delay is not; and what the word
keeps of a multiple of a power of two is a multiple of it: nothing, which is
`ShiftedOut`, or at least that power, which the cap then cuts as it would
have cut the whole product (`PowerOfSum`, `Quotient`, `Remainder`,
`MultipleHasNoRemainder`).

The provers know of `^` only that it is a number, so that both assume `PowersOfTwo`
(`2 ^ 0 = 1`, `2 ^ (n + 1) = 2 * 2 ^ n`); the lemmas about powers go by the least
counterexample.

`SequentialBatchProofs` proves, for every list of indices, list lengths, errors
and retry limits:

| theorem | statement |
|---|---|
| `EmptyListIsFinal` | `Spec => EmptyListPoisonsTheRest` |
| `ImplementsContract` | `Spec => KeepsContract`: the initial states map to initial states and every step settles one open position, answers, or stutters |

The invariant is `BatchInv == Control /\ Records`: the position and the counter in
each stage, and the two result lists, which hold the positions before the current
one, each once and in order. From it `VerdictsFollow` computes the mapped
verdicts of a state, `GiveSettles` shows that a course that ends is one
`Settle`, and `ListsComplete` that the final lists are what `Answer` describes.

`DataPathProofs` proves, for pages of any length, any stored dictionary and damage:

| theorem | statement |
|---|---|
| `AcceptedIsComplete` | `Spec => []NothingLost` |
| `FailedLoadKeeps` | `Spec => []FailedLoadKeepsLists` |
| `AcceptsReadable` | `Spec => []AcceptedIffExaminedReadable` |
| `NamesBadGroups` | `Spec => []EveryBadGroupNamed` |
| `LoadsWhatWasStored` | `Spec => []LoadedIsStored` |
| `WarnsOfOlderForms` | `Spec => []OlderFormsWarn` |
| `PositionsAreRows` | `Spec => []PositionIsRow` |

`ParserInv` says what was read so far: as long as nothing was refused, the groups
before the current one, each in its place, or the conditions that are not passed
over, whose places are counted by `Blocks`. `HeldInv` says of an object what it
held before; a list is the last field `__setstate__` assigns.

`JudgedInv` adds what was refused so far: `BadGroups` of the groups before the
current one, each with one error. That the parser's search for a label and the
definition of a group with a teacher agree is `GroupRefused`: a row whose labels
are taken out is empty exactly when nothing in it names anyone (`LabelsRemoved`,
`RowNamesTeacher`), and the first row with a value is found when there is one
(`TeacherFound`). The proof found `NamesTeacher` wrong as it was first
written: the last of several spans is a teacher whatever it says, so that a row
of two spans that both read "teacher" is accepted. The row is now among the
pages of the run.

`LoadInv` is about what is loaded: a page that was accepted gave a model of its
kind (`Shaped`: its fields, its list, the fields of each part of the list), and
what is stored is that model's dictionary in one of the forms, with one place
damaged or none. Reading back goes level by level: `ScheduleRead` to
`CoursePrereqsRead` say what a `__setstate__` that succeeds has read,
`ScheduleBack` to `CoursePrereqsBack` that it is what was there, and `DamageSeen`
that a damaged dictionary is never read in full. A session has one lemma per
shape of an entry (`ShapeRead`, `ShapeHurt`) and `ReadableSession` for the token,
the one field it may do without. `PositionIsRow` follows from the invariant: when
the first i rows are all listable, they are the first i of the listable ones
(`EntryAtRow`, from `IncreasingBegins`).

The assumptions say what the selectors return (`InputsAssumption`: rows, spans,
texts, groups, conditions are sequences) and which forms and damages there are
(`StoreAssumption`). TLC evaluates both on the instance.

`SiaSessionProofs` proves, for every number of callers and clones, every career,
fault and interleaving:

| theorem | statement |
|---|---|
| `CareerPageReady` | `Spec => []ReadyOnCareerPage` |
| `SelectionsAreRequested` | `Spec => []SelectionRequested` |
| `TokensStay` | `Spec => TokenNeverLost` |

    SessionInv == Shapes /\ StatesOK /\ (\A c : CallerOK(c)) /\ RootFirst

- `StatesOK` is the first two theorems for each state on its own;
- `CallerOK` makes them inductive: a caller's copy never has a token or a window
  id that the shared state lacks, however long ago it was taken, and a POST is
  under way only with both, so that an answer meets a state that can be marked
  as on the career page;
- `RootFirst` covers the clone of a batch that is made anew over an older one: a
  clone has a token only because the session had one.

A step that works in a session changes that session's state only and lets it
grow: `Frame` shows once that every other caller keeps what it relies on, and
each action is an instance of it. The three theorems follow from `Kept`, which
each step has.

For every career, list, policy and number of calls it also proves:

| theorem | statement |
|---|---|
| `FreshTokens` | `Alone /\ AnswersRead` implies `Spec => []FreshRequests` |
| `ScrapesRightCourse` | `Alone /\ AnswersRead` implies `Spec => []ScrapedRightCourse` |
| `CareersAgree` | `Alone /\ AnswersRead` implies `Spec => []CareerCoherent` |

`Alone` is one caller without a clone, as the guard of the Python wrapper makes
it; `AnswersRead` leaves out lost answers, incomplete first pages and
cancellation, with each of which the statement is false. `TokenInv` relates three
copies of the token: the server's, the state's and the operation's own. Between
two operations a session is `Settled`; within one, the state is up to date except
while an answer is on its way, and the copy is up to date wherever it is read
next. The last part is what is hard: the copy is not renewed by `SELECT_ROW`,
which is harmless because the two requests that follow read the state instead.
`ActionsGoOn` proves that from the order of the requests, for both kinds of a
career and every operation.

The other two theorems follow the server's page through an operation that began
on the search page, by a second invariant on top of the first:

    CourseInv == \A c \in Callers : Navigated(c)   (and two domains)

- `OnSearchPage`: the search page is shown until the course is opened. With the
  token of `TokenInv`, every request up to that one is one the server acts on;
- `InOrder`: before the k-th action of the selection the server has applied k - 1
  filters of this career and kind, after a good answer k, hence the list that comes
  after the last is this career's. The name is read from the answer to `FACULTY_DD`,
  which is that of this career because the request was the next in order, and carried
  in the copy from the third action on;
- `AtCourse`: from then on the session holds code, kind, name and list of the
  career, and the list the server shows is the session's, until the link opens the
  course of the row in it;
- `Delivered`: what the two properties say of a result that was returned.

The invariant needs no separate case for an error page: a step of the selection
fails on it, `SELECT_ROW` and `BACK_BTTN` ignore it, and a lost request leaves the
server where the retry finds it again. It is a part of the argument that the list
may be another one than the index was checked against: `Wanted` is the course of the
row, or none.

### Lemmas for sequences

`SequenceLemmas` says what `Ordering` returns, for every set and sequence: a rank
is between 1 and the number of elements, grows with the order, and every place
is reached (`RankGrows`, `RankBounded`, `RankReached`, the last by counting), so
that `ByKeyOrders`, `IncreasingOrders` and `PickIncreasing` can say that sorting
and filtering keep all that belongs there, once, in order. The provers cannot use
the library's induction theorems, which take an operator as their parameter;
`LeastNatural`, that a set of naturals that is not empty has a least element,
takes none, and every induction in these modules is an argument about the least
counterexample.

### Model-checked only

Liveness, which is `Terminates` in five runs, and `ENABLED` are out of the prover's
reach. Every other property of the passing runs is proved. What the numbers of a
course are (`FoldLeft` over its digits and its groups) is computed by recursion and
left to TLC: the theorems take `Number` and `AvailableSpots` as they are.

## 5. Not modelled

- Wording, logging, exception texts; the HTML itself. What the selectors find on a
  page is the page: rows, spans, panels and labelled words (`CourseParser`); in
  `SiaSession`, where only the outcome matters, a choice of the server.
- The event and component ids the request builder writes: constants.
- `SessionState.update_state`, which only tests call, and cookie contents.
- Pickling of `PySiaSession` (only its timeout), and the mapping of errors to
  Python exceptions: a call raises or returns.
- `testing/`, fuzz targets, benches, scripts, stubs: not the program. The older
  Python parsers and models keep no state.
- Memory ordering of the abort flag: the futures of a batch share one task, so
  the orderings written in the code (Relaxed or stronger) make no difference.

Read and noted, without a run of their own:

- `do_init_session` turns a timeout into `NetworkError`; `py_session.rs:97`
  documents `SiaTimeoutError`, and `retry_on_timeout` does not govern it.
- The wait after attempt 60 and each one after it collapses to the floor in a release
  build; a debug build panics from attempt 56 on (`retry.rs:71`, in `RetryLoop`).
- The workers of a parallel batch share the server's page; no property says which
  page a worker with a stale token reads.
- A POST answered with an error status is raised outside `post_request`'s loop,
  so `retry_on_status` does not apply to it.
- `do_init_session` also accepts a page without ViewState and reports success,
  where `py_session.rs:99` documents "SessionError: If ViewState not found"; the
  missing token shows at the first POST, as `InvalidInput` (in `SiaSession`).
- `PySiaSession.__aenter__` tests and initialises in two steps; two entries
  make two sessions, of which the later stays (in `PySession`).
- `is_initialized` reports false while a writer waits, so that `close` skips its
  reset (in `PySession`).
- `init_sia_scraper`, given the older dict or a model of the right career, returns a scraper
  without a Rust session, though `scraper.py:583` says that it restores one: both
  only fill Python's copy, whose status it then trusts. `state_dict`, the third form,
  raises in a running loop (`run_until_complete`), where it always is (in `Scraper`).
- `README.md:149` calls `get_session_data()` without `await`; what is saved is a
  coroutine.
- `_apply_course_codes` "does not intentionally raise exceptions"
  (`scraper.py:338`), but raises when an index was given twice and one of the two
  scrapes failed; `ResultKept` excepts this case.
- `get_course_list` leaves out rows with a blank code, after which a position in
  the list is not the row of the table: `PositionIsRow` holds up to the first such
  row, and the tables of `Scraper` have none.
- The status `ON_COURSE_PAGE`, which `constants/status.py:19` describes, is
  tested but never set.
- The index of a scrape is checked against the previous navigation's list and
  used on the new one; `py_session.rs:190` documents an error for an index out
  of range.
- A failed `BACK_BTTN` is ignored when its status is an error, leaving the server
  on the course page; when it is a transport error the page already fetched is
  lost. `ScrapedRightCourse` and `CareerCoherent` are therefore stated for
  operations that begin on the search page.

- A label in capitals stays in the value read after it, and the digits of a spots
  row are joined: "12 de 30" is 1230 (in `CourseParser`).
- The fail-fast build of the parser still collects the errors of groups; an empty
  title is refused for a course by the other build only (`course_parser.rs:509`),
  and for prerequisites by neither.
- `__setstate__` of the course models stops half way at a bad field, keeping what it
  had assigned; the session's assigns nothing (both in `Models`).
- With Python's warnings raised as errors, stored data in an older form is refused;
  the JSON form names the token in the older way (`models/session.rs:324`).
- `from_state` ignores the timeout that was saved with the state (`py_session.rs:606`).
- `get_course_xml` of `lib.rs` sends the index it is given, in the list or not
  (`lib.rs:604`); `ScrapedRightCourse` says what comes back.
- `async_get_with_config` returns an error page as its result where `async_get` raises
  (in `RetryLoop`, `RaisesStatus`).
- `second_index + 40` of `adf_request.rs:147` is an `i32` sum of a number from the code.
- The body of the way back names "cb44" where its event names "cb4"
  (`sia_session.rs:543` and 535).

## 6. Plan

Done, in this order: `Retry`, `RetryLoop`; `BatchContract` with both
implementations; `AdfServer`, `SiaSession`; proofs of `ConcurrentBatch`;
`SessionModel`, `PySession` and its proofs; `Scraper`; the parsers, `Models` and
`DataPath` that joins them; the one-shot functions and plain requests of `lib.rs`;
proofs of `RetryLoop`, `SequentialBatch` with its refinement, `DataPath` and
`SiaSession`, the current token, the status of the wrapper, and `Scraper`; proofs
that a session alone fetches the course it was asked for, of the career it keeps;
`Ordering` and its lemmas, with the refinement by `ConcurrentBatch`, the batches of
`Scraper`, the parsers' judgement, and the way through the store.

Left:

- An abstract session (a career, its list, open or not) that `SiaSession`
  implements between two operations, so that what `PySession` and `Scraper`
  assume of it is itself checked.
