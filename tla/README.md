# lawyerclaude, modelled in TLA+

lawyerclaude is practice-management software for law firms: a FastAPI backend,
two worker processes, a PostgreSQL schema (Supabase) with triggers and
row-level security, and a Next.js frontend of some fifty pages. It is
multi-tenant: every request and every row belongs to a firm. This directory
holds TLA+ modules of its backend and of its frontend, configurations that
check them with TLC, and proofs for TLAPS.
`PROJECT.json` lists components, runs, mutants, the source lines behind every
definition, findings, hazards and theorems; this file says how they fit
together.

Paths below are relative to the repository. `dms.py` is
`backend/app/api/dms.py`, `0022` is `supabase/migrations/0022_add_dms.sql`,
`contacts/page.tsx` is `frontend/app/contacts/page.tsx`, and so on.

## 1. The system

### How it executes

These facts decide what a step of a model is.

* **A statement is a transaction.** asyncpg runs in autocommit; a handler with
  three statements commits three times and can stop, or be overtaken, between
  any two of them. Only the check-in of a document opens a transaction
  (`conn.transaction()`), and PostgreSQL runs it READ COMMITTED, so that each
  of its statements sees what others have committed meanwhile.
* **Requests are concurrent.** A handler runs in one event loop and gives way at
  each `await`; there may also be several API processes. What a handler has
  read before an `await` may be stale after it.
* **Identity is read once.** `get_current_user` loads the caller's row and
  refuses inactive users; `_set_audit_gucs` (`core/db.py:57`) stamps id, role and
  firm on the connection. Policies evaluate case assignments anew in every
  statement, the role from the stamp.
* **Row-level security filters.** An UPDATE that no row may see changes nothing and
  raises nothing; an INSERT that a policy refuses raises. Workers, sign-up,
  webhook and portal use a connection that bypasses the policies.
* **Outside services** (GoTrue, object storage, OCR, embedding and language models,
  WAHA for WhatsApp, Paymob) succeed, fail, or succeed with the answer lost.
* **A page has many calls in flight.** Every call is an `await fetch` in an event
  handler or an effect of its own (`lib/api.ts`). Answers come in any order, may
  say no, or may be lost after the server has acted; no call is cancelled or
  repeated by itself. A handler goes on with the variables of the render it was
  created in. Between question and answer the user types, clicks, chooses
  something else and leaves, as far as no button is disabled.
* **Processes die.** The queue of the ingestion pipeline is the column
  `documents.status`; the scheduler is an APScheduler with one job at a time.

### Components

| Component | State it keeps | Operations | What is hard about it | What makes it correct |
|---|---|---|---|---|
| Check-out and versions (`dms.py`, 0022, `checkout_release.py`) | locks, version chain, `documents.file_path`, stored objects | check out, release, check in, daily release | several statements around an upload; policies inside a transaction; locks that change hands | linear chains, no lost version, the document points at the latest one, edits build on what was checked out, locks end |
| Ingestion (`documents.py`, `pipeline_worker.py`, `pipeline/run.py`) | status, chunks | upload, claim, extract, chunk, embed, finish | several workers, a compare-and-swap, death between INSERTs | one worker per document, ready means complete, the end is reached |
| Chunking (`chunk.py`) | none | text to chunks | overlaps, boundaries, running counts | nothing lost, bounds on chunks and overlaps, positions |
| AI outputs (`ai_outputs.py`, `ai_doc.py`, `assistant.py`, 0008) | outputs, review state | generate, approve, export | long calls between read and write | only approved outputs leave, approvers are entitled, flags are inherited |
| Subscription (`signup.py`, `paymob.py`, `expire_trials`) | firm and subscription status, inbox of events | initiate, webhook, expire | repeated deliveries, death after the inbox | active means paid, processed once, who paid is activated |
| Deadlines, tasks, reminders (`deadlines.py`, `tasks.py`, `reminders.py`) | items, log of notifications | create, confirm, move, acknowledge, daily pass | a pass works on what it read; retries; `--once` next to the worker | each due reminder once, each attempt logged, suggestions inert |
| Hearings (`hearings.py`, `hearing_reminders.py`) | hearings, flag per lead | create, move, daily pass | flag and log after the send | no reminder left out or repeated |
| Appointments (`appointments.py`, 0023) | appointments | book, move, cancel | check, then insert; policies hide rows | no double booking |
| Invoices (`billing.py`, 0015) | invoices, lines, payments | create, change, send, cancel, pay | payments that interleave; totals in columns | paid means covered, final states final, totals agree |
| Users (`users.py`) | profiles, GoTrue accounts | create, change, delete | two stores, best-effort calls | each profile has an account, none is stranded, a manager remains |
| Folders (`dms.py`, 0022) | a tree per case | create, rename, move, delete | moves, cascades | a forest within each case |
| Sharing (`dms.py`, 0022, `portal.py`) | confidentiality, shares | share, unshare, mark | two triggers reading one another's table | confidential documents are not shared |
| Sign-up (`signup.py:61`) | firm, account, profile, settings, subscription | sign up | five writes, no transaction | a firm is complete or not there |
| Lists of the browser (30 pages) | what is chosen, what is shown, loads and changes in flight | choose, load, refresh, change a row | answers that overtake one another, changes under a load | a page that waits for nothing shows what was chosen, as it is |
| Forms of the browser (18) | fields, what is sent, the row they came from | load, open, type, send, cancel, leave, remove | typing while it is sent, buttons that work too early, remains of an edit | sent once, and what is sent is what is shown |
| Deadlines, tasks, users, documents pages | a case or table, its rows, calls, polls | choose, create, change, upload, poll | a second choice while the first is loaded; polls that overlap | rows of the chosen case, a responsible person of its team, statuses that arrive |
| Settings (`settings.py`, settings/page.tsx) | the firm's settings; a form of them | load, type, save, test | secrets the browser must not see but must not lose | a secret changes only when somebody typed one |
| AI tools (ai-tools, contract-review, assistant, `ConflictCheckPanel`) | a choice, a question, its outcome, a conversation | choose, ask | long calls, choices that change meanwhile | outcomes stand under what they were asked for |
| Case page (cases/[id]) | a copy of the case, its team, calls | edit, save, assign, delete | loads and saves that replace the copy | the page shows the case as it is |
| Check-out panel (`DmsControls`) | lock, versions, picked file, confidentiality | check out, check in, release, share | its own calls and everybody else's | the panel agrees with the server, and sends the file it shows |
| Session (`rbac.tsx`, `AppNav`, login) | a token per browser, a user per tab | sign in, sign out, ask who one is | tabs share the token and not the user | calls carry the token of the user on the page |
| Portal (`portal.py`, portal/*) | links, sessions, a token in the page's storage | ask for a link, redeem it, read, log out | lost answers, reloads, links that are read and then marked | a link opens one session |
| Cases, contacts, correspondence, templates, time entries | rows | create, change, delete | on the server little: independent rows | |
| Tenancy, policies, audit (0005-0013) | policies, an append-only log | none of their own | policies per statement | isolation; each write has its row in the log |
| Calendar, dashboard, analytics, reports | none | reads | | |
| Authentication (`security.py`, `auth.py`) | tokens at GoTrue | sign in | | inactive users are refused |
| Infrastructure | containers | | | |

Components interact through the database. The daily pass reminds of deadlines,
then of tasks, then of hearings, and then releases stale check-outs, all in one
`try` block. Ingestion produces the chunks that AI outputs are generated from,
and `documents.status` is what both look at. Users are referred to by locks,
items, appointments and assignments, and deactivation is meant to reach all of
them. Payments of the firm (Subscription) and of its clients (Invoices) are unrelated.
Pages interact with the backend alone, never with one another, except that the tabs
of a browser share one session. What a page is told may be out of date when it
comes, and the server does not check again what the page has offered (the team a
responsible person is picked from, the documents of a case).

### Hazards

`PROJECT.json` lists them, each at its line with the properties that watch it
or a note why there is none.
They are of five kinds: decisions on rows read before an `await` (locks,
invoices, roles, appointments, approvals); several writes of which the last
ones may not happen (check-in, ingestion, webhook, invoice with its lines,
GoTrue and profile, message and log); passes over snapshots (reminders, expiry,
hearings); pages that take an answer for the one they wait for, or go on with
what they held when the question was asked; and constraints that do not say what the code relies on (UNIQUE with
NULLs, SET NULL under a CHECK, two triggers under READ COMMITTED).

## 2. The modules

Each component has a module of its own, with one action per statement, handler
or step. A request or a process is a record whose `step` says what it does next;
`Idle` is a process without work. Actions named `Begin...` do what a handler
does up to its first write; later steps act on what was read then. An operator
whose comment begins with *Mutant* is a plausible mistake in the operator that
follows it; it takes no part in any specification and serves to show that a
property can fail.

| Module | Stands for | State | Actions |
|---|---|---|---|
| `VersionHistory` | what a document store promises | a history of files per document and the current one | append, or point further |
| `DocumentCheckout` | dms.py 255-427, checkout_release.py, part of users.py and assignments.py | `holder`, `age` (locks), `versions`, `filePath`, `stored`, `assigned`, `active`, `request` | begin/finish of check-out, release, check-in (`ReadLatest`, `Upload`, `InsertVersion`, `PointDocument`, `CommitCheckIn`), `ReleaseStale`, `Unassign`, `SetStatus`, `Tick` |
| `DocumentLifecycle` | documents_lifecycle.py | status per document | the table of transitions |
| `DocumentPipeline` | documents.py upload, pipeline_worker.py, run.py | `upload`, `objects`, `status`, `chunks`, `worker`; auxiliary `extracted` | upload, poll, claim, extract, clear, insert, finish, fail, crash |
| `TextSplitting`, `TextChunking` | chunk.py | paragraphs, pieces, the chunk being filled, `chunks` | the turns of the loop of `chunk_document` |
| `ReviewGate` | ai_outputs.py, ai_doc.py, assistant.py | `outputs`, `generation`, `approval`, `export`, `assigned`, `sourceStatus`; history `released` | generate, save, approve, export, assignments that end, documents that finish |
| `Subscription` | signup.py 127-217, expire_trials | `firm`, `subscription`, `order`, `inbox`, `handler`; histories `cut`, `processed` | initiate, deliver, the webhook's statements, expiry |
| `Reminders` | reminders.py, deadlines.py, tasks.py | `today`, `due`, `responsible`, `live`, `acknowledged`, `activePeople`, `log`, `pass`; histories `attempts`, `tried`, `overlapped`; auxiliary `deaths` | the requests, and the pass: read, take a job, send, log, next part, die |
| `HearingReminders` | hearing_reminders.py, hearings.py, scheduler_worker.py | `hearingDay`, `date`, `scheduled`, `flags`, `hearingLog`, `hearingPass`; histories `sent`, `unsure`, `putOff` | the requests, and the pass: next lead, read, take, send, flag, log, release |
| `Appointments` | appointments.py, 0023 | `appointment`, `active`, `booking`; history `raced` | book, move, reopen, hand over, cancel, delete, in check and write |
| `Invoices` | billing.py 205-590, 0015 | `invoice`, `lines`, `paid`, `request`; history `disturbed` | create, change, send, cancel, pay |
| `FirmUsers` | users.py | `user`, `account`, `referenced`, `request`; histories `unfinished`, `overlapped` | create, update, delete, each with its call to GoTrue |
| `FolderTree` | dms.py 131-215 | `folder`, `filing`; history `looped` | create, update, delete with its cascade |
| `DocumentSharing` | dms.py 433-520, triggers of 0022 | `confidential`, `shares`, `inactive`, `sharing`; history `crossed` | share, mark, unshare, each guarded write in statement and commit |
| `Browser` | lib/api.ts | none | what calls of pages have in common |
| `Screens` | thirty pages that list | `key`, `shown`, `asked` (loads), `changing`, `busyRow`, `server`; histories `missed`, `disturbed` | choose, ask again, read, deliver, begin, execute, finish |
| `Forms` | eighteen forms | `row`, `field`, `open`, `load`, `call`, `conflict`, `place`, `stored` | load, open, type, send, store, hear, cancel, leave, remove; other users |
| `CaseRows` | deadlines/page.tsx, tasks/page.tsx | `chosen`, `detail`, `person`, `loads`, `changes`, `rows`; histories `unheard`, `overtaken`, `hasty` | choose a case, pick a person, create, click, answer, hear, arrive |
| `UsersScreen` | users/page.tsx | `users`, `dialog`, `editingRole`, `target`, `underWay`, `requests`, `accounts`; histories `missed`, `mixed` | load, open, save, confirm, create, answer, hear |
| `DocumentsScreen` | documents/page.tsx | `chosen`, `docs`, `question`, `uploading`, `polls`, `status` | choose, upload, tick, tell, take |
| `SettingsScreen` | settings/page.tsx, settings.py | `keys`, `rest`, `typed`, `body`, `reply`, `secrets` | load, type, save, update, hear, test; another manager |
| `Tools` | ai-tools, contract-review, documents/[id], `ConflictCheckPanel`, assistant | `subject`, `input`, `offered`, `lists`, `question`, `outcome`, `talk` | choose, ask, answer, show |
| `CaseScreen` | cases/[id]/page.tsx with update and team of cases.py | `detail`, `form`, `people`, `busy`, `loads`, `calls`, `case` | load, edit, save, team, delete, serve, hear |
| `DmsPanel` | DmsControls.tsx, documents/[id] | `lock`, `versions`, `secret`, `file`, `field`, `call`, `asked`; `holder`, `chain`; histories `trouble`, `unheard`, `leftover` | run an act, pick a file, serve, hear, read, take |
| `Pages` | the four modules above whose pages keep a table or a copy: users, documents, a case, a document's panel | theirs | each page as its own specification says, whatever comes between |
| `Session` | rbac.tsx, supabase.ts, AppNav.tsx, login | `session`, `shownUser`, `location`, `questions`, `signing`; auxiliary `overtaken` | sign in and out, ask and hear who one is, go, load anew |
| `PortalScreens` | portal.py, portal/login, layout, dashboard | `links`, `opened`, `access`, `portalCalls`, `loginStep`, `section`, `token` | request, verify, each statement of both, show, log out, reload |

The pages that list and the forms are alike and differ in a few ways that matter:
whether a choice is locked while it is loaded, whether the button works again at
once, what cancelling keeps. `Screens` and `Forms` are each one machine, and a page is
a record that says how it does these things; every record is translated from its
page. A page's call that changes something is three steps: sent, acted on by the server (done, refused,
or done with its answer lost), and heard of. A page cannot tell a lost answer from a refusal
(`lib/api.ts` throws in both cases), so a lost answer is heard as `Refused`; a lost answer to a load is a failed load.

Abstractions that hold everywhere: texts, names and files are model values or
small numbers; ids are never given twice; one firm, except where firms meet
(Subscription, the timeouts of DocumentCheckout); guards that refuse a request
without a write are disabled actions unless a later step depends on them.
Variables whose comment says *auxiliary* or *history* remember what happened; no guard of
the code's reads them (`changes` and `edits` bound how many requests are made). The histories
are what the conditions of the properties are about: not *a scene in which nothing
crosses*, but the very row that two requests crossed on, in a state space where they do.

| History | Says that |
|---|---|
| `disturbed` (Invoices) | two requests were at work on this invoice at once, or one died on it |
| `raced` (Appointments) | a request wrote while another had read the same row or looked for the same lawyer |
| `looped` (FolderTree) | a folder was moved below itself |
| `crossed` (DocumentSharing) | a share and a mark of one document both passed their triggers before either committed |
| `cut`, `processed` (Subscription) | a webhook request for this transaction died; how many requests found their firm by it and went on to activate it |
| `extracted` (DocumentPipeline) | how many chunks the text of this document was cut into |
| `unfinished`, `overlapped` (FirmUsers) | the creation or deletion of this user was broken off; two requests of managers overlapped |
| `tried`, `overlapped` (Reminders) | the jobs this pass has taken up and not skipped as handled; two passes ran at once (`deaths` counts deaths and is for a bound) |
| `unsure`, `putOff` (HearingReminders) | the answer to this message was lost, or the worker died before its flag; this hearing was put off |
| `overtaken` (Session) | the session was changed under this tab |
| `missed` (Screens, UsersScreen), `unheard` (CaseRows, DmsPanel) | these rows, or this document, changed without an answer for the page since it asked last |
| `disturbed` (Screens) | answers to loads overtook one another, or a load and a change overlapped, and the page has not asked since with nothing in flight |
| `overtaken`, `hasty` (CaseRows) | a load was answered before an older one, or asked by the handler of another case's page; these rows' people (None: the form's) were picked while the team of another case was offered |
| `mixed` (UsersScreen), `crossed` (CaseScreen) | a user was created under a load, or two answers about one user crossed; a load came during a save, two loads or saves crossed, or an answer was lost |
| `switched`, `outrun` (Tools), `strays` (DocumentsScreen) | the choice was changed under a question; lists came out of order; these documents were added to another case's list |
| `own`, `abandoned` (Forms); `trouble`, `leftover` (DmsPanel) | what a form was given, what was given up; a question was answered late or not at all, a picked file outlived its field |

A property that excepts such a history names a limit of the code; each is
described in section 3.

### Code that always fails

Four operations fail whenever they run, and everything behind them would be
out of reach. Each has a switch: FALSE is the code as it is, TRUE
the code with the missing value passed. Those of the two reminder passes are variables
that never change, so that one specification, and one theorem, is about both. The passing runs check what holds
after the repair; the code as it is has a scene in them, or a run of its own.

| Switch | Where | Effect of the code as it is |
|---|---|---|
| `RowInScope` (DocumentPipeline) | `_store_chunks`, run.py | `NameError`: a document whose text was extracted becomes failed |
| `CreatorInScope` (ReviewGate) | `_create_ai_output`, ai_outputs.py | `NameError`: no output is created for a document or a case |
| `firmInLog` (Reminders), `firmInRow` (HearingReminders) | the INSERT into notifications_log | `firm_id` is NOT NULL: the message goes out, the row is refused, the pass ends |
| `Understood` (PortalScreens) | the login page sends `contact`, portal.py reads `phone` and `email` | no link is ever sent |

### Instances

An `MC...` module gives one component small constants. Five more compose
components that share a subject. `MCPractice`, `MCFirm`, `MCFrontend` and `MCPages`
extend the components themselves, so that what TLC checks there is the very
formula that section 4 proves. Where components share no state a variable `scene`,
chosen at the start, says which of them moves (and with which switches), so
that the state spaces add up and do not multiply. A property of one scene is
guarded by it.

| Module | Scenes |
|---|---|
| `MCDocumentCheckout` | one: check-out is its own composition of requests, daily job and other users |
| `MCLiveness` | ingestion, check-out, payment, and the documents page, each under its own fairness |
| `MCFirm` | payment, with handlers that may die; users, with two requests, calls that fail and death; ingestion and review, each as repaired and as it is; chunking |
| `MCPractice` | invoices; appointments (one request at a time) and bookings (two at a time, rows of one lawyer of one hour); folders; sharing; items (a suggestion and a task, two processes that take turns) and deadlines (two passes up to the moment they overlap); hearings that stay on their days, and one that is put off |
| `MCFrontend` | forms, settings, lists, deadlines, tasks, tools; the page or form is chosen at the start too. Deadlines and tasks are two instances of one module over the same variables |
| `MCPages` | users, documents, the case page of a lawyer and of a manager, the panel; a session of two tabs; the portal with its field understood |

## 3. What the runs check

Every property of a passing run has a mutant under which it fails in the same
run.

| Run | Instance | Properties |
|---|---|---|
| `checkout` | a document, a manager and a lawyer, 2 requests in flight, 2 uploads, crashes, failing uploads, assignments that end | `ChainLinear`, `VersionsKept`; `CurrentWhileAssigned`: the document points at the end of its chain while assignments stand; `ImplementsHistory`, the refinement of `VersionHistory`. Deadlock is checked: a request never waits for one that waits |
| `liveness` | 2 workers and 2 documents; 2 requests of 2 users on one document; 2 transactions of one order and 2 handlers; the page with 2 documents | `ProcessingEnds`, `LocksAndRequestsEnd`, `PaidIsActivated`; `StatusesArrive`: a row that shows a document in processing comes to show its final status |
| `firm` | 2 firms, 2 orders, a good and a bad transaction, 2 handlers; a founder, 2 further ids, 2 addresses, 2 requests; ingestion by 2 workers that may die of 2 documents with up to 2 chunks; a manager, a lawyer and a paralegal, 2 documents, one output; texts of up to 4 paragraphs of 5 shapes on 2 pages, target 5, overlap 2 (1,322,853 states) | `ActiveIsPaid`; `ProcessedOnce`: however often a transaction is delivered, at once or one after the other, one request at most goes through with it; `SubscribedIsServed` (but for firms whose payment was `cut`); `AccountsMatchProfiles` (no stranded account but of users left `unfinished`), `ManagerRemains` (until requests have `overlapped`); `ReadyIsComplete`: what is ready has every chunk its text was cut into; `KeepsLifecycle` (the refinement of `DocumentLifecycle` by code that never calls it); `ChunksKeepText` (nothing is lost, and chunks and overlaps keep their bounds); `ReleasedIsApproved`, `ApproverEntitled`, and of outputs of one document `FlagInherited` |
| `practice` | an invoice of up to 2 lines, payments of 40 and 100, 2 requests; 2 lawyers, 2 appointments, 3 hours, 2 requests; 3 folders, 2 cases, 2 names, 2 requests; 2 documents, 2 contacts, 2 requests; a suggestion and a task over 2 days, or a suggestion over 3, 2 processes; 2 hearings over 3 days (1,255,416 states) | `PaidIsCovered`; `StatusFollows` (invoices that were not `disturbed`: the status is what payments come to, final states stay final); `NoOtherDoubleBooking` (managers, until a request has `raced` another); `Forest` (until a folder was `looped`); `NeverSharedWhileConfidential` (until a share and a mark have `crossed`); `LogKeepsUp`: behind a pass that goes on every attempt has its row, so that an attempt whose row is refused is the last of its pass; `InertUntilConfirmed`, `HandledOnce` (until passes have `overlapped`); `RemindedOnce`: of each lead no hearing on its day is left out, none is reminded twice unless the worker was `unsure` |
| `frontend` | two keys or cases and two people of each page, one row of a case and two of a list, up to two loads and two changes in flight, a form sent twice, settings saved three times (3,488,684 states) | `QuietPageIsCurrent`: a list that waits for nothing shows the rows of its key as they are, but for rows it has `missed`, unless it was `disturbed`; `SettledPageIsChosenCase`: the same of the deadlines and tasks of the chosen case, but for rows that are `unheard`, unless `overtaken`; `ResponsibleOnTeam` (rows that were not given away in haste); `ShowsWhatWasAsked`: verdicts, drafts and answers stand where they belong; `CreatedOnce` (forms that stay blocked); `UntouchedSecretsStay` (a page that was loaded, one manager); `SendsOwnContent`; `ReviewsOwnCase`: a contract is reviewed under its own case (lists that were not `outrun`) |
| `pages` | 2 users, one yet to be created, 2 documents of 2 cases with 2 polls, a case of 2 contents with 2 loads and 2 calls, a panel with one file, 2 versions and 2 questions in flight; 2 tabs, 2 accounts; 2 links and 2 calls of one client (2,981,326 states) | `SettledPagesAreCurrent`: a page that waits for nothing shows what the server holds (unless `mixed`, `crossed`, or `trouble` of the panel, and but for users `missed` and a document `unheard`), the documents are those of the chosen case (but `strays`), and none is shown further than it is; `ChecksInShownFile`: what is checked in is the file of the field, unless `leftover`; `ShownToItsUser` (tabs that were not `overtaken`); `OneSessionPerLink` |

No run checks types: the types of every component but chunking are theorems
(section 4). The inductive invariants there can be checked as well: TLC evaluates them in a module that
extends the run's module and that of the proofs. The conditions in
parentheses are where the code stops keeping the promise; what happens beyond
them is below.

### Disagreements that a run shows

| Run | What the code does |
|---|---|
| `checkout_conflict` | two check-ins of one user pass the holder check; the second supersedes a version its author has not seen (dms.py:336) |
| `pipeline_unready` | `_store_chunks` names a variable of its caller: a document that was extracted and embedded becomes failed (run.py:242) |
| `subscription_lost` | a request that dies after its row in the inbox loses the payment: every redelivery is a duplicate (signup.py:175) |
| `appointments_race` | check and INSERT are separate, and the exclusion constraint the comment relies on does not exist (appointments.py:181) |
| `settings_secrets` | a settings page whose load failed shows its form with empty secrets, and saving clears the stored ones (settings/page.tsx:78) |
| `portal_login` | the login page sends `contact`, the server reads `phone` and `email` and refuses (portal.py:98) |

### Further disagreements met while modelling

The models do what the code does here too; no run is kept for these.

* Check-out. The last UPDATE of a check-in matches no row when the caller's
  assignment ends inside the transaction, and `file_path` stays behind the
  chain (dms.py:418). A release deletes by document what it has checked by
  holder (dms.py:320). The daily job applies one firm's timeout to the locks of all
  firms (checkout_release.py:23). Research R3 says deactivation releases locks at
  once; update_user does not touch them (users.py:186).
* Ingestion. A worker that dies after its claim leaves the document in
  processing, which nothing polls for (run.py:85).
* Chunking. The separator is chosen before a full group is flushed and added after, so
  that the running count of every group but the first is one too large and the group
  may be flushed early (chunk.py:166, 185); a word longer than a piece stays whole
  (186); a chunk seeded with an overlap may exceed the target (131); `char_start`
  counts overlaps twice and separators not at all (109); an overlap of 0 carries the whole chunk on (203); a
  chunk that begins with an overlap keeps the page of the first chunk (134).
* AI outputs. A generation over a case reads chunks of documents that are still
  being processed, or have failed, and misses their flag (retrieve.py:168); the
  assistant saves its drafts unflagged (assistant.py:305); a second approval that
  passed the check with the first overwrites the approver (ai_outputs.py:480);
  `_create_ai_output` names a variable of its callers (592, see the switches).
* Users. Two managers who deactivate one another at the same time leave the firm
  without a manager (users.py:171). Two changes of one user's status can leave an active user banned
  (users.py:200). A death between GoTrue's answer and the INSERT leaves an account
  whose address cannot be used again (138).
* Reminders. The log's INSERT has no `firm_id` (reminders.py:212, see the
  switches): a pass ends at its first attempt, which leaves no row, although 0002:194 says "One row per send
  ATTEMPT". `LogKeepsUp` holds of the code as it is because no attempt comes after that one. A deadline deleted during the pass makes its row fail and
  ends the pass (325), its attempt unlogged. The key of a handled reminder lacks the due date, so
  that a deadline that is moved gets no second reminder at the same lead (179).
  A failed reminder is not retried: its lead has passed the next day (102).
  An acknowledgement after the pass's query does not stop the escalation (467).
  `--once` next to the worker repeats a reminder (257). A deadline with a row in the
  log cannot be deleted (deadlines.py:250: SET NULL under a CHECK).
* Hearings. The same missing `firm_id` (hearing_reminders.py:110) also ends
  the pass before it releases stale check-outs (scheduler_worker.py:82). A hearing
  put off keeps its flags and gets no reminder for its new day (hearings.py:170).
* Appointments. A secretary's check runs under row-level security and does not see
  what others have booked for the lawyer (appointments.py:93).
* Invoices. Of two payments the one that summed first may write `partial` over `paid`
  (billing.py:583), and a payment that read the invoice earlier takes it out of
  `cancelled`; a payment takes a draft to `paid` unsent (557); a changed tax rate leaves
  tax and total as they were (486); an invoice may be without its lines (415).
* Folders. A folder can be moved below itself, or into another case (dms.py:180);
  root folders escape the UNIQUE constraint (0022:16); "delete empty folder" deletes a
  whole subtree (dms.py:213).
* Sharing. The two triggers do not exclude one another: share and mark at the same time
  both pass (0022:81). What is shared is not what the portal lists (portal.py:323).
* Assignments. `create_assignment` passes another number of arguments than its
  statements have placeholders (assignments.py:45-64): nobody is ever assigned to a case by
  the API, and the case page's button fails.
* Lists. Most pages take whatever answer comes, so that a search typed first
  and answered last stays on the screen (contacts/page.tsx:32, and likewise invoices,
  hearings, templates, appointments, audit, activity, calendar, analytics, AI review);
  the document page drops late answers, references and the financial page lock
  the choice. A change under a load may be shown undone. A change whose answer is lost is told as a failure, and the
  page shows the old row until it asks again (documents/templates/page.tsx:56, ai-review/page.tsx:119,
  cases/page.tsx:84). Contract review lists the documents
  of the case whose list came last (contract-review/page.tsx:46).
* Forms. The button of most forms that create works again while the browser is
  still leaving for the new row: a second click makes a second row
  (contacts/new/page.tsx:57; hearings/new and signup stay blocked). Forms that keep
  their fields when they are left open again with what was given up
  (templates/[id]/page.tsx:159). A lost answer reads as a refusal everywhere.
* Deadlines and tasks. Until a newly chosen case has come the form offers the people of the
  old one, and the server takes any active user (deadlines/page.tsx:88). A change whose answer is lost reloads nothing
  (deadlines/page.tsx:110, 121).
* Case page. The answer to a save is put into the copy the form was sent from,
  over a team that was loaded since (cases/[id]/page.tsx:602).
* Users page. Role and status of one user may be changed at once, and each answer
  replaces the whole row (users/page.tsx:273). After a lost answer the row keeps its old role or
  status beside an error (users/page.tsx:288, 304).
* Documents page. An upload that ends after another case was chosen is added to that
  case's list (documents/page.tsx:148); overlapping polls may set a shown status back.
* Panel. A picked file is remembered after its field has gone: the next check-in can
  send a file the page does not show, and one picked during a check-in is forgotten
  (DmsControls.tsx:109). A lock another user or the daily job takes away stays on the panel, and so does what
  the panel had before a call whose answer was lost (91).
* Session. Signing out, or in as somebody else, in one tab leaves the other with its
  user and the new token (rbac.tsx:36).
* Portal. verify reads a link and marks it in two statements, so that two pages that
  redeem it at the same time both get a session (portal.py:147). Refusals come as
  `{error: {message}}`, which the pages do not look into: an ended session shows an
  error and never leads back to the login (portal/dashboard/page.tsx:52).

### Bounds

Every hazard above needs two actors on one row, or one actor and a death; so
instances have two requests (or workers, or handlers) and one or two rows. A
third folder gives a cascade a grandchild, a third id lets two accounts
compete for an address. Named bounds: `Files` (uploads), `MaxAge`, `MaxChunks`,
`LastDay`, `LastHearingDay`, `MaxChanges`, `MaxEdits`, `MaxPaid`, `MaxLines`. Leads of 0 and 1 are enough for a
reminder of the next day, of the same day and of neither. Numbers of money are
chosen so that a payment covers an invoice alone, together with another one, or
only without its tax. Pages need two of each: two keys for an answer to be about the
wrong one, two loads for answers to cross, two rows for a change to hit the
neighbour, two people of whom one is not on a team; their bounds are `MaxAsked`,
`MaxChanging`, `MaxLoads`, `MaxChanges`, `MaxCalls`, `MaxSends`, `MaxSaves`, `MaxLists`,
`MaxTalk`, `MaxPolls`, `MaxChoices`, `MaxVersion(s)`, `MaxMeta`, `MaxLinks`, `MaxPortalCalls`, `MaxRefresh`, `MaxActs`.
Settings are saved three times, since two saves can each undo the other.

The scenes of `MCPractice` and of the users in `MCFirm` bound their components further, by what they
admit of the next state: a PATCH of a folder, an appointment or a user names one field, so that each guard
of a change is met alone; a behaviour ends with the step that puts a folder below
itself or starts a second pass next to the first, beyond which the properties
promise nothing; in `items` the days are 0 and 1 and one pass at most dies;
in `deadlines`, which has the third day that an escalation needs, nothing dies;
in `hearings` there are two changes and one message whose answer is lost, and
`hearingsMoved` has one hearing and three changes, enough to put it off and back.
The theorems of section 4 are about the components without these bounds.

`CHECK_DEADLOCK FALSE` is in every cfg of a model that
really stops: ids, uploads or days are used up.

The lists of `frontend` have one change of each row (`MaxVersion` is 1; with 2 the lists alone have more
states than the rest of the run). `QuietPagesAreCurrent` is proved for any number of changes.

Symmetry is used over interchangeable rows, users and requests, but not in
`frontend` and `pages`, where cases and people belong together, and never in a run with a liveness property.

### Fairness

* `DocumentCheckout`: weak fairness of the continuation of each request (the
  event loop resumes what it has started), of `Tick`, and of the daily job.
  Nothing forces a user to act.
* `DocumentPipeline`: weak fairness of each worker: its interval job runs every
  few seconds, and its calls have timeouts.
* `Subscription`: weak fairness of each handler, and strong fairness of the
  delivery of a transaction until it is answered, which is an assumption about
  the payment provider.
* `DocumentsScreen`: weak fairness of the page's interval timer and of the server's
  progress; strong fairness of the server's telling and the page's taking of
  a polled status, because a poll that fails leaves the row to the next tick: a
  connection that fails for ever shows nothing. Users need not act.

## 4. What is proved

Proofs are in modules of their own and hold for every value of the
constants that satisfies the assumptions named in the module.

**`DocumentCheckoutProofs`**: `TypeCorrect`, `ChainIsLinear`, `VersionsAreKept`,
`TransactionAppends`, each `Spec => []...`, for any number of users, sessions,
documents and files. None of the three invariants is inductive. The invariant is
`IInv == TypeOK /\ Chains /\ Overtaking /\ Objects`:

* `Chains`: the versions of a document are 1..n for a natural n other than 1,
  each naming the one before;
* `Overtaking`: what a check-in has read is a version that exists; if its
  transaction is open it is the latest, and no other transaction on the
  document is open. This is what the UNIQUE constraint gives: the second INSERT
  of a version waits for the first transaction and then fails;
* `Objects`: what versions and documents point at is stored, and a file that a
  check-in has uploaded and not yet committed belongs to no version and to no
  other check-in.

One lemma per conjunct shows that every step keeps it; `CommitChain` and
`ExtendedChain` say what the backfill and the new row do to a chain.

The same module holds `HistoryIsImplemented`, the refinement of
`VersionHistory`, and `LatestWhileAssigned`. Both extend the
invariant above: `Points` (`documents.file_path` names a file of the history)
makes the refinement mapping defined, since `CurrentOf` is the place of that file
in the history; `Follows` (while all assignments stand, the last file, and a
check-in about to commit has updated the document) is inductive because
assignments only end, so an update that would match no row cannot have happened.
`CommitAppends` carries both: the commit appends one fresh file to one history,
also when it backfills version 1, which the history holds already.

**`DocumentPipelineProofs`**: `Typing`, `OneWorkerAtWork`,
`ReadyDocumentsAreComplete` and `LifecycleIsKept`, the refinement of
`DocumentLifecycle`. The UPDATEs that end a run name no expected status, so
that they replace `processing` has to come from the claim:
`ClaimedIsProcessing` (who is past the claim works on a document in processing),
with `OneWorkerPerDocument` itself, since otherwise another worker could end
that state; `Progress` (a worker knows how many chunks the text was cut into, and those
before its next are stored) turns into `ReadyIsComplete`, all of them and at least one, at the final UPDATE.

**`ReviewGateProofs`**: `Typing`, `ReleasedRowsAreApproved`, `FlagsAreInherited`,
`NothingFromFailed`, `ApproversAreEntitled`. Released content is compared with
the row of today, hence `ExportsApproved` (what a request has read is still the
row's content) and `ApprovedByRole` (an approver is recorded exactly when a row is
approved, and no later save touches such a row). `FromFinished` says of
generations under way what the two properties of sources say of rows; it
is inductive because a finished document does not change its status.

**`FirmProofs`**, on who pays and who is let in. Of `Subscription`: `SubscriptionTypes`, `TransactionsAreProcessedOnce`,
`ActiveFirmsHavePaid` and `SubscribersAreServed`. The invariant adds `InboxFirst` (who is past the
inbox has put its transaction there), `OnlyGood` (who is about to activate does so
for a good transaction) and `OrdersAreOfFirms`. `OnePastInbox` (two requests past the inbox have
different transactions) and `FirstToProcess` (what was gone through is in the inbox, and who is about to
go through a transaction is the first) turn what the inbox refuses into what is processed once over
all deliveries. A death between the two
UPDATEs leaves an active subscription of a suspended firm; `SubscribersAreServed` says that this
is the only way: every firm with an active subscription is active, or is
about to be activated, or a request for a payment of its own was `cut`.

Of `FirmUsers`: `Typing`, `AccountsAreProfiles` and
`FirmKeepsManager`. A row and its account are changed by different calls, so the
invariant says what each half of a request leaves: who creates a user has its id
to itself (`CreatesAlone`, from the id that GoTrue has just given), the others are at work on
users that had an account (`OthersHadAccounts`), and an account without a row has somebody
about to complete or remove it, unless that was broken off (`OrphansAreMinded`).
`OthersManage` makes the last property inductive: as long as requests have come one by one, whoever is
about to take a manager away has been admitted while another remains.

Of `Session`: `SessionTypes` and `PagesAreTheirUsers`. `ShownToItsUser` speaks of pages that wait for nothing;
what the answers under way will make of them is in `AskedIsCurrent`: every question of a tab
that was not left behind was put with, and answered for, the session there is. Answers may
come in any order, and the proof shows that their order does not matter. `RoomToAsk`
reserves the question that follows a sign-in.

Of `PortalScreens`: `PortalTypes` and `LinksOpenOneSession`. verify reads a link in one statement and
marks it in another, so the theorem rests on the page: `LeftBehindExpires` (of the calls that could still
open a session with one link there is one, and if the page does not wait for it, it is back in
the first step, which ends that link before it can verify again), `MarksAlone` (one call at a time is past the
reading of a link, which has opened nothing yet) and `OpenedWereUsed`.

**`PracticeProofs`**, on `Invoices`, `Appointments`, `FolderTree` and `DocumentSharing`. In each a
request decides in one statement and writes in another, and the invariant says what
every request may count on until a history says that it was crossed.

* `PaidInvoicesAreCovered` needs no history: `PaidIsJustified` (whoever is about to write `paid` has
  payments that reach the total) rests on payments never being taken back and on
  a total that no statement changes after the invoice was made, which is the very
  thing that leaves totals behind their rates (billing.py:486).
* `StatusesFollow`: `InOrder` says of every invoice that was not `disturbed` that its
  request is alone on it (`Alone`) and, step by step, what that request may count on (`Working`). The
  state half is an invariant and the action half follows from it: no step of a
  request that works alone on a paid or cancelled invoice writes another status.
* `LawyersAreNotBookedTwice`: `Informed` says of every request that what it has read is still so, and, once it
  has checked, that there is room for its row. `Surprises`, which sets `raced`, is exactly the
  step that would break it of another request.
* `FoldersAreForest`: `Forest` is the least set closed under children; the proof argues with
  `Closed` sets instead, which need no recursion, and shows for each action that a
  set closed after the step has a counterpart that was closed before it.
* `ConfidentialIsNotShared`: `ShareIsOpen` and `MarkIsUnshared` say of statements that have passed their triggers
  what the other table is like; `OneMark` is the row lock of two UPDATEs.

`InvoiceTypes`, `BookingTypes`, `FilingTypes` and `SharingTypes` are their type invariants.

**`RemindersProofs`**, on the two parts of the daily pass, as the code is and with `firm_id` in the log. Of
`Reminders`: `ReminderTypes`, `SuggestionsAreInert`, `PassesLogBeforeTheyGoOn` and
`HandledJobsStay`. A pass works on what it read while users change it, so `InertInv` says of the jobs that
wait in a pass what the property says of those it has taken up (a confirmed
deadline never becomes a suggestion again, and an id is not given
twice); `AloneInv` says that, until passes overlapped, one at most is at work and
what it is about to send is not yet in the log. `LogKeepsUp` is inductive with the types: a job leaves the hand of its pass
with its row, or with the pass. It holds with and without `firm_id`: without it the first attempt of a pass is its last. Of `HearingReminders`: `HearingTypes` and
`HearingsAreRemindedOnce`. `FlagInv` (a flag stands for a message of the day the hearing is on, unless it was
put off) is why nobody is left out, `SentInv` (a message that has gone has its flag, or is about to get it,
or the worker could not know) and `ToSendInv` why nobody is reminded twice; `ReadInv` ties both to what
the pass has read.

**`BrowserProofs`**. Of `Forms`: `FormTypeCorrect`, `CreatesOnce` and `FormsSendOwnContent`, for any
values, any of the eighteen forms and any number of times it is sent. `Shape` collects
what the argument needs of the records, so that a form that is added has to satisfy
four lines of it. `CallsCounted` is what makes `CreatedOnce` inductive: of a form that only a
refusal frees, a call in flight finds every row already made taken for a
failure. `FieldsAreOwn` says the same of fields: an open form holds its own content, and a closed
one that is not filled when it opens holds that or what it would be filled with, unless an edit
was given up. It assumes that the marks for nothing, a failure and a refusal
are no values. Of `SettingsScreen`: `SecretsStay`, for any secrets and any number of saves. `Honest` is the
invariant while the page is not blind: a field nobody typed into shows whether its
secret is set (`FieldsTellStored`), unless the page has yet to hear of its save, and a
save in flight carries what was typed and otherwise only what the server has
anyway (`BodyIsTyped`). It assumes that no secret is the placeholder itself, which the server
would ignore.

Of `Tools`: `ToolTyping`, `AnswersAreToTheirQuestions` and `OwnCasesAreReviewed`. What is shown came from
a question that is over, so `ToolInv` says of the question in flight what the property says of its outcome
(`QuestionIsOfChoice`), that a conversation waits with its last question (`TalkWaits`), and, for contract review, that
the list which is asked last is that of the chosen case and nothing is picked before it has come
(`OfferIsOfChoice`): an action property that follows from what the state offers.

Of `CaseRows`, for the deadlines and the tasks at once (`Tasks` is a constant): `RowsTyping`, `ResponsibleAreOnTeam` and
`SettledRowsAreOfChosenCase`. The server checks no team, so the first rests on the page: `PickedFromTeam` follows a person
from the form to the call and to the row. For the second `RowsInv` says what loads in flight will make of the page: the last one is for
the chosen case, and brings it as it is unless a change was made that the page has yet to hear of
(`LastLoadIsChosen`), in which case another load follows. A change whose answer is lost is followed by none, and its row is
`unheard` from then until the page asks.

Of `Screens`: `ListTyping` and `QuietPagesAreCurrent`, for all thirty pages. A quiet page is the end of any number of
crossing loads and changes, so nearly all of `ListInv` is about pages that are not quiet. `Fresh` says
of a table that it is the server's but for rows whose change the page has yet to hear of, or has `missed`; the last load that counts
brings a fresh table for the chosen key (`LastIsFresh`) and without one the page has it (`ShownIsFresh`); loads whose answer
counts come after those that no longer do (`LiveAreLast`, which is what the `cancelled` flag of the document page gives); a page that does
not reload after a change has no load that the change could overtake (`ChangesMeetNoLoad`); what
it will put into its table is what the server has (`ChangesStand`), which of the AI review page, whose rows change
more than once, rests on the mark each of its cards keeps (`ChangesApart`). `ChangesApart`, the
types and `LiveAreLast` hold of all pages, the rest of undisturbed ones, and the proof shows for each action that what it
does to `disturbed` is enough.

**`PagesProofs`**, on the four pages that keep a table or a copy of their own, for any number of users, documents,
cases, files, polls, loads and calls in flight. `SettledPages` is their conjunction, `PagesSpec => []SettledPagesAreCurrent`; each
page has its own theorem, and each follows from a statement about what is still under way, since a settled page is
the end of any number of crossing answers.

* Users (`UsersTypeCorrect`, `SettledTables`; invariant `UsersInv`). A table that waits differs from the server by exactly the
  changes that were made and not yet heard of, or whose answers were lost. `ChangesAreListed` says that every such user has its answer among the
  requests, `AnswersStand` that an answer is still what the server has (until two of one user cross), `FreshTable`
  that the rows without one are current but for those `missed`. All three are under `~mixed`; `OnlyExisting`, which needs no
  history, is why a role is never asked for of a user that is not there.
* Panel (`PanelTypeCorrect`, `SettledPanels`, `ShownFilesAreCheckedIn`; invariant `DmsInv`). `QuestionEndsCall` ties the
  question after a call to that call, so that no panel is quiet with a call open. `LockWillBeKnown` and `SecretWillBeKnown` say that the last
  question in flight brings lock, versions and confidentiality as they are, or that a call is under way that will ask
  again, as long as nothing `unheard` has happened. `FileIsShown` (what will be checked in is what the field shows) gives the action property.
* Documents (`DocTypeCorrect`, `RowsNeverAhead`, `ListsOfChosenCase`; invariant `DocInv`). A status that is shown came by
  a list, an upload or a poll, and each may be old: `RowsAreBehind` says of all four places that their rows are not
  ahead of the server, which the server never undoes. `AnswerIsOfCase` and `ListIsOfChosenCase` hold because a
  choice cancels the load before it.
* Case (`CaseTypeCorrect`, `SettledCases`; invariant `CaseInv`). `OneSave` (one save is under way, sent from the copy on the page),
  and `CaseWillBeKnown`: unless the page has yet to hear of a change of the team or a deletion, after which it loads the case or leaves
  (`NothingToHear`), the last load brings the case as it is (`LastLoadBringsIt`), and without one the page shows it, or will with the save it has yet to hear of.

The assumptions of these modules (`UsersAssumption`, `PanelAssumption`, `DocumentsAssumption`, `CaseAssumption`,
`MarksAssumption` of `Browser`) say that the marks for nothing, a failure and a refusal are not values, which is what `null`
and exceptions give the code; that bounds are natural numbers; and that the stages of a document are 0, 1 and 2. TLC
evaluates them in the run `pages`.

What stays with TLC: the four liveness properties of the run `liveness`, since
neither fairness nor ENABLED is within this prover's reach; and `ChunksKeepText`, whose
splitting is by folds over words and sentences, so that what it computes for every text would take an
induction over data. Every other property of a passing run is a theorem.

## 5. Plan

Done, in this order: documents (check-out, ingestion, chunking), review gate,
subscription, reminders, appointments, invoices, users, folders, sharing,
hearings; then the pages of the browser (lists, forms, case rows, users, documents,
settings, tools, case, panel, session, portal); then proofs of all components of the backend but chunking, and
of all pages.

What would add most next:

1. `DailyPass`: reminders, hearings and release as one pass over the firms, in one
   `try` block, composed of the modules above.
2. The panel over `DocumentCheckout` and the users page over `FirmUsers`, instead of the
   servers these pages' modules have of their own.
3. A proof of `ChunksKeepText`, with a prover that has induction over sequences.

## 6. What is not modelled

* Tokens, passwords and mails of GoTrue; policies as a whole and the audit log
  (declarative SQL that acts within the statements of the models).
* Reads that aggregate (calendar, dashboard, analytics, reports, search); the pages that show
  them are in `Screens`.
* Rendering of documents and messages, Arabic normalisation, layout, labels and
  languages of the pages; OCR, embedding and language models, whose outcomes are choices.
* Sign-up on the server (signup.py:61): five statements without a transaction. A refused phone number
  leaves a firm and an account without a manager. Every failure after the account leaves
  the firm half made, so that no property of completeness is to be had; its form is in
  `Forms`, the payment that follows in `Subscription`.
* Code nothing runs: `CheckoutControls.tsx`, `FolderTree.tsx` and `VersionHistory.tsx` in `frontend/app/documents`
  are imported by no page; `lib/types.ts` declares types.
* Operations without a successful step: the daily report (scheduler_worker.py:98, an undefined
  name), and migration 0025, which names columns that do not exist.
* Appeal deadlines: arithmetic over tables of periods that are empty.
* Infrastructure.
