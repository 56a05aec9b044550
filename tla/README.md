# chat.yutongzhu.com in TLA+

A verification project for the chat service of this repository: a FastAPI
backend (`backend/`) that stores chat sessions in PostgreSQL, Redis and
pgvector, relays an external Agent over SSE, and serves a static page
(`frontend/app.js`). The modules here model how requests on one session, and
requests of one guest, work on the shared stores, how a visitor logs in, how
the Agent's events reach the page, and what the page does with sessions, loads
and streams. TLC checks them on small instances and TLAPS proves what matters
most for all of them.

## Inventory

| Component | State | Operations | Correct when |
|---|---|---|---|
| Generation lock (`storage/cache.py`, `service.py:144-149`, `api/routes.py:98-121`) | Redis key `gen:{id}` = token, TTL 600 s | acquire (SET NX EX), refuse (409), release (compare-and-delete), expiry | at most one run per session unless one outlives its TTL; a late release frees nobody else's lock; a session is never blocked for good |
| Turn pipeline (`storage/service.py:192-500`, `api/routes.py:142-247`) | the row of `sessions` (messages, llm_messages, token_usage), the hash `session:{id}`, locals of the generator, runs suspended in the Agent | post, `/compact`, edit, resume, GET with id assignment | history only grows; answers stand after their questions; the Agent sees the whole history; `done` means saved and counted; failures surface |
| Guest rooms (`service.py:115-142`, `auth/routes.py:80-93`) | rows per guest with their `created_at` | create, first post, quota, deletion at login | at most GUEST_MAX_SESSIONS rows, the oldest by `created_at` go first, no hash without a row |
| Message cache (`storage/cache.py:43-76`) | hash per session, TTL 600 s | replace, delete, read, append | equals the recent window of the row, or is absent |
| Persistence (`storage/persistence.py`) | tables `sessions`, `users` | upsert, history, llm history, usage, list, delete | each call one transaction; the usage is added atomically |
| Semantic memory (`storage/semantic.py`, `embeddings.py`) | `memory_vectors`, cascading on sessions | store, search | never blocks a turn |
| Agent SSE relay (`agent_client.py`, `service.py:276-352`, `routes.py:65-109`, `readSSE`) | the Agent's lines, `event_name` of the parser, chunks under way, the reader's buffer | connect, parse, forward, save, time out, read, leave | the page gets what the Agent meant, in order, or an error; nothing follows the end of a run; a final answer is stored; every stream ends |
| Email login and guest identity (`auth/`) | `otp:`, `otp_rate:`, `sess:` keys, the browser's cookie | request code, verify, logout, current user, expiry | the mailed code works, a spent one does not; mails are spaced; an ended token stays out; a login sticks and takes no member's chats |
| Pools (`storage/db.py`, `main.py:29`) | 200 threads, bounded connections | borrow, wait 10 s, fail | streams cannot starve the rest for good |
| Page controller (`frontend/app.js:644-1680`) | `sending`, `streamAbort`, `session_id`, `hitl:` and `run_whatever:` in localStorage, the card, the view | send, edit, resume, stop, run-whatever, switch, create, restore, reload | paused runs stay with their session; the stop button reaches the stream; view and row of a session keep the same texts |
| Mail (`auth/mail.py`) | none | send a code | a failure lifts the throttle, also one that is reported of a mail that went out |
| Markdown and theme (`frontend/`) | DOM | render | see Not modelled |
| Scripts and deployment (`scripts/`, proxy) | none | benchmarks, stub Agent, schema | see Not modelled |

How they interact: a route checks ownership, takes the lock, and hands a
generator of StorageService to `_sse_body`, which iterates it in a thread and
releases the lock in its `finally`. The generator reads and writes PostgreSQL
and Redis call by call, streams from the Agent in between, and keeps lists it
read in local variables. GETs and deletions touch the same row without the
lock. Two uvicorn workers share everything but memory.

What is hard here: whole lists are read, extended and written back; messages
and llm_messages are written in separate transactions; locks lapse; a worker
can die and a store can raise between any two calls; clients go away; a run
can be suspended and resumed after other requests; sessions are deleted under
running turns. PROJECT.json lists every hazard at its line.

## Modules

| Module | Models | Corresponds to |
|---|---|---|
| `GenerationLock` | the lock alone, for many sessions: the abstract specification of what mutual exclusion the routes promise | `Acquire`, `Refuse`, `End` are `try_begin_generation`, the 409 and `end_generation`; `Lose` is a holder that never releases; `Lapse` is the TTL |
| `GenerationLock_proofs` | single flight and no orphan lock | |
| `ChatTurn` | one session and all its requests; one action per PostgreSQL or Redis call | see below |
| `ChatTurn_proofs` | types, refinement of the lock, no unearned replies | |
| `ChatTurnHistory_proofs` | the history grows, answers follow, `done` is saved, the Agent sees it all, the hash mirrors the row | |
| `GuestRooms` | the rows of one guest across sessions | see below |
| `GuestRooms_proofs` | types, quota, oldest first, no hash without a row | |
| `Login` | one visitor: the codes of one address, the login sessions, the cookie, whose rows are whose; one action per Redis, mail or database call | see below |
| `Login_proofs` | types, mails, codes, ended tokens, members' rows, a login sticks, rooms stay reachable | |
| `EventStream` | the abstract stream of a run: events in order, none twice, an error in place of the rest | what the docstrings of `_iter_sse` and `post_message` promise the page |
| `SseRelay` | one run's events from the Agent's lines to the page; implements `EventStream` | see below |
| `SseRelay_proofs` | types, and that a final answer is stored | |
| `SseStream_proofs` | the relay implements `EventStream`; nothing is lost of a run without faults | |
| `ChatPage` | the page in one tab, with as much of the backend as it can notice | see below |
| `ChatPage_proofs` | types, the stop button, paused runs, stored texts stay in view | |
| `MCGenerationLock`, `MCChatTurn`, `MCGuestRooms`, `MCLogin`, `MCSseRelay`, `MCChatPage` | TLC instances | |

`ChatTurn` composes with `GenerationLock` (it implements it) and stands between
`SseRelay`, where what a run does to the session is the one step `Save`, and
`ChatPage`, where a session is the list of its stored texts and a lock. They
share no state that a single module would have to hold: the interface between
them is the events of a stream and its outcome.

### ChatTurn

`row` is the row with what references it, `cache` the hash, `lock` the key.
`kind[r]` is what a request asks for, `pc[r]` the call it makes next, and
`gen[r]` the locals of its generator: `held` is the Python list `history` /
`messages`, `llm` what `_append_llm` has read, `sent` what the Agent was
given. `told[r]` is the last event the client got and `agent[r]` how the
Agent's run came out.

    post     body load (adopt cache save)? ready cache save llmRead llmWrite?
             context agent reload cache save llmRead llmWrite? memory usage finish
    compact  body load (adopt cache save)? ready cache save source compacting
             install? cache save memory usage finish
    edit     load (adopt cache save)? ready cache save clear | body agent reload ...
    resume   body agent reload ...
    get      load (adopt cache save)? ready
    evict    drop

An edit works in the handler up to the bar, where an exception other than
`ValueError` leaves the lock behind; everything after `body` runs under the
`finally` of `_sse_body`. Messages are a role and the request whose text they
hold. An entry of the Agent's history is the set of messages it stands for, so
a summary is one entry that stands for many.

`Faults` says what may go wrong in a run of TLC: `raise` (any store call),
`crash` (the worker, between any two calls), `gone` (the client), `lapse` (the
TTL of a lock whose holder still runs), `expire` (the TTL of the hash). The
Agent's own failures are always possible. A lock whose holder is gone lapses in
every run.

An exception is modelled as raised before its call took effect. One raised
after the commit looks like an exception at the next call, except after the
last two writes of a turn (memory and usage), where it would end the stream
without an event although all is stored; `crash` covers those states.

A disconnect closes the generator before its first step or at a delta:
`next()` runs in a thread that is not cancelled, so the calls up to the next
event always complete.

### Login

`otp`, `throttle` and `sess` are the three kinds of Redis keys, `rows` the
identities that own chat sessions, `cookie` what the browser would send next.
A request keeps the cookie it was sent with (`jar`), the record its
`verify_otp` read (`seen`), the user it found (`who`) and the token its answer
sets (`reply`). Codes, tokens and guests are named by the request that drew
them.

    request  throttle store mail unthrottle?
    verify   get (drop | ttl rewrite | consume whoami touch? clear? issue answered)
    logout   forget issue answered
    me, create, post   load (touch | issue) handle answered?

Answers arrive in any order and the last cookie wins. A post answers with a
`StreamingResponse` of its own, on which FastAPI does not put the cookie that
was set on the injected response: its guest token is never `answered`.

The histories `raced` and `late` mark where the code promises less: a try that
writes a record back after it has changed, and a mail that takes longer than
the throttle lasts, whose failure lifts somebody else's.

`Ttl` reads the time a key has left. Redis rounds it to seconds, so in the last
half second it is 0 with the key still there, which `verify_otp` takes for no
time, as it does a key that is gone: the record is then written back for ten
more minutes (`renewed`). `Mail` has three outcomes: the mail goes out, it does
not and the call raises, or it goes out and the call raises all the same, which
lifts the throttle although the visitor has the mail (`doubted` counts these).

### GuestRooms

`rooms` gives each row its `created_at`; the workers share one clock, which
never steps back, and no two rows have the same stamp. `Count`, `Pick`/`Delete`
and `Drop` are the calls of `ensure_guest_room` and `delete_user_sessions`.
`save_session` takes the time before it waits for a connection, so it is two
actions: `Stamp` and, any time later, `Insert`; rows may be committed in another
order than that of their stamps. A post inserts at its start and again with its
answer, which brings a deleted row back with a new stamp.

    create   count (pick delete drop*)? insert commit
    post     owner (count (pick delete drop*)?)? cache insert commit
             agent (recache reinsert recommit)?
    login    pick delete drop*

A DELETE chooses on its snapshot and takes what is still there. `OldestGoFirst`
compares the rows it saw and nobody else deleted. A row committed after the
choice is not compared: its stamp may be older than those that go, and the code
does not promise that it goes before them.

### SseRelay

The Agent sends frames of a name and a body; `LinesOf` is what `_iter_sse`
reads of one, line by line. `Bodies` are the payloads its branches tell apart
(no JSON, not UTF-8, `[DONE]`, a done without a message, and so on). `Skip`
and `Forward` are one iteration of its loop without and with an event for
`_relay_agent_events`, which forwards, stores (`Save`) or stops. `Write` is
`_sse_chunks` under `_sse_body`: once the page is gone a chunk is dropped and
the generators are closed. In the page, `Partial` is a piece that ends inside
a frame, `Receive` the rest of it. `meant` and `fault` are histories: what the
Agent meant up to the end of the run, and whether something outside the code
cut the run short.

### ChatPage

A callback of the page is one action, since JavaScript runs it to its end; the
order of the user's steps, the answers and the backend's steps is free.
Streams and loads are numbered; `stream[i]` has the page's end (`client`), the
backend's end (`server`) and how it came out, `load[k]` the snapshot a GET took
of the row and whether the page has used it. `Send`, `Edit`, `Answer` start
streams, `Finished`, `Refused`, `Interrupted` are the ends `streamAgent` tells
apart, `Switch`/`Show`, `Create`/`Created`, `Repaint` are the two halves of the
handlers that await a fetch, and `Reload` restarts the page from localStorage.

Of the backend there is `owner[s]`, whose row there is for a session: nobody's,
the visitor's, or somebody else's (an identity the browser no longer has). A
load of an id without a row is answered with no texts, and the page keeps the
id and its records; only for a row of somebody else is it answered 404, and the
page takes a fresh id. `Make` and `Accept` give a session its row and may delete
other rows of a guest to make room (`Admit`): any of them, since which ones go
is the matter of `GuestRooms`. An answer that is stored in a session whose row
is gone brings the row back (`CameBack`). `lost` names the sessions whose row
was ever deleted. A creation is drawn when it is asked for, and its id is used
up when the page gives it up, though the request may still arrive.

The store calls of one request do not fail between each other here; that is the
matter of `ChatTurn`.

Three histories say where the code promises less, each a hazard of its own in
PROJECT.json: `moved` (the session changed while a stream was open), `hasty` (a
stream was started while a load was pending) and `blurred` (two loads overlap,
or one failed).

## Runs

| Run | Question |
|---|---|
| `lock` | mutual exclusion, no orphan locks, and no token that stays for good: 3 requests on 2 sessions while locks lapse and holders vanish at any time. Three, so that one lapses, one takes over and the first releases late |
| `turns` | 3 requests of any kind, from a missing, a plain or a compacted row, and the hash may expire: the Agent sees the whole history, answers follow their questions, cache and row agree, `done` means saved. Three, so that a compaction is followed by an edit and a post |
| `turns_faults` | 3 posts, edits and resumes on a compacted session while any store call may raise and clients disconnect: order, no unearned answers, the question reaches the Agent, done means saved |
| `turns_lock` | ChatTurn implements GenerationLock, every run ends and the session is freed: an edit and a resume, from a row without ids, under every fault of the lock (raise, crash, gone, lapse) |
| `guest_rooms` | 3 overlapping requests of a guest, at most two of them posts, quota 2, from a full table or one of 3 rows, which is what an earlier overlap leaves: every creation then has rows to delete, and a deletion by another request takes it through the smaller tables. Three posts (`FewPosts` leaves them out) pass as well, from the table of 3 rows, but are too long for a regular run; the theorems cover them. Three requests, so that two deletions overlap with an insertion whose stamp is older or newer than theirs. The clock is bounded by the two stamps a request may draw |
| `auth` | 3 requests of any kind by one visitor, two tries per code, keys running out at any time: the mailed code works, a spent one does not, mails are spaced, ended tokens stay out, a login sticks, rooms stay reachable, members keep their rows. Three, so that a code is asked for, missed and tried again, or a login meets a logout and a late answer, or a mail that went out and raised is followed by another. With `MaxAttempts` 2 a code can be missed once and still work; the proofs cover any limit and any number of requests |
| `relay` | 3 frames out of 13, which are all kinds of line the parser tells apart, on connections that break at any point: three, so that an event name can leak into the next frame and something can follow the end of a run. Also the refinement `ImplementsStream` and that every stream ends |
| `page` | 2 sessions, 2 streams, 3 loads: a stream, its resumption or an edit of it, a switch away and back. The page opens on a session without a row, with the visitor's or with somebody else's. What sessions do to each other, a creation that deletes the row of the other included, takes one other session. The constraint `Judged` stops at states with `moved` or `hasty`: these never turn back, no property speaks after them, and such a state is itself still checked. After a failed or overlapping load (`blurred`) only `StopReachesStream` speaks, and one stream less is followed; the theorem `StopReaches` has no such bound. 3 streams with 2 loads, too long for a regular run, pass as well |
| `turns_dropped`, `turns_race`, `turns_leak`, `guest_quota` | find the disagreements below |

Bounds: requests are one-shot, so a history has at most 2 + 2 x 3 messages;
`RecentMessages = 3` makes the Redis window shorter than the history. Deadlock
is not checked because a finite set of requests comes to an end. Requests are
symmetric in all runs without liveness properties, and so are the sessions of
`page`.

What a run leaves out, and why:

- `turns_lock` has no posts and compactions: their steps between acquisition
  and release are those of an edit's answer, or one more Agent call, and the
  theorem `Refinement` covers them. Edit and resume are the kinds that hold
  the lock in a handler and that depend on another run.
- Crashes are in `turns_lock` alone. On the stores a crash leaves what an
  exception before the same call leaves; the difference is the lock.
- `AgentSeesHistory` and `CacheMirrors` are checked without store errors. With
  an error between two of the three writes of a message they are false, which
  the hazard list records: nothing in the repository repairs the Agent's
  history then.
- A row without ids together with a GET is left to `turns_race`, since the
  history properties are false there (finding 2). They are false under `lapse`
  too, as the comment at `GENERATION_LOCK_TTL_SECONDS` concedes; `turns_lock`
  and the theorem `RepliesAreEarned` show what still holds.
- `MailedCodeWorks` and `SpentCodeIsGone` leave out `raced` histories,
  `MailsSpaced` and `MailedCodeWorks` the `late` ones. `LoginSticks` leaves out
  logouts and requests sent without a live cookie, which come back with a guest
  cookie of their own; `RoomsReachable` leaves out two such requests, and a
  first post, which never announces its guest.
- `NothingLost` is about runs without `fault`; with one, `ImplementsStream`
  still says that what the page got is a prefix of what was meant, with at most
  an error after it.
- The properties of `ChatPage` leave out the histories named above.
  `NothingVanishes` also leaves out the texts an edit was to replace before the
  backend refused it (`Abandoned`), requests that reach the backend after the
  page has given them up, whose text is stored out of turn, and a current
  session whose own row was deleted, of which the view does not learn. It says
  nothing of a text the backend did not take: the page shows a failed one until
  the next load, and removes one refused with 409.
- `SpentCodeIsGone` excuses a code past its ten minutes only if a wrong try
  found no time left on it (`Revived`), and `MailsSpaced` a second mail in a
  period only after one whose call raised although it went out (`doubted`):
  both are what the code does to a lone visitor.

### Fairness

`GenerationLock!FairSpec` assumes only that Redis expires keys.
`ChatTurn!FairSpec` adds that a request which has been let in takes its next
step: store calls return or raise (the pool has a 10 s timeout), the Agent's
answers are bounded by `REQUEST_TIMEOUT_SECONDS` and `COMPACT_TIMEOUT_SECONDS`
(for a stream, between two reads: an Agent that sends for ever is assumed
away), and the server drives the generator. Arrivals and faults are not fair.

`SseRelay!FairSpec` assumes that the worker thread goes on with its generators
and that the browser calls back with what has arrived. A silent Agent is
covered by the read timeout `REQUEST_TIMEOUT_SECONDS`: while a body is read,
`requests` raises it as a `ConnectionError`, which is caught and ends the
stream silently, so `Timeout` is part of the worker's fairness. Nothing is
assumed of the Agent, the user or the connections. `Login` and `ChatPage` have
safety properties only.

### Findings

1. `turns_dropped`: a refused or broken connection to the Agent ends the
   stream without an error event (`service.py:327`), against the docstring.
2. `turns_race`: a GET that assigns missing ids writes a stale history back
   without the lock and erases a message posted meanwhile (`service.py:177`).
3. `turns_leak`: a store error in the handler of an edit leaves the lock in a
   live worker (`routes.py:237`).
4. `guest_quota`: two overlapping creations exceed the guest's quota
   (`service.py:119`).

## Proofs

TLAPS checks these for every value of the constants.

`GenerationLock_proofs`, from `FreeIsNoToken` alone: `SingleFlight` and
`NoOrphanLock`. `SingleFlight` is not inductive: it says nothing of the key, so
a release could free it under a running request. The invariant `IInv` adds
`HolderIsStored` (whoever generates and has not lapsed has its token stored);
two such holders of one session would both be the stored token. A late release
keeps it because the script compares before it deletes.

`ChatTurn_proofs`, from the assumptions in `ChatTurn`:

- `TypeCorrect` and `Inductive`. `TypeOK` alone is not inductive: `_append_llm`
  takes the last message of the list it holds, and the event that ends a
  stream reports the Agent's outcome, so one must know that the list is not
  empty and that the outcome is not a failure. `Routes` says where each kind of
  request can be and with what. The lemmas `RowWriters`, `GenWriters` and
  `KeyWriters` say once which steps write what, so that each part of the
  invariant is proved for its writers only.
- `Refinement`: `Spec => ImplementsLock`. Seen at the lock a step is an
  acquisition, a refusal, an end, a loss or nothing (`LockView`), and each maps
  to the action of that name. `Routes` is needed to know that GETs and
  deletions never reach the release. With `SingleFlightHolds` this is the
  mutual exclusion of the code's runs.
- `RepliesAreEarned`: `NoUnearnedReply` with every fault, lapsed locks and
  stale write-backs included. The invariant `Earnings` extends it from the row
  to every list a generator holds, which is where the row's next value comes
  from. It needs that the rows the session starts from hold only older
  messages (`RowsAreOld`) and that a run that is done stays done.

`ChatTurnHistory_proofs`, on top of these. Its theorems have hypotheses on the
constants, each the condition under which the code keeps the promise, and the
runs `turns` and `turns_faults` satisfy those of the properties they check:

| Hypothesis | What it says | Why it is needed |
|---|---|---|
| `NoOverrun` | no lock lapses under a live holder | the comment at `GENERATION_LOCK_TTL_SECONDS` concedes two writers otherwise |
| `NoWriteBack` | no GETs, or no row from before ids existed | finding 2: such a GET writes without the lock |
| `NoTornWrite` | no exception and no crash between two writes | nothing repairs llm_messages or the hash after one (a listed hazard) |
| `StartsCovered` | the Agent's history the session starts with stands for all its messages | the code keeps that up, it does not establish it |

- `HistoryGrows`, `UserMessagesStay`, `DoneIsSaved` (`NoOverrun`,
  `NoWriteBack`): `SoleWorker` says that whoever works on the session holds its
  lock, so that there is one writer; `Synced` then ties the list a run holds to
  the row, call by call: it is the row's, or that and one message, or a cut of
  it and one message. That is why replacing the whole list loses nothing. The
  row may be deleted under the run (`evict`), which `Synced` allows for.
- `RepliesFollow` (the same): `Answered` says it of the row and of all lists
  held, `Endings` that an answer is appended to a list that ends with its
  question.
- `QuestionsAreSeen` (`NoOverrun`): `Asking` follows the question from
  `_append_llm` into what is sent.
- `HistoryIsSeen` (all four): `Covered` says that llm_messages stands for every
  message of the row but those that are saved and not yet appended (`Pending`),
  and that what was sent still does when the Agent's answer comes.
- `HashMirrors` (the first three): `Hash` allows the hash to run ahead of the
  row between a `cache` and its `save`.

`GuestRooms_proofs`, from `KindsAreKnown`, `RoomsAssumption` and
`QuotaAssumption`:

- `TypeCorrect`, `QuotaKept`, `OldestFirst`: `Chosen` says that what a request
  is about to delete is older than the rest of what it saw, whatever others
  deleted or inserted meanwhile, since a row keeps its stamp; `Spare` that a
  request nobody overlapped has room at each of its calls. The lemmas
  `OldestAreOlder`, `OldestAreEnough` and `RoomMade` say what the oldest n rows
  of a finite table are and what is left without them.
- `HashesAreBacked`: `Due` adds to the property who will still drop a hash or
  bring its row back.

`Login_proofs`, from `KindsAreKnown`, `LimitIsNat` and `NamesDiffer` (drawn
codes, tokens and guests differ):

- `Inductive` and `TypeCorrect`. Types need `Routes`: that an attempt is only
  counted on a record below the limit, and that a request has in hand the
  record or the user its next call acts on.
- `MailsAreSpaced`: `OneMailer` says that, unless `late`, at most one request
  is between the throttle and the end of its mail, that the throttle stands
  while it is and after a mail whose call returned, and that before its own only
  mails whose calls raised have gone out.
- `EndedTokensStayOut`: `Fresh` says that a token is named only after it was
  issued, so an ended one is never issued again; EXPIRE creates nothing.
- `SpentCodesAreGone`: `Tries` and `Unknown` tie a try to the record it read
  and say that a code nobody stored is known to nobody; `Kept` says that a record
  has a second life, or a try has found the rest of one, only if an earlier try
  found no time left.
- `MailedCodesWork`: `Grounds` and `Delivered` give the reason for which a
  mailed code can be missing, and reasons never go away.
- `MembersKeepRows`: rows go only in `Clear`, which `Routes` reaches for
  guests alone.
- `LoginStays`: `Ways` fixes what each kind of request may have in hand,
  `Sticks` that, as long as no token ended and nobody logged out or strayed,
  every cookie an answer sets is a login's and stands for the member, and that
  once one has arrived so does the browser's.
- `RoomsAreReachable`: `Home` says that the rows are those of the cookie's
  identity or, while the browser has none, of the one request without a cookie
  (`Strays`) that the property allows, whose answer is still to bring it.

`SseRelay_proofs`, from `FramesAssumption` and `BoundAssumption`:

- `TypeCorrect`, by who writes what: upstream, backend, chunks, page.
- `FinalIsSaved`: `FinalMeansSaved` says nothing of what is still under way;
  `Backed` adds that a `done` among the chunks, too, means that the answer is
  stored. Only `Save` writes one.

`SseStream_proofs`, from the same:

- `Implements`: `Spec => ImplementsStream`. What the page is shown is a prefix
  of `meant` only if what is still on the wire stands for the rest. `Reading`
  states that by a tally: a function from the positions of the wire to the
  number of events up to there, which must agree with `meant` as far as the run
  goes. The parser's name in front of a line depends on the lines before it
  (`NameAt`), so a line that leaks its name into the next frame would break the
  tally.
- `NothingIsLost`: `Whole` says that, without `fault`, the relay stops only
  where the run ended or the Agent closed, and that what is shown and under way
  then is all that was meant.

`ChatPage_proofs`, from `SessionsAssumption` and `BoundsAssumption`:

- `Inductive` and `TypeCorrect`: `Numbered` bounds the runs, edits and texts by
  what was started and `Answered` says that a load that has come back has an
  answer, without which the answer of a GET could be any.
- `StopReaches`: `Undisturbed` adds to the property that no load is pending and
  no card is shown while a stream is open: nothing resets `sending` under it
  and no second stream starts.
- `PausedRunsAtHome`: `AtHome` carries, besides the records, where the open
  streams run (`Here`), whose session each resumption has (`Resumed`) and which
  session a pending load will offer a card for (`Loading`).
- `PlacedInvariant`, for every history: a session that has a row, lost one or
  is about to get one was handed out, and where there is no row there are no
  texts, unless the row was deleted. A fresh id the page draws is therefore
  nobody's, which `TextsStay` needs.
- `TextsStay`: `NothingVanishes` speaks of moments at which no load is pending,
  but a load repaints the view with what the rows held when the GET was
  answered. `Settled` is the invariant: the streams are numbered in the order
  of their texts and only the newest is open (`Sound`), nothing is shown or
  loaded that was not sent (`Seen`), and, while the row of the current session
  was not deleted, an answered load still has what the row holds (`Fresh`) and,
  when none is pending, the view is `Painted`: under an id it never shows an
  older text than the row's (`Newer`), it shows the row's texts (`Shows`), and
  what it shows of the texts the backend took is in the row (`Stores`). An edit
  replaces from its text on, in the view at once and in the row when the backend
  takes it, and the order of the numbers shows that it replaces the same texts;
  a deletion of other sessions leaves the row of the current one alone
  (`Admit`).

Every safety property, action property and refinement of the passing runs is a
theorem. Only model-checked are the liveness properties `LockTurnsOver`,
`RunsEnd`, `SessionFreed` and `StreamsEnd`, which need fairness and `ENABLED`
and are out of the prover's reach. Where a theorem of `ChatTurnHistory_proofs`
has hypotheses, nothing is claimed of the code without them: `turns_race` and
the hazard list show what happens then.

## Plan

1. Done: `GenerationLock`, `ChatTurn`, `GuestRooms`, `Login`, `EventStream`,
   `SseRelay`, `ChatPage`, their runs and the proofs above.
2. Done: the refinement of `EventStream`, the histories of `ChatTurn` under a
   single writer, and `GuestRooms`, as theorems.
3. `AgentSeesHistory` and `CacheMirrors` under weaker hypotheses: which torn
   writes the next turn repairs, and which it does not.
4. `Workers`: the 200 threads and the bounded connection pool, as limits on
   `ChatTurn`'s calls; `TokenUsage`: `normalize_usage` and the accumulated
   total against a reference definition.
5. The login on the page (`chat:ready`) and a second tab, which shares
   localStorage with the first but not its variables.

## Not modelled

- Thread and connection pools: their exhaustion is a store error in
  `ChatTurn`, at any call; that full pools drain again is not shown.
- Embeddings (a mock) and the memory search (no caller).
- `normalize_usage`, the titles of `list_sessions`, and the reading half of
  the message cache, which has no caller.
- The allowlist and the form of an address, which change no state; Redis
  failures during a login, which end the request with 500 between two calls, as
  a request that takes no further step does; two draws of the same code, token
  or guest id.
- On the page: signing in, the sidebar's list, the slash menu, the display of
  usage, rendering of Markdown and themes, and a second tab.
- Benchmarks, the stand-in for the Agent, schema creation, deployment.
- Wall-clock time: TTLs expire at any moment that the run's faults allow. The
  text of messages, except for what request it came from; the command
  `/compact` is a kind of request.
