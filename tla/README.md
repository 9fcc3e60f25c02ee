# TLA+ models of the Chat Assistant

These modules model the assistant from both sides. On the server: the chat
backend with its conversation memory and answer pipeline, live transcription,
the Whisper runtime behind it, and the document store of the knowledge base. In
the browser: the live transcription hook, the chat session, the login, the frame
of the application and the pages in it. TLC checks each model on a small
instance; TLAPS proves all their safety properties, and three refinements, for
every size.

Check a model with `tlc -config X.cfg M`, a proof with `tlapm M.tla`. Every run
is listed under [Runs](#runs), every theorem under [Proofs](#proofs).

## The system

The backend is one FastAPI process: an event loop that runs every request and
websocket as a coroutine, and a pool of worker threads for what blocks. It keeps
state in memory (conversation buffers, rate-limit buckets, the Whisper
pipeline), in a relational database (users, sessions, messages, documents), in
ChromaDB (document chunks) and in Redis or its in-process stand-in (the states
of audio chunks). The frontend is one React application. `App.tsx` keeps what
outlives a page (the chat session, the login, company data, decisions on
invitations, the composer's services and models) and shows one panel at a time;
what a panel keeps in its own state is lost when it goes. Requests and timers go
on whatever is shown.

| Component | State | Operations | Talks to |
|---|---|---|---|
| chat sessions and memory (`api/chat.py`, `api/sessions.py`, `memory.py`, `message_store.py`) | `chat_sessions`, `chat_messages`; one `ConversationBuffer` per session in the process | open a session, chat, stream, read the history; rehydrate a cold buffer; restart | database, pipeline, rate limiter |
| chat pipeline (`ChatPipeline`, guardrails, RAG, LLM clients) | none across requests; the think-block filter of a stream | screen, refine, retrieve, generate, check the output | LLM gateway, ChromaDB |
| live transcription, server (`transcription/websocket.py`, `handler.py`, `speech_cache.py`) | per connection: chunk counters, running tasks, finished payloads; chunk states in Redis | authenticate, start, audio, stop, disconnect; chunk tasks | browser, worker threads, Redis |
| live transcription, browser (`useLiveTranscription.ts`) | refs to the socket, the recorder, the stream; the upload chain; the queue of transcripts | start, stop, cut a segment, upload, apply a transcript, tear down | the websocket, `MediaRecorder` |
| Whisper runtime (`runtime.py`, `transcriber.py`) | the lazily built pipeline, its device, two locks | invoke, build | worker threads |
| documents (`api/documents.py`, `embedder.py`, `vectordb.py`) | rows in the database, chunks in ChromaDB | upload, delete, list | both stores, without a common transaction |
| chat client (`useChatSession.ts`, `chatApi.ts`) | messages, the lock of the composer, `sessionIdRef`, timers, preview URLs | send, answer, stream, reset, open a chat, add files | chat endpoints; mounted in `App` |
| login (`useAuth.ts`, `LoginPanel.tsx`) | user, token in `localStorage`, the form | boot, register, log in | `/config`, `/me`, `/login`, `/register` |
| frame (`App.tsx`, `Sidebar.tsx`, `Header.tsx`, `WelcomeOverlay.tsx`) | view, sidebar, recent chats, preferences, overlay, snackbar, upload batch | navigate, new chat, open a chat, upload, choose preferences | every panel |
| composer (`ChatPanel.tsx`, `ModelPickerPopover.tsx`, `PersonaWizard.tsx`, `LocalLlmConfigPanel.tsx`) | services, models, menus, wizard, form of a local model | choose, add, remove | `App`'s state, `localStorage` |
| settings (`ProfilePanel.tsx`, `useDragScroll.ts`) | values, presets, the selected and the active one | slide, apply, save, delete | `localStorage` |
| document list (`useDocuments.ts`, `DocumentsPanel.tsx`) | the list, one upload at a time, deletions | reload, upload, delete | documents endpoints |
| company data, invitations, desk (`useCompanyData.ts`, `useInviteNotifications.ts`, `MyDeskPanel.tsx`, `NotificationsPanel.tsx`) | the lists, decisions, the feed, a merged list in a memo | load, answer an invitation on either page | company endpoints |
| planner (`CompanyAppointmentsTab.tsx`) | new items, week, expanded card, form | lay out, expand, add | the desk's list |
| company workspace (`CompanyWorkspacePanel.tsx` and its tabs) | per company: uploads, dismissed and opened documents, notes, hypotheses, members; forms | choose a company, upload, dismiss, open, edit, delete | company data |
| rate limiting, accounts, ingestion, configuration | see [Not modelled](#not-modelled) | | |

### What is hard here

* **Coroutines between awaits.** The chat endpoints read the buffer, await the
  database, the guard and the model, and write the buffer and then the log. Two
  requests of one session meet at every await; a stream can be cut off at any.
* **Two stores, no transaction.** A chat is in the buffer before it is in the
  log, a document's chunks are in ChromaDB before its row is in the database,
  and removed before it. Each call may fail; the process may die in between.
* **Restart and reload.** Buffers go, the log stays, clients remember what they
  were told. A page load keeps `localStorage`, which may not work at all.
* **Work that finishes out of order.** Audio chunks are transcribed beside each
  other; list requests, uploads, deletions and loads of company data overlap.
* **Callbacks of the past.** The browser delivers events of a recorder or
  socket, and answers of a fetch, to a hook whose refs may name another session
  by then.
* **One fact in two places.** React memos with missing dependencies, lists kept
  once for each language, items known by their position, `localStorage` beside
  state: handlers must change both.
* **Two locks and a lazy build**, where the device that decides whether to lock
  becomes known only in the middle of the build.

### What makes each part correct

* Chat sessions: conversations stay with their owner; only answered exchanges
  are remembered; what was answered is durable and can be read back; the model
  is shown the end of the conversation; every request is answered.
* Transcription server: payloads in order, each once, none lost for a client
  that stays; bounded work; chunk states gone with the session; sessions end.
* Transcription hook: one session's speech in the draft, in order; the
  microphone is released; stop ends the recording.
* Whisper runtime: one pipeline; one thread at a time on an accelerator; no
  deadlock.
* Documents: what is listed can be found; chunks without a document have a
  cause; the answers given stay true.
* Pipeline: nothing unscreened is generated for; reasoning stays hidden and the
  answer whole, however the text is cut; both endpoints answer alike; what is
  recorded is what was delivered.
* Chat client: nothing on screen waits for work that is gone; one reply at a
  time; previews are released; a fresh chat is fresh (it is not always).
* Login and frame: what is offered was granted; uploads are reported as they
  were; both languages list the same chats; the first message leads to the chat;
  nothing keeps the user waiting.
* Pages: controls that belong together agree; the preset marked as active has
  the values on screen; planner items that run at the same time have lanes side
  by side; an invitation that has an rsvp says the same on every page, and any is
  answered once; the document list is the server's; an edited or uploaded item is
  the one that was meant, and an open one for as long as the list it is in is the
  same.

## Modules

| Module | Models | Composes / used by |
|---|---|---|
| `ConversationLog` | what the backend promises about durable conversations | abstract specification of `ChatSessions` |
| `ChatSessions` | chat and session endpoints, buffers, log, restart | `MCChatSessions`, `ChatSessionsProofs` |
| `ThinkBlockFilter` | the filter of streamed text, and what a whole text should leave visible | `ChatPipeline` |
| `ChatPipeline` | one request through guards, retrieval, generation and delivery | `MCChatPipeline`, `ChatPipelineProofs` |
| `TranscriptionWs` | websocket handler, chunk tasks, chunk states, any client | `MCTranscriptionWs`, `LiveTranscription`, `TranscriptionProofs` |
| `LiveTranscription` | the hook in place of the client | extends `TranscriptionWs`; `MCLiveTranscription`, `TranscriptionProofs` |
| `WhisperRuntime` | locks and lazy build | `MCWhisperRuntime`, `WhisperRuntimeProofs` |
| `Documents` | upload and deletion over two stores | `MCDocuments`, `DocumentsProofs` |
| `ChatClient` | the chat hook | `App` |
| `Auth` | boot, registration and login of one browser | `App` |
| `AppShell` | view, sidebar, recent chats, preferences, welcome, upload batch | `App` |
| `App` | the three above as `App.tsx` composes them, and page loads | `MCApp`, `AppProofs` |
| `Composer` | services, models, menus and forms around the composer | `Panels` |
| `Profile` | settings with their presets | `Panels` |
| `DocumentsPanel` | the document list of the browser | `Panels` |
| `CompanyData` | loads of the company data | `Desk` |
| `Planner` | the week of appointments and its layout | `Desk` |
| `InviteLedger` | what invitations promise: answered at most once | abstract specification of `Desk` |
| `Desk` | desk, notifications and their planner over the loads | `Panels` |
| `CompanyWorkspace` | documents, notes, hypotheses and team of a company | `Panels` |
| `Panels` | all pages, one shown at a time | `MCPanels`, `PanelsProofs` |
| `Lists` | `Array.prototype.filter`, as a recursive function | `TranscriptionWs`, the modules of the pages, `ListProofs` |

Definitions whose comment begins with "Mutant:" are plausible mistakes in the
code, each put in place of the definition after it to see that a property
notices. They are no part of any specification.

### ChatSessions

A request is a coroutine. It runs without interruption between two awaits, so
an action is one such segment and `pc[r]` names the await it is suspended at:

| `pc` | suspended at |
|---|---|
| `get` | `db.get(ChatSession, id)` |
| `read`, `rows` | `load_recent`: before and after the database has read |
| `insert`, `inserted` | the commit of a new session: before and after it took effect |
| `guard` | the input guard |
| `generate` | refinement, retrieval, generation, output guard |
| `persist`, `persisted` | `append_turn`: before and after the commit took effect |

`hot` is the key set of `SessionMemoryManager._buffers` and `buffer` the turns;
`log` is `chat_messages` by session in id order. A message is the request that
produced it and its role: texts play no part in the properties. `GetCold`
registers the empty buffer *before* the rows are awaited, as the code does.
`/chat` takes the context before the guard, `/chat/stream` after it. `DbDown`
is the 503 of the session look-up, `PersistFail` the commit failure that
`_persist_turn` swallows, `Disconnect` the cancellation of a stream's generator,
`Restart` a new process. `ArriveOn` can name any session id a client was ever
told, of whichever user, or an id that never existed. `session.summary` is not
modelled: nothing in the code writes it.

`acked`, `unsaved` and `disturbed` are history variables. `disturbed` holds the
sessions in which two chats overlapped or a database call failed since the last
restart: only there may the prompt differ from the log.

### ThinkBlockFilter and ChatPipeline

The pipeline keeps nothing across requests, so one request is the whole model;
`kind` is its endpoint and `at` the step it is about to take. `Screen` is the
input guard with the local policy behind it, `Retrieve` and `NoContext` are
refinement and retrieval, `Token` is a piece of the model's text, `TextEnds` the
end of it, `CheckPasses` and `CheckRejects` the output guard, `Record` and
`Deliver` the end of the handler. `ChatSessions` sees all of this as its `guard`
and `generate`, and goes on where `Record` stands here. A stream ends in an
error frame (`GatewayFails`), without a frame when something else than an
`OpenAIError` raises (`Raise`), or with its reader (`Disconnect`).

`Feed` is the loop of `feed`, round by round; `Visible` says without any buffer
which characters of a whole text should be seen. `TagAssumption` is what the
filter needs of its tags and `<think>` and `</think>` have: no tag can begin inside
a tag, and neither is the beginning of the other. The tags of the instance are
two and three characters long and begin with the same character, so a held tail
may turn out to be either tag or none.

Whether retrieval and the output guard are configured is not a variable: each
step simply may go either way. Prompts, the refined query, sources, file names
and the choice of a provider are left out. Database statements that fail raise
`SQLAlchemyError`, here as in `ChatSessions`.

### TranscriptionWs

`phase[c]` is where the handler is: waiting for the first frame, at the top of
its loop (`collect`), in `receive`, waiting for a free place (`full`), or
draining. `Collect` is `_collect` with the `_flush` it ends in, one step: the
awaits of `_flush` are sends, and no other coroutine touches what the handler
reads in between. A chunk's task is two segments, before and after the worker
thread. It ends as a transcript, or in one of the `Failures`: `empty` (no text,
or an inference error), `error` (dependencies missing), `chunk_error` (any
exception, also Redis failing when `Outages`). Of the text frames that make no
sense, one that is no JSON is answered with an error (`ReceiveBad`), one of
another type is ignored (`ReceiveIgnored`), and one that is JSON but no object
makes `payload.get` raise: the handler drains its tasks, clears the session and
ends without a message (`ReceiveValue`). The wire is a FIFO in each direction; a
send to a socket the client has closed is lost and may or may not raise.
`Expire` is the TTL of a chunk state.

Connections share only the worker threads, so the run has one connection.
`AUTH_MODE=mock`, in which no authentication frame is awaited, is left out.

### LiveTranscription

Each action is one callback of the hook, or one click. The refs (`sock`,
`recRef`, `stopping`, `monitor`) are shared by all sessions; callbacks carry the
connection they were made for. `events[c]` are recorder events and the restart
timer still to run. `chunkUploadQueueRef` is one chain for all sessions, and the
hook sets it to a new, settled promise in `Granted` and in `Teardown`; what was
chained before runs on beside it. `jobs` is all that was ever chained, in that
order, each with its connection, its segment (or `SayStopNow`, when the user
stops) and the number of jobs there were when its chain began; `ran` are those
that have run, and `InTurn` is what a `then` waits for. `Upload` sends a segment,
or drops it: because the socket is not open, or because its blob is empty or
cannot be read (`lost`); the chain goes on in every case. `Teardown` is
`teardownLiveTranscription`.
`queue` is the transcript being typed and those behind it, `texts` those typed
to the end. `Granted` leaves the head of the queue: the hook empties its queue
but not the timer that types. When the user double-clicks, `Granted` overwrites
the refs of the first session; it is then one of the `orphans`.

Left out: when the monitor cuts a segment (any time, between any two), and
errors of a displaced session's recorder. A `MediaRecorder` that throws in its
constructor or when restarted is one that fails at once (`RecorderError`). The server
acts only until the hook closes the socket: afterwards nothing it sends is seen,
and `TranscriptionWs` already says how it ends.

### WhisperRuntime

`at[t]` follows one invocation: reading the device, waiting for the accelerator
lock, `_get_pipeline` with and without its lock, the build in two halves (before
and after `_runtime_device` is set) and the run. `Init` is any state start-up
can leave: loaded, cold, or with the device set by a preload that failed later.

### Documents

`at[r]` is the await or store call a request is at. An upload is named by itself
because it makes up its `doc_id`. `Duplicate` is the unique constraint on
`content_hash`; a blank file makes no chunks and can be listed. `UploadCleanUp`
is the `delete_by_source` of an upload whose commit met a duplicate. A failed
`upsert` is taken to have written nothing. `Crash` ends every running request
and leaves both stores.

### ChatClient, Auth, AppShell and App

`ChatClient`: `messages[i]` is the shape of the message with id `i` and
`stage[r]` the work behind the reply with id `r`: the short timer before it
(`delay`, or `local` for a model without a backend), its fetch (`asked`), the
timer before it is shown (`settle`), the interval that types it (`ticking`). `Cleared` is
`clearScheduledWork`: timers go, fetches do not. A late answer writes
`sessionIdRef` and unlocks the composer whatever conversation is shown by then,
as the code does. A reply is typed in one step; ids are counted, as `Date.now()`
gives them.

`Auth`: `stored` is the token in `localStorage`, `loginForm.wait` the request the
form waits for. The server's accounts are seen through their answers only.
`AppShell`: `recents` is the list of each language, `kept` what `localStorage`
has of the preferences, `welcome` the overlay with its timers, `batch` the
upload whose report is the snackbar. `App` composes the handlers that touch
several parts (`Send`, `Upload`, `StartNewChat`, `OpenRecentChat`,
`FollowFirstMessage`) and reloads the page: what is not stored starts over.

### Composer, Profile, Planner, CompanyData, Desk, DocumentsPanel, CompanyWorkspace and Panels

Each action is one handler of a component, or the answer of a request. `Panels`
mounts one page at a time: `ShowPanel` resets what a panel keeps itself and
leaves what `App`, `localStorage` and the server keep.

* `Composer`: `shownModelId` is the memo `selectedModel`, which the list of
  models is no dependency of. `Profile`: `selectedKey` and `activeKey` are the
  preset on screen and the stored one; `pointer` is `useDragScroll`.
* `Planner`: `Sorted`, `Lanes` (with `Place` as one step of the greedy pass),
  `Clusters` and `ColumnLayout` are the passes of `computeColumnLayout`, over half
  hours of one day; `Height` is `durationToPx`, which decides whether a card can be
  clicked. `LanesFit` is about items that run at the same time: a card stretched to
  `CARD_MIN_HEIGHT`, or one that runs past midnight, may still cover another. The ids that `Map`s are keyed by are numbers: those of the
  server's items come first and differ (`DeskAssumption`), those of new items
  (`Date.now()`) follow in order.
* `CompanyData`: loads are named by a number, which is also the identity of the
  lists they bring; `companies` is 0 before the first. `Desk`: `deskList` is the
  memo `userAppointments`, computed anew when `companies` or `decisions` is
  another object; `personalAppointments` is not among its dependencies.
  `MemoIsFresh` says that it is never stale for that, `PagesAgree` that both pages
  then say the same of an invitation that has an rsvp or was answered.
  `notificationFeed` keeps the newest answers.
* `DocumentsPanel`: `rows` is the server's list, changed by requests that are
  under way; a request is stored and answered in two steps, and each may fail.
  Nothing cancels what is under way when the panel goes: the loop of `handleFiles`
  stores its remaining files (`strayFiles`) and deletions (`strayDeletions`) are
  carried out, or fail, beside the panel's next mount, which does not hear of
  them. `behind` records that the list on screen was overtaken, by these or by
  the panel's own requests, and `upload.overtaken` that such a file came between
  the storing of an upload and its answer.
* `CompanyWorkspace`: an item's id is its position among the server's or a
  number of its own. `CompaniesArrive` replaces the companies by any roster with
  any documents, notes, hypotheses and members (`content`), so a position may name
  another item from then on. `opened` remembers the name that was clicked and the
  server's list at that time, `noteEdit`, `hypForm` and `teamEdit` the entry a form
  was filled from; `urls` are the object URLs alive.

## Runs

| Run | Instance | Shows |
|---|---|---|
| `chat_sessions` | 3 requests, 2 users, 2 sessions, window 3, history limit 4, 1 restart; symmetric | isolation, nothing remembered of failures, durability, read-your-writes, prompt = end of the log in undisturbed sessions, refinement of `ConversationLog` |
| `chat_live` | 2 requests, the same otherwise, fair | every request is answered |
| `chat_rehydrate` (violation) | as `chat_sessions`, one request at a time per session | a rehydration that fails leaves an empty hot buffer: the next chat has no history although the log has it (comment at `chat.py:450-452`) |
| `chat_pipeline` | 1 request of either endpoint, every text of up to 6 of 4 characters, pieces of 1 or 2 | reasoning hidden, nothing visible lost, both endpoints alike, only screened messages answered, memory = delivered answer |
| `transcription_ws` | 1 connection, 3 chunks, 2 in flight, Redis outages | order, nothing lost, cache cleared; sessions end, chunks are answered |
| `live_sessions` | 2 connections, 1 chunk each, 2 starts | no text of another session, types, microphone released |
| `live_one` | 1 connection, 3 segments, 2 in flight, all failures | uploads in order, none left out but those that cannot be read; stopping ends |
| `documents` | 3 uploads, 2 deletions, 2 contents (1 blank), a crash at any time | rows searchable, orphans explained, answers true |
| `whisper_runtime` | 3 threads, an accelerator and a CPU, 5 chunks | exclusive once known, no deadlock |
| `app` | 4 messages, 2 recent chats, 2 files an upload, 1 reload | waits backed by work, one reply at a time, uploads reported truly, grants, both languages alike, first message opens the chat; every wait ends |
| `chat_fresh` (violation) | the chat alone | an answer that comes after "new chat" makes the fresh chat go on in the old session (`frontend/README.md:114`) |
| `panels` | 3 services, 3 models, 1 own preset, 2 invitations and 1 meeting in 2 weeks of 4 slots, 3 loads, a feed of 1, 3 documents, 2 companies with 2 contents, 3 items made | the pages' invariants, refinement of `InviteLedger`; spinners stop |

### Divergences without a run

Four statements of the sources do not hold and are listed as hazards only. The
buffer keeps `max_turns` single turns (`memory.py:25`), not "exchanges"
(`memory.py:12`). The server answers `stop` before it has drained the running
chunks, and the hook closes on the answer, so the last transcripts do not reach
the draft (`frontend/README.md:115`). Threads that come before the first build
of the pipeline run on the accelerator side by side (`runtime.py:43-44`). The
rsvp of an appointment with `invitedBy` "defaults to "pending""
(`companyWorkspace.types.ts:100`), which `useInviteNotifications.ts:37` does and the
desk does not: an invitation that the server lists without an rsvp is pending in
the notifications, while its card on the desk is plain and has no buttons
(`CompanyAppointmentsTab.tsx:699`). `PagesAgree` leaves such invitations out until
they are answered; that they are answered once holds of them too.

Other things the models show hold of the code and no source speaks of them:

* When a load replaces a company's documents or notes, the open document, the
  active note and the closed notes are, without a click, those at the same
  positions of the new list, or none (`DocumentsTabContent.tsx:43-46`,
  `CompanyWorkspacePanel.tsx:182-188`). `OpenedIsMeant` therefore speaks of a
  server's document only while the list is the one that was clicked in.
* An upload whose name was dismissed is not listed again
  (`DocumentsTabContent.tsx:54-55`) and keeps its object URL until the panel goes;
  `UrlsAccounted` counts it among the uploads the panel keeps.
* Files of an upload, and deletions, that outlive their panel change the server
  behind a list that was fetched meanwhile, which is then wrong until it is
  fetched again (`DocumentsPanel.tsx:64-71`).
* A second click on the audio button cuts the chain of uploads under a session
  that is already recording; its segments may then overtake each other
  (`useLiveTranscription.ts:470`).

### Bounds, and why they are enough

* `chat_sessions`: three requests are an exchange, one that overlaps it, and a
  reader of the outcome; two users and two sessions are what isolation needs.
  A window of 3 is odd (an exchange can be cut) and smaller than two exchanges;
  the history limit of 4 is reached by two. One restart separates what a buffer
  knew from what the log knows; a second one adds nothing to an empty memory.
* `chat_pipeline`: six characters hold a whole block and one character beside
  it, every false start of either tag, and a block that never closes. Pieces of
  one or two cut a tag everywhere; /chat feeds the same text as one piece.
* `transcription_ws`: with three chunks and two in flight, a chunk can finish
  before, between and after its neighbours and the handler fills up. One frame
  waits at the server: the handler takes frames one by one.
* `live_sessions`: two sessions are what is needed for one to disturb another;
  one segment each keeps the product small, and `live_one` has three.
* `documents`: three uploads are a document, its duplicate and an unrelated one;
  two deletions can race for one document.
* `whisper_runtime`: one thread builds, one waits for each lock. Five chunks let
  a thread come back after a build has failed.
* `app`: four ids are two questions with their replies, so one conversation can
  disturb the next. `Focuses` makes each behaviour about one topic (the login
  with page loads, the frame, uploads, the chat); what another topic explores is
  then at rest. A bound on the recent chats of 2 with two listed makes every new
  one push one out.
* `panels`: `Tours` make a behaviour use the controls of one page and go between
  it and one other. Parts share no state beyond those pairs. Two invitations are
  one answered on either page; a feed of 1 overflows at the second answer. Three
  loads overlap with an old and a new token, and with a retry. Four half hours
  with three items give chains of overlaps and items that end at the end of the
  day. Three documents are a batch of two and one more, also left behind by an
  earlier mount. Two companies and rosters that lose one or both make a selection
  go. The two contents of the companies shift a position, make a list shorter,
  empty it and fill an empty one.

Deadlock checking is off throughout: all models end when the bounded supply of
requests, frames, chunks, messages or loads is used up.

### Fairness

`chat_live`: weak fairness of each request's own steps. The driver answers or
raises, and the model client has a timeout and a bounded number of retries
(`llm.py`, lines 149-150). No fairness on clients. `transcription_ws`: weak
fairness of the handler (its poll times out and repeats), of every task (the
thread returns or raises) and of expiry; none on the client. `live_one`: the same
for the server, and for the hook's callbacks and typing timer; none for the
user, the speech or the granting of the microphone. `whisper_runtime`: weak
fairness of each thread: a lock that several wait for goes to any of them, and
only the bounded number of chunks makes all of them have it, so starvation under
endless load is not excluded. `app` and `panels`: requests are answered or fail,
and the browser's timers fire; none for what the user does.

## Proofs

| Module | Theorems |
|---|---|
| `ChatSessionsProofs` | `TypeCorrect`, `ConversationsIsolated`, `FailuresLeaveNoTrace`, `AnswersAreDurable`, `HistoryShowsYourWrites`, `PromptsMirrorTheLog`, `Refinement` |
| `ChatPipelineProofs` | `AnswersOnlyScreened`, `RemembersTheAnswer`, `StreamShowsWhatIsVisible`, `EitherEndpointAnswersTheSame` |
| `TranscriptionProofs` | of the server: `WsTypeCorrect`, `NeverTooManyInflight`, `CacheStaysCleared`, `ChunksLeaveInOrder`, `NoChunkIsLost`; of the hook with it: `HookStaysSound`, `SegmentsLeaveInOrder`, `DraftsAreInOrder`, `ServerHoldsUnderHook` |
| `DocumentsProofs` | `TypeCorrect`, `ListedIsSearchable`, `OrphansOnlyByFailure`, `AnswersStayTrue` |
| `WhisperRuntimeProofs` | `TypeCorrect`, `PipelineLoadedOnce`, `AcceleratorTakesTurns` |
| `AppProofs` | of the chat: `ChatTypeCorrect`, `NothingHangsInTheAir`, `RepliesTakeTurns`; of the application: `AppScreenBacked`, `AppRepliesTakeTurns`, `ServerGrants`, `SuccessMeansIndexed`, `FrameStaysSound`, `FirstMessageLeadsToChat` |
| `PanelsProofs` | of the desk: `BothPagesAgree`, `FeedIsTrue`, `LedgerRefinement`, `DayIsLaidOut`; of the pages together: `PanelsRefineDesk`, `InvitesStaySound`, `InvitesAnsweredOnce`, `PlannerStaysLaidOut`, `SettingsTellTheTruth`, `ControlsStaySound`, `ListTellsTheTruth`, `WorkspaceStaysSound` |

`ListProofs` holds only the lemmas that the proofs about lists rest on.

The theorems hold for any numbers of requests, users, sessions, restarts, connections,
chunks, segments, uploads, threads, devices, messages, listed chats, invitations,
loads, documents, presets, models, companies and items, any window, inflight
bound and length of the feed, any text in any pieces, any tags that meet
`TagAssumption`, and any items at any times of a day; the assumptions are the named `ASSUME`s of the
modules, which keep the special values apart from the ordinary ones and say of a
bound that it is a number.

The invariants are not inductive alone:

* **ChatSessions.** `IInv` adds that a new request's session id is fresh until
  its row is committed, that a request past the look-up owns its session, that
  every turn stored anywhere was put there by a request that had reached
  `Record`, that the log holds a request's exchange exactly when its commit is
  behind it, and that an idle request is nowhere. Isolation then follows from
  ownership at the moment of recording, and the refinement from the fact that a
  request in `persist` has no exchange in any log yet. On top of it come two more.
  `HistoryInv` says of a history from the moment its rows are read what the
  property says of its answer; what was answered is final and durable, so the
  log has it. `MirrorInv` says that an undisturbed session has one chat at work,
  and what that chat finds at each await: an empty buffer while it refills it,
  the log with its own exchange ahead while that is committed, else the end of
  the log. That a window filled step by step is the window of the whole
  (`LastNConcat`) is a lemma about sequences.
* **ChatPipeline.** `IInv` adds that a message past the screen was admitted and
  that there is no text before it, and that the answer does not change once it
  is recorded; these need nothing of the tags or the filter.
  `StreamInv` does: it says that the filter always stands at a cut of the model's
  text (`Cut`). What is before the cut has been released as far as it is visible,
  what is after it is the buffer, no tag that matters begins before the cut and
  reaches behind it (`Clean`), and between two pieces the buffer is a strict
  prefix of the tag that is waited for (`Settled`). A round of the loop moves the
  cut (`ScanCut`), `Len(buffer)` rounds are enough to settle it (`RoundsCut`), and a new
  piece leaves it where it is (`FeedCut`). Then the stream has shown what is
  visible, less than a tag behind (`CutShows`). `/chat`, which feeds the whole text at
  once, ends at the same cut (`FilterOfWhole`), so both endpoints hand the same
  answer to the output guard.
* **TranscriptionWs.** `WsInv` adds that every task at work is one the handler
  waits for, that there are none before authentication, that a handler which has
  returned has drained them, and that wherever the handler may read on there is
  room for one more chunk. The last gives the bound on running transcriptions,
  the others that nobody writes a chunk state after the clearing. A count of
  what is on the wire keeps chunk numbers within the model's bound. `OrderInv`
  adds that a chunk is finished before it waits for its turn, that what was sent
  lies below the next turn, that no chunk below it was passed over, and that
  nobody is taken for gone who is there: what a client that stays has not got is
  then at work or waiting.
* **LiveTranscription.** `HookInv` tells where each segment is. The segments of a
  session are chained in the order they were recorded, none left out
  (`JobsInOrder`); a session that was not displaced and whose socket is open holds
  the refs, so all its jobs are on the chain of the moment, which was not cut
  since the first of them (`Chains`), and they run in turn: what has run is a
  beginning of what was chained, and was sent or lost (`SentHolds`). Besides, a
  recorder that runs has room for one more
  (`RoomToRecord`); the server has no more audio than was sent (`OnTheWire`); and
  what is typed and queued is one session's, rising (`DraftHolds`). Every step of
  the hook is a step of some client to the server (or none), so the server's
  invariants carry over (`ServerHoldsUnderHook`).
* **Documents.** `IInv` adds that a deletion past its look-up has a target, that
  an upload with text past its upsert has chunks unless a deletion of it is at
  work, and that a deletion past its first half removed them or warned.
* **WhisperRuntime.** `IInv` adds that the pipeline is unset while a thread
  builds it, and that a running thread which is not `cold` holds the
  accelerator lock.
* **ChatClient.** `ChatInv` adds that nothing hangs on an id that was not handed
  out yet, and that work is never behind a picture, so a reply that settles
  cannot overwrite one and leave its URL behind.
* **App.** The frame's `FrameInv` (`ViewsTyped`, `StorageSound`, `RecentsSound`,
  `BatchHonest`) is kept by four kinds of step that the handlers are reduced to
  first; `BatchHonest` adds that a file that is counted as uploaded is indexed and
  that no file is counted twice. The login's `AuthInv` adds that a form which waits
  for the user's own data waits for an account that exists on the server. `App` then takes the parts' steps or
  leaves them alone, and a page load starts them over.
* **Desk.** `DeskInv` adds that no two loads have one name and none that of the
  lists on screen. So lists that change come as another object, and the memo,
  which depends on `companies` and not on the appointments, still sees every
  change of them; without that, `MemoIsFresh`, from which `PagesAgree` follows, is
  not inductive. The buttons of
  both pages are then there for open invitations only (`AnswersOpenOnly`), from
  which the feed and the ledger follow.
* **Planner.** `PlannerInv` adds that the form is open only while there is room,
  and that ids of new items count up behind the server's; so what is on screen
  has no id twice (`OfOneDay`), which is all `LayoutFits` needs of it. That lemma goes
  through the passes of the code: ranks give a permutation that sorts the items
  by start (`SortedIs`); after each step of the greedy pass, items of one lane follow
  one another and an item in lane c runs, as it starts, beside one in each lane
  before c (`LaidWell`, kept by `PlaceKeeps`); items of which one runs when the other
  starts are of one cluster, with all between them (`ClustersJoin`). So the width
  of a cluster, the highest lane in it, is reached by items that run at one time
  (`ManyRun`).
* **Profile.** `SettingsInv` adds that a preset's id was given out once and never
  again, also the one `localStorage` remembers: a preset that is deleted while it
  is selected cannot come back under another's values.
* **Composer.** `ControlsInv` adds that of the wizard the questions before the one
  shown are answered, that one menu is open at a time, and that no service is
  listed twice, so removing one closes what belongs to it.
* **DocumentsPanel.** `ListInv` relates the server's rows to the list on screen at
  every moment: the rows are the list without what is deleted already, under the
  file that is stored and not answered yet (`RowsToCome`); an answer that has not
  grown old is what the server has; a new file is not anywhere yet; and one that
  is stored is on top of the rows, unless a file of an earlier mount came after it
  (`StoredOnTop`).
* **CompanyWorkspace.** `WorkspaceInv` adds that ids of the user's own items count
  up and differ from the server's, that the URLs known are those of the uploads,
  that an open document stands at its position of the list it was clicked in, less
  what was dismissed, that an active note of the user's own exists, and that an
  entry under edit is one of the list.
* **Panels.** Every step of the application is a step of a part, its panel's
  coming or going, or leaves the part alone (`PanelsStepIsParts`), so each part's
  invariant holds in the application, which implements `DeskSpec` and inherits
  its ledger.

Induction over data is done for sets: `SetInduction` says that a set which has 0
and each successor has every number. With it `RecursionExists` gives a recursive
function on `0..n` its equations, and the proofs tell what such a function yields
by induction on the length of a list or a text: `Keeping` of `Lists`, `FilesUpTo` of
`CompanyWorkspace`, `Rounds` and `Visible` of `ThinkBlockFilter`, `Laid` and `Clusters` of
`Planner`. Definitions a theorem depends on are recursive functions for that
reason, never recursive operators.

Only model-checked is liveness (`EveryRequestEnds`, `SessionEnds`,
`EveryChunkAnswered`, `StopEnds`, `EveryChunkEnds`, `WaitsEnd`, `SpinnersStop`), which is
outside what these provers do. Every invariant and every other property of the
passing runs is stated by a theorem.

## Not modelled

* Rate limiting: one deque of times per user, without an await inside a call.
* Accounts on the server: hashing and tokens are library work. Two
  registrations of one address race for the unique constraint, which is listed
  as a hazard; `Auth` sees the answers.
* Ingestion: a library's text splitter and parsers; `Documents` sees whether a
  file has any chunk.
* The dashboard's weather widget and charts, the overview and portfolio views of
  the workspace, layout, styles and texts: one user's choice of what to see,
  without requests or anything kept.
* The planner inside the workspace (its copy on the desk is modelled), assignees
  of a meeting, pointer handling of the drum wheel, print and download.
* Cryptography, file formats, embeddings, speech and language models: their
  outcome is nondeterministic where a model uses it.
* Configuration, start-up, migrations and scripts: sequential. The part of
  start-up that rebuilds the memory is `Restart` of `ChatSessions`, the preload
  is `Init` of `WhisperRuntime`.

## Plan

1. The rate limiter as a function over times against "at most `max_requests` in
   any window", and accounts with concurrent registrations.
2. The chat client composed with `ChatSessions`, so that what is on screen is
   compared with the log.
3. The planner inside the workspace, over the tab's own list of items.
