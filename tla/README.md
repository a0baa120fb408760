# A TLA+ model of cthulhu

cthulhu runs a resin printer from the browser. A server (`apps/server`) holds
the one SDCP connection a printer allows, keeps what it learns in a store, and
serves it to the web pages (`apps/web`) over REST and a WebSocket. A camera
service (`apps/camera`) takes pictures and assembles time-lapses. This directory
models that program in TLA+; TLC checks the models on small instances, and
TLAPS proves what matters most for every instance.

## The system

| Component | State it keeps | Operations | Talks to |
|---|---|---|---|
| `PrinterStore` (store.ts) | the view, last print status, last task id | `applyStatus`, `applyAttributes`, `setConnection` | emits `printStarted`, `printSeenFinished`, `printFinished`, `update` |
| `PrinterService` (printer.ts) | the client | `resolve`, `start`, `stop` | installs the handlers that write history and notify |
| `SdcpClient` (sdcp/client.ts) | socket, pending requests, reconnect timer and delay, last status | `connect`, `close`, `send` and the commands built on it, message handler, timers | the printer, over one WebSocket |
| `SqliteHistory`, `PostgresHistory` | the `prints` table | `startPrint`, `finishPrint`, `recordFinished`, `list` | called by the handlers and by the stop route |
| REST routes (app.ts) | one upload in flight | stop, pause, resume, print, delete, upload and cancel, magic send, camera and time-lapse routes | client, store, history, camera |
| `uploadFile` (sdcp/files.ts), `confirmUploaded` | offset, abort | packets over HTTP, wait for the printer's verdict | the printer's HTTP port and its error events |
| `CameraProxy`, `LatestFrame` (packages/camera) | viewers, the upstream, the opening; the last frame | `addViewer`, a viewer's close, `drop`, the stall timer, `close`; `push`, `latest` | ffmpeg or HTTP, the video lease |
| `VideoLease`, `resolveVideoUrl` | number of holders | `acquire`, `release`, enable, disable | the printer's video switch (Cmd 386) |
| Camera service (apps/camera) | holds by id, one `TimelapseStore` | `/start`, `/frame`, `/finish`, `DELETE`, `/video` | the printer's RTSP stream, disk, ffmpeg |
| `TimelapseRecorder`, `TimelapseArchiver` (server) | current recording; one pass at a time | per-layer frame, finish; download, rename, delete at the camera | camera service, archive directory |
| `PrintView`, `FileMetaCache` | the file of the current print, on disk; the details and previews of files | `prepare`, `layer`, `thumbnail`; `meta`, `preview` | the printer's HTTP port, disk |
| Pages (Files.tsx, Layer.tsx, Lightbox.tsx) | the list and one message; object URLs with their pins | upload, cancel, print, delete; load a layer, open the lightbox | the REST routes |
| Status socket and web client (ws.ts, useStatus.ts) | connected pages; socket and retry timer | push on update; connect, retry, poll | each other |
| `goo` decoding, byte ranges, file list, paths, migration | none | one function each | - |
| Fake printer | job, status, files | SDCP commands, uploads | stands for the printer in tests; read here for what the printer does |

What is hard in it: the printer runs by itself and can be started and stopped
at its own touchscreen; the link drops, and either end restarts, at any moment,
and only the history table survives; requests are answered late, out of order
or never; several handlers read state before an `await` and act on it after;
Postgres writes are started and not awaited; the camera and the video stream
are shared by reference counts whose last release races the next acquire.

PROJECT.json lists each hazard at its line, with the properties that watch it.

What makes each part correct:

- History: one open row per print at most; a row is settled once, and says
  `complete` only of a print the printer completed; a print seen is recorded.
- Notifications: one per completion, after the history knows it.
- Camera proxy: one upstream, served to whoever watches, given back when nobody
  does, whatever fails in between.
- Video lease: the printer counts one enable while anybody uses the stream, and
  none when nobody does.
- Time-lapses: a frame that was taken is never lost, and is in the video.
- Archive: a copy of a video is deleted after the other one is whole.
- Client: one socket at most, and always one or a timer that will make one; a
  request ends, whatever becomes of the connection.
- Upload: one at a time, packet by packet in step with the printer, and `done`
  only of a file that is all there, listed and not refused.
- Page: it always has a source of views, and shows the printer's in the end.
- Connection: whoever is pinned is tried again for ever; the store says
  connected only while a socket lives.
- Print file: the one of the current print is on disk while it is promised; the
  picture of its layer is there while it is looked at, and gone afterwards.
- Files: what the page lists is what the printer holds; what is cached of a
  file is of that file, and whole.
- Algorithms: each computes what its caller takes it for.

## The modules

| Module | Models | Builds on |
|---|---|---|
| `PrintHistory` | `history.ts`: the table and the three writes, as operators | |
| `PrintLedger` | what any history promises its readers (abstract) | `PrintHistory` |
| `PrintTracking` | printer, link, process, `store.ts`, the handlers of `printer.ts`, the stop route | `PrintHistory` |
| `PostgresHistory` | the same with the statements of `postgres-history.ts` | `PrintTracking` |
| `CameraProxy` | `packages/camera/src/proxy.ts` with the stream route | |
| `TimelapseRecorder` | `timelapse.ts` of the server, with its requests in flight | |
| `VideoLease` | `video-lease.ts` and its wiring in `index.ts` | `CameraProxy`, `TimelapseRecorder` |
| `CameraService` | the time-lapse routes and the store of `apps/camera` | `TimelapseRecorder` |
| `Archiver` | `timelapse-archive.ts`: the server's passes over finished videos | `CameraService` |
| `SdcpClient` | `sdcp/client.ts`: sockets, requests, heartbeat, reconnection | |
| `PrinterService` | `printer.ts` with `discovery.ts`: search, start, stop, and what the store is told of the connection | `SdcpClient` |
| `Upload` | upload, cancel and magic send of `app.ts`, `uploadFile`, `confirmUploaded`, and the printer's end of them | |
| `StatusFeed` | `ws.ts` of the server and `useStatus.ts` of the page | |
| `PrintView` | `print-view.ts`, its wiring in `index.ts`, the layer route | |
| `LayerPage` | `Layer.tsx` and `Lightbox.tsx` of the page | `PrintView` |
| `FileCache` | `file-meta.ts` and the files it is about | |
| `FilesPage` | `Files.tsx` and the routes for printing, deleting and cancelling | `FileCache` |
| `GooLayers` | `layers.ts`: the layer table and the run-length layers, as operators | |
| `Calculations` | `range.ts`, `file-list.ts`, `printer-media.ts`, `progressPercent`, each beside what it should compute | `GooLayers` |
| `ByteStreams` | `deliver` of `proxy.ts` and `latest-frame.ts`, over streams cut in chunks | |
| `HistoryMigration` | `migrate-history.ts`: passes from SQLite to Postgres beside both servers | |
| `PrintTracking_proofs` | theorems about PrintTracking and PostgresHistory, and lemmas about PrintHistory | `PostgresHistory` |
| `VideoLease_proofs` | theorems about VideoLease and the CameraProxy in it | `VideoLease` |
| `Archiver_proofs`, `Upload_proofs` | theorems | the module each is named after |
| `SdcpClient_proofs` | theorems about SdcpClient and PrinterService | `PrinterService` |
| `LayerPage_proofs` | theorems about LayerPage and PrintView | `LayerPage` |
| `Pages_proofs` | theorems about StatusFeed, FileCache and FilesPage | `StatusFeed`, `FilesPage` |
| `Calculations_proofs` | theorems about Calculations, ByteStreams and HistoryMigration | those three |
| `MCParts` | small instances of four parts, one moving at a time | `Upload`, `Calculations`, `ByteStreams`, `HistoryMigration` |
| `MCConnections` | small instances of three parts that keep a connection, one moving at a time, with its fairness | `StatusFeed`, `CameraProxy`, `PrinterService` |
| other `MC*` | symmetry sets for the runs | the module each is named after |

Definitions named *faulty variants* belong to no specification: each is a way
the code could be wrong, and some property fails when it takes the place of the
definition it varies. `PROJECT.json` pairs them up ("mutants").

### Print tracking

The printer runs prints by itself (`PrinterStart`, `PrinterComplete`, ...). It
pushes status frames onto the one WebSocket (`wire`), which may close under both
ends, losing what is on it. `DeliverStatus` is `handleMessage` with everything
it calls: `applyStatus` compares the frame with `lastTask` and `lastStatus`,
decides among `printStarted`, `printSeenFinished` and `printFinished` (`Starts`,
`EndsUnseen`, `Finishes`), and the handlers write the history and notify. All of
it is synchronous with `SqliteHistory`, and so is one action. `ServerDown` keeps
nothing but the table. The stop route is three actions: the request, its
acknowledgement, and what follows the `await`, which reads the task id only
then. Frames that arrive together are handed over in one loop, before that
continuation runs, so `DeliverStatus` does not wait for `StopDone`.

Status codes are grouped as the code tells them apart. What a real printer does
- relabel a job that is over as Stopped, blank the task id hours later, lose
power - is external, after the README's observations and the fake printer.

`PostgresHistory` replaces the history calls: the handlers do not await them, so
a call is a record that goes through its SELECTs and its write one statement at
a time, interleaved with other calls, frames and the shutdown. A statement may
fail, which rejects a promise nobody handles and ends the process; when the
process ends, a statement has taken effect or is lost.

### Camera and video

`CameraProxy` has a phase for every viewer (one PassThrough, with the request it
was made for) beside the set the class itself keeps, because the two differ
exactly where it goes wrong. `ensureUpstream` is `AddViewer`, `Activated` and
`Opened` or `OpenFails`, with anything in between; `drop`, the stall timer and a
viewer's `close` event are actions. The end of a stream that was aborted
arrives at any later time (`aborted`).

`VideoLease` composes the proxy with the recorder: a step of the proxy that
calls `onActive` or `onIdle` is joined with `Acquire` or `Release`
(`ProxyStep`), and so are the recorder's start and the settling of its finish
request. The printer's count of enables, the link the command goes over, power
cycles, crashes and `shutdown` are there because the lease knows nothing of
them; `unpaired` records which of them has come between.

`CameraService` receives the recorder's requests in any order, or not at all.
One request is handled in one action: in this service opening the upstream only
spawns a process, so `addViewer` resolves before another request is read. The
time-lapse on disk is its state file, its frames and its video; what `finish`
does after ffmpeg is a list of steps (`AssembledSteps`) that a crash may cut
anywhere. `CameraNext` is what the service and the recorder do by themselves;
deletion and a restart of the server are joined with the archiver's steps.

`Archiver` adds the server's pass: one at a time (`running`), over the list as
it was when fetched, each entry downloaded, named, noted and deleted with the
camera service at work between any two of these steps. A video is the set of
its frames, and its size tells it from any other; a download that is cut short
looks complete until its size is compared. A restart of the server forgets the
pass and not the share. A single file is written and renamed in one action. A
second recording under an archived id is neither archived nor deleted, and so
not lost either.

### The SDCP client

Each socket of `SdcpClient` is "connecting", "open", then "failing" (lost, and
its `close` event still to come) or "closing" (`close()` was called), and in the
end "gone". Names are used again after that, so that two sockets and three
requests stand for any number. `send`, `open`, `error`, `close`, the answers and
the two timers are the actions; `open` includes the two refreshes that
`PrinterService.start` asks for. What the model shows is how an overlap could
come about at all: only if a timer were set while a socket is not gone.

`PrinterService` puts the service around it. Until the search is over its client
is one that is closed; `SearchEnds`, `SearchFails` and `NoSearch` are the three
ways for `resolve` to go on, and the client's `open`, `close` and `attributes`
events are joined with the listeners the service puts on them. `stop` may come
at any moment; during the search it finds no client, and `start` then makes one
that nobody closes any more - the process usually ends first.

### Uploads

`Upload` has the two connections of an upload, which nothing orders: packets and
their answers over HTTP, and over the WebSocket the list, the status frames and
the errors. The printer's end follows the fake printer (server.ts:206-307):
packets are put together by offset, and answered before the whole is checked;
then the file is listed or an error pushed. What happens to two transfers at a
time is where the two printers differ. The fake one keeps each under its uuid;
the real one is said to have a single place to put them together, where they
"interleave and corrupt each other" (app.ts:406-408, 623-626). `PacketArrives`
lets either printer be there: a packet that meets another transfer under way
may leave it alone, be mixed up with it (`mixed`), and take its place. What was
mixed up is never accepted as a file (`Accepts`). That the guard keeps two
uploads apart is then something to check, `UploadsStayApart`, a part of
`TransfersAgree`; that a Magic File and an upload are not kept apart is a run of
its own, `transfers_meet`.

Locals of a request are forgotten when it ends; a cancelled upload and a failed
one differ in the reply only. Three things of the code are worth knowing when
reading it: a cancel after the last packet goes unnoticed, and the upload may
still be answered `done`; an error is taken by every upload that is waiting,
whoever's it is; and a file of a name that is listed already may be confirmed
before the printer has checked the new one, if no status frame said
FileTransferring in time. `postPacket` has no
timeout of its own; that a posted packet is answered or fails is assumed of the
network. A restart of the server is left out: it ends the requests, and the
printer's partial file with them.

### The page

`StatusFeed` is one page. A view is its version. A connection that fails fires
`error` and then `close`, each of which calls `fallBack` and sets a retry timer;
the next may overlap with those, so a page can have several sockets, and the
unmount knows only the last timer and the last socket. `ws.ts` sends the current
view on connection and then every update; the poll's answers arrive at any time
and are dropped while a socket is open. If the constructor of the socket throws,
there are no more retries, and polling goes on.

### The print being shown

`PrintView` has one download per print, each at its own stage, all in one
directory: that is where they meet. `Clears` removes one of the names that were
read before (`Removed`), a step for each, so that another download may write or
be read in between. A restart
keeps the directory and forgets the rest. `LayerAnswer` is what the layer route
says at the moment it is asked; the page gets it later.

`LayerPage` numbers the runs of the page's effect; a run loads one picture at
most, and its number names the object URL. The page's states are what is
rendered, later, by `Rerenders`. The lightbox shows the picture that was on the
page when it was opened, pins it, and loads a bigger one beside it.

### Files

`FileCache` makes the two requests of a load separate actions, since the file
may be replaced between them, and lets a kill cut the two writes of an entry
anywhere (`CutShort`). `FilesPage` is one page: one operation at a time, of
which the answers and the reading of the list are steps, a cancellation beside
an upload, and the list it asked for on opening, which may come at any time. How
an upload ends is `Upload`'s; here it ends in any of those ways. For each list,
the one shown and the two that may have been read and not shown yet, `missed`
records the worst that has happened to it since it was read: a change by this
page's own operation, one by others, or, of the list from the opening, that it
was shown without a change of the page's own ("late"). `ListIsRight` excepts the
last two by name; `OwnChangesAreShown`, which does not except the late list, is
violated.

### What keeps no state

`Calculations` has each algorithm as an operator and beside it what it should
compute, written differently: the bytes a range asks for as a set, a cell of a
layer as the mean of its pixels, a listing as a set of files. `MCParts`
takes one input for each state. Files of layers are those a slicer writes, with
lengths in more bytes than needed and steps where they can be; one byte of them
may have changed. A layer's definition may not end where it should, and a folder
of the printer may be unread: refused, answered without a list, or with what is
in the other storage. Names without a leading slash, for which `file-list.ts`
has a fallback (62-68) and which the printer does not give, are left out.
`ByteStreams` feeds every stream of `MaxStream` symbols, in
every way to cut it, to `deliver` and to `LatestFrame`. Symbols are the bytes
that matter; the markers are shorter than the code's and overlap themselves
like those (`--` in `--frame`). Loops are recursive functions, never recursive
operators, so that they can be proved about.

### The migration

`HistoryMigration` has the two tables, to which both servers add rows at any
time, and one pass at a time: it reads the old table (`Begin`), then asks the
new one which tasks (`ReadTasks`) and which starts (`ReadStarts`) it has, and
takes the rows one by one (`SkipRow`, `CopyRow`). It may stop after any statement
and be run again. Of a row there is what identifies it and no server changes.
`copied` and `migrated` are history: which rows passes brought, and how far the
last one to finish had read.

## The runs

| Run | Bounds | Shows |
|---|---|---|
| `tracking` | 2 prints, 2 messages on the wire, 1 stop | one open row per print, true completions, notifications that are single and justified, every print that is shown recorded; PrintTracking implements PrintLedger; a completed print is settled in the end |
| `postgres` | 2 prints, 1 message, 1 stop, 2 calls at once | what Postgres history still guarantees; it implements the same ledger |
| `connections` | 3 sockets of the page, 2 versions, 3 retry timers; 3 viewers, 3 upstreams; 2 sockets of the client, 3 requests, delays 1 to 6, 2 printers | a page is fed, quiet after its unmount, and up to date in the end; the proxy's one upstream serves whoever watches and the slot is free in the end; one socket to the printer, never stranded; every request ends; the store's word on the connection is true; a pinned printer is tried for ever |
| `lease` | 2 viewers, 2 upstreams, 2 prints, 3 updates per process | the lease is held for its users and for failed openings; the printer's stream is on and off with its users, but for those and lost commands; never off under a user |
| `archive` | 2 time-lapses, 4 updates | frames are kept; ready videos are whole; what is finished is not reopened; none is lost on its way to the archive, which shows whole ones only |
| `pictures` | 2 prints, 3 layers, 1 restart | the file stays while it is needed; what is shown exists, nothing leaks, and layers go forward |
| `files` | 1 file, 3 contents (two of one size), 2 requests, 4 events | cache entries are whole and of their file; the list, but for a late first one, and the message are right in the end |
| `parts` | 2 uploads and a magic send, 2 packets, 2 messages on the wire; 80,000 inputs; streams of 9 symbols in chunks of up to 4; tables of 2 and 3 rows | one upload at a time, both ends agree on what was sent if the printer has not mixed it up, which happens to no two uploads, `done` is justified; the algorithms agree with what they should compute; a viewer joins at a part and frames are whole; the migration brings every print, once |
| `migration_overlap` | as the migration in `parts` | violation: see below |
| `print_view_lost` | as `pictures` | violation: see below |
| `transfers_meet` | 1 upload and a magic send, 2 packets, 1 message | violation: see below |
| `list_overwritten` | 1 file, 3 contents, 1 request, 2 events | violation: see below |

A property of these may be a conjunction of named parts, such as
`TrackingIsRight`, `CopiedExactlyOnce` or `TransfersAgree`; the parts are stated one
by one in the modules. `parts` is one run of four modules that share no
variable: from a common initial state one of them moves and the others stand
still (`PartsNext`), which visits the states of each and none of their product.
`connections` is built the same way of three, each of which keeps its fairness
for when it is the one that moves (`ConnectionsFairness`).

Restarts and link drops are not bounded anywhere: they return to states already
seen. Two prints are enough for one to be taken for another; two messages, for
a frame to wait behind an acknowledgement, and for the print to change between
a stop's answer and what follows it; two calls, for one to overtake another.
Three upstreams let a late end meet the second of two successors. Three updates
suffice the lease to start a recording, replace it, and end it while the first
finish is out; four updates let the service see the last lift of one print after
another's first, and a second video be made of an id while the first is on its
way to the archive. Two sockets are enough for a second beside a first, and
a third could only come of those; delays of 1 to 6 pass through doubling and the
cap. Two packets are a first and a last; two uploads of one name and a magic
send make every pair of transfers that can meet, and two messages let an error
stand before or behind a list. Three sockets and three timers of the page are
what two failures in a row, each scheduling two retries, leave behind. Three layers fill
the page's two places and ask for a third; two prints let one download clear the
directory of another, and one restart lets it find what the last process left.
Two contents of one size and one of another make both kinds of replacement, and
four events are an upload, a replacement and a kill with a request to meet them.
Streams of nine symbols hold three boundaries of three, or two whole frames and one
left open;
`MaxPending` is 5 there, so that an open frame is dropped now and then. Layers
have up to three runs in images of 12, 20 and 30 pixels at scales that do and do
not divide them. Two rows of the old table let a pass stop between them, and be of one
task; three of the new one hold those and one that a server records meanwhile,
before or after the pass asks; one start and two tasks, with rows that have
neither, make every kind of key meet every other.

The runs of `tracking` and `postgres` check for deadlock. The others do not:
viewers, updates, uploads, layers and versions are used once, inputs lead
nowhere, streams and tables are full in the end, and a client that was closed or a page that was unmounted rests.

The type invariants are not among the runs' properties, where a property they
would only restate costs a run: they are part of the inductive invariants that
are proved. Each inductive invariant was checked by TLC, as an invariant of the
run of its module, before it was proved.

Fairness is assumed in two passing runs, of each part of `connections` for itself.

- `tracking`: the process is restarted by its supervisor; the client retries
  for ever (`scheduleReconnect`), so a link that can open again and again does;
  the printer repeats its status and an open link hands over what is on it, both
  strongly fair, since drops may interrupt them time and again but not for ever
  before the first frame.
- `connections`, the proxy: `Leave` is fair, since the claim is about what happens when people
  stop watching; a stream that was ended emits `close`; onActive and
  openUpstream settle (both have timeouts).
- `connections`, the service: the search ends (it has a timer, and its errors end it too), a
  timer that is set fires, and a lost connection emits `close`.
- `connections`, the page: the interval fires; one poll or another is answered while no socket is
  open, and what is on an open socket is read (strongly fair, since a failure
  may come first, but not every time).

Nothing is assumed of people or of failures.

## Disagreements between the code and what is said of it

Four have a run that finds them (`expect: violation`) and an entry under
"findings". `print_view_lost`: a download waits for the details of its print and then removes
every file of the directory that is not its own; when the details come late, that
is the file of the next print, which is ready and is never fetched again
(print-view.ts:162; the comment at 161 calls it stale). `migration_overlap`: the
tasks that are in Postgres are read once, before the first row, so that a row
whose task the new server records after that is copied beside it
(migrate-history.ts:71), where the header promises that such a row is skipped,
"a second pass while the old and new servers overlap, say"
(migrate-history.ts:16-18). What does hold, `NothingTwice`, says so: nothing is
copied that was there when the pass began. `transfers_meet`: the magic send asks
whether an upload is in flight and does not say that it is a transfer itself, so
an upload, or a second magic send, may begin during it, and a printer that has
one place to put transfers together mixes the two (app.ts:627; the comment at
623-626 says that it shares the guard, and integration.test.ts:349-350 that two
transfers share one slot). What does hold is `TransfersAgree`. `list_overwritten`:
the page shows the list it asked for on opening whenever that comes, also after
the one it read when an upload or a deletion had ended, and what it uploaded is
not on it until the page is opened again (Files.tsx:79-90; 131-135 says why the
list must not stay stale). What does hold is `ListIsRight`.

The models have more behaviours of the kind, without a run of their own.

History and notifications:

- an earlier print's open row is not closed by `finishPrint`, which closes only
  that task's rows (history.ts:121; README.md:193 says it closes whichever is
  open);
- a Postgres call that waits for its SELECT when `close()` ends the pool goes on
  to a query that is rejected (postgres-history.ts:65), where history.ts:71
  says that a write after close is a no-op (`ProcessEnds`);
- a failed Postgres statement rejects a promise nobody handles and ends the
  process (printer.ts:122; index.ts:36-37 would have it go on);
- a Postgres `finishPrint` may overtake `startPrint`'s INSERT, and the row stays
  open (printer.ts:130; postgres-history.ts:25-28);
- a print that ended while the link was down is announced (store.ts:274), which
  the comment at store.ts:126-128 says nobody wants;
- a print watched, then stopped at the touchscreen, stays `printing`
  (store.ts:257);
- `migrateRows` copies a row that has neither a task nor a start again on every
  pass, though migrate-history.ts:16 calls it idempotent (`CopiedOnce` and
  `NothingTwice` except it), and of several rows of one task it copies the first
  only (`AllCopied` asks for a row of each key, not for each row).

Camera and time-lapses:

- a viewer whose opening failed is counted for ever: nothing ends its
  PassThrough, and a later upstream stays open when nobody watches
  (proxy.ts:90; 55-57 says that it must be dropped). `KeptForAReason` names it
  as the third reason, and `SlotIsReleased` excepts it;
- `shutdown` stops the printer's client first, so that the lease's disable has
  nothing to go through; every restart while somebody watches leaves an enable
  behind (index.ts:213; video-lease.ts:4-9 says they pair up). A command that
  finds the link down is swallowed (video-lease.ts:25, 31). The part of
  `LeaseIsExact` on the printer's count excepts both by `unpaired`;
- `LatestFrame` loses a frame whose first marker is cut in two by the chunks
  (latest-frame.ts:22-24): the frame it has is always a whole one, not always
  the latest;
- `GET /api/timelapses` reads the archive before it awaits the camera service,
  so that one that is archived in between is in neither list (app.ts:330);
- an opening that fails after `onActive` never calls `onIdle` (proxy.ts:110):
  the lease is held for good by somebody who does not use it, and the printer's
  stream stays on when nobody watches, where video-lease.ts:4-9 has it off.
  `PaidOncePlusFailures` states the price at the proxy, `LeaseCountsUsers` at the
  lease, one holder for each failed opening, and `OffWhenUnused` at the printer,
  which counts one stream for good once any opening has failed;
- a frame that arrives after `finish` is refused (timelapse.ts:51), or makes a
  finished time-lapse hold the stream again (service.ts:129), and no further
  finish comes to release it;

Uploads, connection and pages:

- `confirmUploaded` waits for as long as the last status says FileTransferring,
  also when the WebSocket has closed on that status and stays closed: the upload
  then has no end, and every later one is answered 409 (client.ts:600; 581-582
  says the machine cannot stay in that state indefinitely);
- `stop` during the search does not keep `start` from connecting
  (printer.ts:83); and after a reconnection to a printer found without an id the
  store is given none, where it had one (printer.ts:110);
- a connection of the page that fails schedules two retries; when one of the
  two sockets closes, `live` is false beside one that is open
  (useStatus.ts:112; 16 says what `live` means);
- the page may go on saying that the print file is being fetched when nobody
  asks any more: after the body of a 202 a run does not look whether it is
  still live (Layer.tsx:74; 32-33);
- a download that failed is not tried again until the server restarts
  (print-view.ts:88-98);
- a file replaced by another of its size is served from the cache as the old
  one, and one replaced between the HEAD and the GET is kept under the size of
  the old one (file-meta.ts:65-66; 27-28 says it is read afresh). `ReadAfresh`
  states what remains;
- two requests may write one entry, and a kill during the second leaves half a
  picture beside whole details (file-meta.ts:87): `WholeEntry` excepts it;
- a row of the Files page does not fetch the details and preview of a file that
  was uploaded again (they go by the path); a delete that was obeyed and not
  answered leaves its file in the list (Files.tsx:152), which `ListIsRight` excepts
  among what others changed; a cancellation that is answered late can hide the
  failure of the next upload (Files.tsx:124); Delete stays armed for a row that
  vanishes and comes back;
- a re-upload may be confirmed by the old file's entry (client.ts:563-565 says
  only once the printer has finished with it).

## What is proved

Each theorem holds for every set of tasks, viewers, sockets, requests, uploads,
files and prints, for every input, and for every bound. The assumptions are named
in the modules that declare the constants, and TLC evaluates them on every run:
bounds are natural numbers (`MaxStreams`, `MaxVersion`, `Packets` and `MinDelay`
at least 1, `MinDelay <= MaxDelay`); the values that stand for "none" (`NoTask`,
`NoSocket`, `NoPageSocket`, `NoUpload`, `NoFile`, `NoEntry`, `None`, `Null`, `Invalid`) are none of
the things they stand in for; magic sends are not uploads; every content has a
size; the first line of a part is not empty; and what is computed has the types
the callers give it (`Inputs`). Each safety
argument is the same: an invariant that every step keeps, one lemma for each
kind of step. Below is, for each module, why the property alone is not
inductive and what is added.

- `PrintTracking_proofs`: `TypeCorrect`, `NoDuplicateOpenRow`,
  `CompletionsAreTrue`. By themselves `OneOpenRowPerTask` and `CompleteIsTrue`
  allow a frame to claim a completion that never was, or an idle printer a task.
  `IInv` adds that the printer's task and fate agree (`PrinterInv`), that every
  frame in flight was true when sent and still is (`WireInv`: a fate that is
  over does not change), and that rows belong to tasks (`RowTasksInv`). What the
  three history operators do to any table is stated once, in the lemmas the
  module begins with. `TrackingCorrect` proves `TrackingIsRight`. `TInv` adds
  that no print is reported stopped while it runs (`KnownInv`), and what keeps
  the phone from buzzing twice: the reports of one completion are consecutive on
  the wire (`OrderInv`), and once this process has gone on to another report no
  completion of that print is still to come (`NotifiedInv`).
  `LedgerImplemented`: the tracking implements the ledger. It rests on
  `RecordedOneStep`: the calls of one frame together change at most one row, as a
  frame that starts a print cannot finish it, and what `recordFinished` has
  settled `finishPrint` does not find.
  For PostgresHistory over it, `PgTypeCorrect`, `InsertsAreFirst`, `PgTableIsSound`
  and `PgLedgerImplemented`, for any number of unawaited calls that overlap,
  fail or are lost. A call decides on an answer and acts on it later, so `PgIInv`
  says that the answer is still true when the call goes by it (`AnswerIsTrue`).
  That needs `OneMayInsert`: no two calls that may insert are about one task. It
  holds because a task does not come back once another was reported: on the wire
  (`ReportsInOrder`), past the calls under way (`CallsArePast`), and at the
  printer, which begins only prints it has not had (`ReportsAreKnown`). Each
  statement then writes what one operation of `PrintHistory` writes, or nothing,
  and the lemmas about those operations do the rest.
- `VideoLease_proofs`. For CameraProxy, `ProxyTypeCorrect`,
  `OneUpstreamAtATime`, `EveryViewerIsServed`, `PaidForViewers`:
  `ProxyIInv` adds that an opening has no upstream beside it and somebody who
  waits (`OpeningForAWaiter`), and that the viewers counted are those that came
  and have not closed (`ViewersAreHere`). For VideoLease over it,
  `LeaseTypeCorrect`, `LeaseExact`, `NeverTurnedOff`: `LeaseIInv` adds to
  `ProxyIInv` that the requests under way are finitely many and none is newer
  than the recorder's count (`PostsInv`), so that the finishes among them can be
  counted; every step then changes the holders, the proxy's debt, the recordings
  and the finishes by amounts that agree (`HoldersPaidFor`), and the printer's
  count with the holders while nothing was lost (`CountFollows`). That the debt
  is the proxy's use and the failed openings is an invariant of the proxy; that a
  viewer who was refused, and so uses nothing, had an opening fail, is
  `RefusedByAFailure`.
- `Archiver_proofs`: `ArchiverTypeCorrect`, `NothingLost`, `ArchiveRight`, and the
  action property `FramesStandStill`. `ArchiverIInv`
  adds where the frames of a time-lapse are in each state of its metadata
  (`FramesAreKnown`), that a finished video is at one of the two ends
  (`VideosAreKept`), and that what a pass has read from the list still holds when
  it comes to it (`PassInv`): nobody but the pass deletes what is ready, so the
  names and deletions after an await act on what was downloaded.
- `Upload_proofs`: `UploadTypeCorrect`, `OneUpload`, `TransfersAgreed`,
  `DoneIsEarned`. `UInv` adds that a request not made has left no trace
  (`FreshInv`), which packet is in the air (`AirInv`), that the printer has the
  whole of a transfer once its last packet is answered (`TransferInv`) and keeps
  it (`WholeInv`), that only transfers that are over are abandoned
  (`TerminatingInv`), and that file lists in flight are true (`ListsAreTrue`). Two
  uploads are never mixed up while both go on, as the one that has packets under
  way and is not in flight has failed.
- `SdcpClient_proofs`. For the client, `NeverTwoSockets`, `NeverStranded`,
  `HeartbeatRight`, `CloseIsFinal`: `SdcpIInv` adds that a socket neither gone
  nor closing is the client's own (`SocketIsOwn`), as only so does its `close`
  event tear down the right one. For PrinterService around it,
  `ServiceKeepsOneSocket`, `ServiceKeepsRetrying`, `StoreIsRight`: `ServiceIInv`
  adds that before the search is over there is no connection
  (`NoneBeforeStart`); every step of the service is one of the client, a
  stutter, or the connecting that ends the search.
- `LayerPage_proofs`. For the server's PrintView, `FileKept`; for the page,
  `NoUrlLeaks`, `PictureThere` and the action property `NeverBack`. `ViewInv`
  adds that the print shown is the one prepared (`ShownIsPrepared`), that files
  are of prints that have begun (`FilesAreOfThePast`), and that no directory
  listing still to be cleared has the current print's file on it, unless it was
  read late (`NotOnAList`). `PageInv` adds the order of the kept URLs
  (`UrlsInOrder`), which run the picture is of (`RunIsNewest`), who owns what the
  lightbox shows (`LightboxIsPinned`), and that an unmounted page has nothing
  (`NothingUnmounted`).
- `Pages_proofs`. For the status hook, `FeedTypeCorrect`, `NeverUnfed` and the
  action property `QuietForGood` (`FeedIInv` adds that a closed hook does not
  poll). For the files, `EntriesRight`, `ListRight`, `MessageIsOver`: `FilesIInv` adds that a cache entry, and the size a request was
  told of, is of the file there is or of a size that is past (`EntriesAreFresh`,
  `KeysAreFresh`), that a list which has been read, is still to be shown and
  has missed nothing is what the printer holds (`ReadIsRight`), that the list shown
  misses a change of the page's own only while the operation that made it has
  still to read the list (`ShownIsRight`), and when each message may be there
  (`MessageInTime`).

- `Calculations_proofs`: the algorithms over data, for inputs of any size. A loop
  is a recursive function, which the prover takes for a choice among functions
  that satisfy an equation: `LoopExists` shows that there is one, and
  `LoopType` and `InductionUpto` what holds after every turn. All three rest on
  `LeastOf`, that a set of numbers has a least element, which is induction in
  the form the provers can use.
  For ByteStreams, `StreamJoins` (`ViewerInv`: what was thrown away has no
  boundary in it, and what is kept of it is all that may begin one) and
  `LatestRight` (`FrameInv`: what is pending is the end of the stream).
  For HistoryMigration, `MigrationCopiesAll` and the action property
  `MigrationIsIdempotent`: `MigrationInv` says of a pass that what it has seen is
  in the new table, and so is every key of a row it has gone past (`PassInv`,
  `Knows`).
  For Calculations, `CalculationsAreRight`: `parseRange` and `progressPercent`
  are arithmetic; `indexLayers` has gone through the sum of the sizes before, and
  has met no layer that is misplaced (`LayerTurnsFacts`, `Fits`); `walk` reaches
  the folders that are read level by level (`LevelsAreReached`, `Heard`); paths are proper parts joined by single slashes, and a
  root put before one is found again (`CleanIsProper`, `StoredAgrees`).
  `LayersAreRight` is the longest of these arguments. The bytes a run is written as
  are read as that run and end where the next begins (`ReadsBack`,
  `EncodedReads`). A stretch of one colour in one row adds to a cell its overlap
  times the colour (`RowAdds`, `SegmentSums`), a run is cut at the ends of rows
  (`PaintedSums`), and so after every run each cell holds the sum of its own pixels
  so far (`RunsAre`, `Read`); it has as many pixels as `Area` says (`AreaIs`). A layer
  of more pixels stops the loop (`TooManyStops`), and a byte that has changed by one
  changes the checksum (`DamageShows`). `SumsFit` is what a comment in layers.ts
  says of its 32-bit sums: at the scales `parseScale` lets through they are at most
  102,000, so the model may leave their width out.

## What is only model-checked

- Liveness: `CompletedIsSettled`, `SlotIsReleased`, `KeepsTrying`,
  `RequestsEnd`, `MovingPageCatchesUp`. The prover does neither fairness nor ENABLED.
- The disagreements that runs show (`ReadyHasItsFile`, `PresentIsSkipped`,
  `TransfersStayApart`, `OwnChangesAreShown`): TLC finds the counterexamples.

## Not modelled

See the components with status `not_modelled` in PROJECT.json.
Parsing and formatting of single messages, rendering, command lines and
configuration have tests and no states to explore. `create()` failing, which
leaves the server without history, is left out of PrintTracking, as every
history call is then skipped. `CameraProxy.close` precedes the end of the
process and is left out of CameraProxy; what matters of it, the disable that is
not sent, is `Shutdown` in VideoLease. `PrintView.thumbnail` keeps one picture per
print and has no state to go wrong but that. Clocks are left out: a timer may fire
whenever it is set.
