# Verification of the WhatsApp gateway (k2-system-whatsapp)

TLA+ models of the gateway in `src/`, the TLC runs that check them on small
instances, and TLAPS proofs of their safety for every value of the constants.
`WS` below is `src/src/services/whatsappService.ts`.

## 1. The system

One Node process. It drives one WhatsApp Web page (puppeteer and
whatsapp-web.js), publishes incoming messages to RabbitMQ, and sends messages
on HTTP request. Everything runs on one event loop: what is between two awaits
is atomic, and any two async functions interleave at their awaits.

| Component | State it keeps | Operations | Hard behaviour |
|---|---|---|---|
| Inbound forwarding (WS: `handleLiveMessage`, `reconcile*`, `fetchBackTo`) | `reconciling`, the ladder of failed passes, locals of a pass | live handler, reconcile pass, chat scan, its timer and its failures | two publishers of the same message; state read before a confirm and used after; ceilings; chats not loaded; passes that fail for ever |
| Edits and deletions (WS: `forwardEdit`, `forwardDeletion`) | none | one publish each | a publish that landed without its confirm |
| Message history (`processedMessageStore.ts`) | processed ids, anchor per chat, watermark, persist timer, write queue, a file | `record`, `advanceAnchor`, `advanceWatermark`, `prune`, `persist`, `load`, `flush` | what a crash loses; snapshots older than memory; failed writes and reads; pruning under a scan |
| RabbitMQ publisher (`rabbitMqPublisher.ts`) | connection, confirm channel, `closed`, reconnect timer | `start`, `connect`, `scheduleReconnect`, `publishMessage`, `close` | an attempt that fails half way, a connection lost between two awaits, a close during a connect, a landed but unconfirmed publish |
| Idempotent sends (`idempotencyStore.ts`, controllers) | completed keys, claimed keys, memoised load, write queue, a file | `claim`, `complete`, `release`, `persist`, `load` | concurrent retries, expiry, a crash around the answer |
| Send path (WS: `sendMessage*`, `throttle`, `dispatch`; `mediaKind.ts`) | `lastSentAt` | resolve, throttle, parts, kind of a file, fallback to a document | check-then-sleep, one part of several failing, frame errors, delivered but not answered, files that are not what they say |
| Session lifecycle (WS: starts, events, timers, login, logout) | `status`, QR, `loggedOut`, `reinitializing`, `starting`, settle flag, five timers | see 2.4 | races of starts, recovery, heartbeat, watchdog, login and logout |
| Chat listing (WS: `listChatSummaries`, `readChatDescriptors`, `enrichDescriptor`; `chat.dto.ts`) | locals of a listing | bulk read, fallback by id, second look-up, names | a page lost in the middle, a budget that runs out, what counts as a name |
| Process start and shutdown (`server.ts`) | none of its own | start, SIGTERM, fatal errors | what each store has on disk when the process ends |
| Media probe, page diagnostics, pinned web build, HTTP surface, configuration | none, or a log buffer | reads and formatting | not modelled, see 6 |

They interact by direct calls. The library raises `message`, `message_edit`,
`message_revoke_everyone`, `qr`, `authenticated`, `auth_failure`, `ready` and
`disconnected`; a send or a pass that meets a *frame error* makes the service
recover the session, and so do passes that keep failing; a pass runs only when
the session is ready **and** settled; both stores write a file through a queue
of promises.

What makes each part correct:

- inbound: nothing to be forwarded is lost, whatever fails, until it ages out;
  no anchor or watermark is past an owed message; the history remembers only
  what the broker took; a rescan does not publish twice;
- publisher: there is always exactly one way to the broker, every publish is
  answered once, "published" only for what the exchange took;
- outbound: one send of a key at a time, a recorded key was delivered whole,
  every call is answered, one send leaves no part in the chat twice unless it
  was told that the first try failed, no file reaches the page's media decoder
  as another medium than it is;
- session: a session that breaks comes back, a logged out one stays so, no
  flag blocks the next start, chats are left alone until the session settled,
  failing passes restart it ever more rarely but never stop for good;
- chat listing: every chat read is accounted for, and is nameless only for
  cause.

`PROJECT.json` lists every component with its status, and the hazards of this
code at the line where each bites, with the properties that cover it.

## 2. The modules

| Module | Models | Used by |
|---|---|---|
| `InboundForwarding` | live handler, pass, history, crashes | `MCInbound`, `InboundForwarding_proofs`, `InboundRescan_proofs` |
| `ChannelContract` | what the inbound half takes the publisher for | `PublisherConnection` refines it |
| `PublisherConnection` | connection, channel, reconnect, close, publishes | `MCPublisher`, `PublisherConnection_proofs` |
| `SendContract` | what an idempotency key promises | `OutboundSend` refines it |
| `MediaKind` | how a file is sent, by its bytes, name and type | `OutboundSend` |
| `OutboundSend` | idempotency store and send path | `MCOutbound`, `OutboundSend_proofs` |
| `SessionLifecycle` | starts, events, timers, ladder, login, logout | `MCSession`, `SessionLifecycle_proofs`, `SessionTimely_proofs` |
| `ChatListing` | one `GET /chats` | `MCChats`, `ChatListing_proofs` |

### 2.1 `InboundForwarding`

The live handler, the reconcile pass, the history with its file, the broker as
the publisher sees it, and crashes. Correspondence with the code:

- **Environment.** `Arrive` shows a message in WhatsApp Web and, if
  `LiveEvents`, raises its event; `DropEvent` loses one. `Land`, `Nack` and
  `ChannelLost` are the three ends of a publish: `flight` holds publishes not
  yet answered, "landed" ones are with the broker and wait for the confirm.
- **Live handler.** `handleLiveMessage` is the code up to the awaited publish,
  `LiveConfirmed` what follows a confirm (`record`). An unconfirmed live
  message does nothing more: the next pass is its retry.
- **Pass.** `PassStart`, `listChats`, per chat `SkipChat` or `OpenChat`,
  `FetchHistory` (`fetchBackTo` with its doubling limit and its ceiling), one
  iteration of the loop per message (`ScanPassOver`, `ScanPublish` then
  `ScanConfirmed`, or `ScanUnconfirmed`), `ChatDone` (`advanceAnchor` up to the
  first gap), `PassDone` (`advanceWatermark` only if every chat was
  confirmed). `phase` is the await the pass is at; `FetchFails` and
  `PassFails` are the two ways a page call can throw.
- **Store.** `record`, `advanceAnchor` and `advanceWatermark` set the persist
  timer; `PersistTimerFires` queues a write; `PersistStart` prunes and takes
  the payload, `PersistDone` renames it into place, `PersistFails` does not.
  `Restart` reads the file or, when it cannot be read, starts empty.
- **`Crash`** loses everything in memory and may let what is on the wire land.
  A graceful shutdown is a crash preceded by the persist that `flush` brings
  forward.

Switches for what the environment may do: `PromptDelivery` (messages surface
in the second they are stamped, in order), `LiveEvents`, `SlowToLoad` (chats
the page may not hold yet when they are listed), `Unreadable` (chats the
library may fail to model).

### 2.2 `PublisherConnection` and `ChannelContract`

`dialling` is the await `doConnect` is at: `Connected`, `ChannelCreated`,
`ExchangeAsserted` (only now the handlers are attached and the fields set), or
`AttemptFails` at any of them, which sets the reconnect timer but leaves the
connection it already had open. `watched` are
the connections that have the `close` handler, which forgets *whatever* is
current: that only the current one ever has it is `OnlyCurrentWatched`.
`ConnectionEnds` is the end of a connection, heard of by its handlers or by
nobody; `TimerFires` the reconnect; `CloseBegins`, `ChannelClosed`,
`ConnectionClosed` the last await of shutdown, after which the process exits;
`Start` the next process.

`Forward(e)` is `publishMessage` for a created, edited or deleted message as
its caller uses it, `Land`, `Confirm` and `Nack` what the broker does with it.
A created message that was not confirmed is published again by a later pass;
an edit or a deletion is not, and `EditsOnce` is about that.

`ChannelContract` is the publisher as `InboundForwarding` sees it (its
`channelUp` and `flight`): up or not, each event handed over answered once, and
a channel that goes takes the unanswered ones with it. `HonoursChannel` is the
refinement.

### 2.3 `OutboundSend`, `MediaKind` and `SendContract`

`OutboundSend` runs any number of HTTP sends through `runIdempotentSend`, the
`IdempotencyStore` and the send path. `pc[r]` is the await request `r` is at.
A caller's retry is another request with the same key. `CallKeyless` and
`CallKeyed` are the call up to its first await; `Claim` is `claim` and the
synchronous start of the send; then the resolution of the chat
(`ChatListed`, `NumberResolved`, its one retry in `NumberFrameError`,
`ResolveFails`), `Throttle` and `Wake`, and for each part `PartSent`,
`Refused`, `CutOff`, `SendFrameError` or `BadAttachment`.

The last four are the ways a part can fail. The code tells errors apart by
their text (`TRANSIENT_FRAME_ERROR`, WS:134), and so does not know what became
of the part: `SendFrameError` is an error the text matches, before or after
WhatsApp took the part; every other one is taken for a refusal
(`TakenForRefusal`: a file on its inline try is sent again as a document, the
rest fails), whether WhatsApp did turn the part down (`Refused`) or took it
while the call ended in another error (`CutOff`). A time-out of puppeteer's is
one: the client options (WS:854) do not turn it off, and its text matches
nothing. `misread`, a history variable that no step reads, records the parts
that were sent again although the first try went through.

A part is a text or a file, given by where it comes from, the type declared
for it, the extension of its name and the format its bytes show. `MediaKind`
computes from these whether it is refused, sent inline or sent as a document:
`sniffMimetype`, `MIME_BY_EXTENSION`, `resolveMimetype`, `verifiedMimetype` and
`canSendInline` are the functions and tables of `mediaKind.ts`. Mimetypes that
are neither inline nor generic are one value, `Other`, since nothing tells them
apart.

`SendContract` is what the key promises, without how it is kept: at most one
running send per key, a key answered from the record is not sent, only a
completed key gets into the record, and a crash may forget. The property
`HonoursContract` is the refinement, with running sends, record and completed
keys read off the detailed state.

### 2.4 `SessionLifecycle`

Three kinds of start share one browser: the startup's retries, a login's
retries, and a recovery. `stage[s]` is the await of start `s` (launching,
injecting, destroying, sleeping); `doomed` are those whose page was closed
under them and whose `initialize` will reject. Library events are enabled by
`page`, with the handler's effect on `status`, QR, watchdog, heartbeat and the
settle timer. `Login` and `Logout` take turns, as `exclusive` makes them.

Frame errors come from a send that began on a settled session (`SendBegins`,
`SendFrameError`) or from the pass that is running (`ReconcileFires` or the one
that follows the settle delay; `PassFrameError`), but may come late. A pass
ends in `PassSucceeds`, `PassFails` or `PassFrameError`. `PassFails` is
`handleReconcileFailure`: it counts, and after `ReconcileMaxFailures` in a row
it restarts the session and pauses the scans for twice as long as the last
time, up to `BackoffMax`. `pause` is what is left of that, counted down by
`IntervalPasses`. The ladder survives logout and login, as in the code, where
only a pass that succeeds clears it.

`Timely` is the one switch: a start settles, or fails, before anyone acts on
its page; a frame error or a failed probe is heard of while the page it is
about is still the one in use; the watchdog outlasts a page that still gets
somewhere. Without it the code promises less than one would like. Outside
`Timely` these fail, and why:

- `SettledMeansQuiet`: a stale frame error or heartbeat answer recovers a page
  that has just become ready and settled.
- `NeverAbandoned`, `ComesBack`: the watchdog that goes off during a recovery
  is spent (it returns early on `reinitializing` and is not armed again until
  the new page shows something), so a recovery whose page then hangs has
  nothing left to act on it.
- `StaysLoggedOut`: run `SessionLogout` below.

### 2.5 `ChatListing`

One listing, from the bulk read (`listChatDescriptors`) or, when that fails,
the ids (`listChatIds`) and a look-up of each (`FirstLookup`), to the second
look-up of what has no human name (`SecondLookup`, within the budget) and the
row (`SourceOf`, which is `toChatSummary`'s choice of a name). `getChatById`,
`ChatUnreadable` and `getContactById` are the awaits of `enrichDescriptor`. The
page may be lost and come back at any of them (`PageLost`, `PageBack`); a frame
error costs one chat its row in the fallback and the whole listing elsewhere
(`FrameErrorOfId`, `FrameErrorOfRow`).

### 2.6 Instances

`MCInbound`, `MCPublisher`, `MCOutbound`, `MCSession` and `MCChats` give the
constants their small values; each `.cfg` is one run.

## 3. What the runs check

| Run | Checks | Instance |
|---|---|---|
| `InboundLive` | `TypeOK`, `HistorySafe`, `AnchorSafe`, `WatermarkSafe` | one allowed chat that may load late, two messages, live events racing passes, 1 fault |
| `InboundDelivery` | `NothingLost` (liveness) | one chat, two messages, 2 faults, fairness |
| `InboundQuiet` | `NoDuplicates`, `AnchorKeepsUp` | `RescanSpec`: one chat, two messages that may surface late, no live events, 1 fault, ids that are pruned within the run |
| `Publisher` | `TypeOK`, `NeverStranded`, `OnlyCurrentWatched`, `EditsOnce`, `HonoursChannel` (refinement), `Reconnects`, `Delivered` (liveness) | two created messages, an edit, an edit of the account's own, a deletion off the list; 3 faults |
| `Outbound` | `TypeOK`, `ClaimsMatchSends`, `RecordMeansDelivered`, `OneSendOneCopy`, `NoMislabelledInline`, `Answered` (liveness), `HonoursContract` (refinement) | a send of a photo and of a web page under a photo's name, its retry under the same key, a keyless send by chat id of a HEIC photo and of data with no name; 2 faults, a time to live that ends within the run |
| `Session` | `SettledMeansQuiet`, `NeverAbandoned`, `StaysLoggedOut`, `PauseHolds`, `ComesBack`, `ScansResume` (liveness) | startup, one login loop, recovery, `Timely`, passes that fail up to three restarts in a row, 4 faults |
| `SessionRaces` | `TypeOK`, `FlagsMatchStarts`, `NoQrOnceLinked` | the same without `Timely` and without a broker, 2 faults |
| `ChatListing` | `TypeOK`, `EveryChatAccounted`, `NamelessForCause`, `Ends` (liveness) | a private chat and a group, a budget of one look-up, 2 faults |

Every property of these runs has a mutant in the modules (a comment starting
with "Mutant" above its operator): a plausible slip in the code that makes TLC
report the property violated.

### Where the code and its words disagree

Four runs end in a counterexample, each against a sentence of the repository:

- `InboundRace` / `NoDuplicates`: the live handler and a pass both ask the
  history before their publish and record after it, so a message arriving
  during a pass is published twice, although "nothing is published twice"
  (`.env.example:70-71`, `README.md:341`).
- `OutboundCrash` / `ExactlyOnce`: `complete` does not wait for its write and
  shutdown does not flush this store, so a process that ends just after the
  202 forgets the key and a retry sends again (`idempotencyStore.ts:22-31`).
- `OutboundGap` / `MinimumGap`: `throttle` reads `lastSentAt` before it sleeps
  and writes it after; requests asleep together wake together
  (`README.md:244`).
- `SessionLogout` / `StaysLoggedOut`: logout gives up waiting for a recovery
  that never asks `loggedOut`; the recovery then sets the status and starts a
  browser after logout has returned (WS:412).

Met while modelling, without a run of their own:

- An error of an inline try that is not one of the six phrases of WS:134 is
  taken for "the inline attempt \[failing\] on the file itself" (WS:2337-2341:
  "Connection-level failures are not retried here"; `README.md:202-205`: "If
  WhatsApp rejects the inline upload ... the same file is re-sent"). A time-out
  of the page call is no such phrase and does not say that WhatsApp rejected
  anything, so the recipient may get the file twice, inline and as a document.
  `OneSendOneCopy` excepts exactly this; without the exception TLC reports the
  two copies on the instance of `Outbound`.

- A fetch that is cut off at the per-chat ceiling still moves the anchor to its
  newest message. WS:1975 owns up to that, so it is an assumption of the
  anchor's properties here and not a disagreement.
- `WHATSAPP_CHAT_ENRICH_LIMIT` caps only the second look-up. In the fallback
  every id is looked up whatever the limit, although `.env.example:48-50` says
  it "caps how many of those lookups a single listing may do" and `env.ts:75-76`
  that zero "disables the fallback entirely".
- `nameSource: "fallback"` is to mean that WhatsApp "had nothing at all"
  (`README.md:318-320`); it also comes out when the budget was spent or the
  look-up failed. `NamelessForCause` says what holds. The comment of
  `toChatSummary` ranks the saved contact's name first, the code the title.
- In the fallback a frame error is taken for a chat that cannot be read, so a
  page that stays lost gives a 200 in which every chat is unreadable.
- A HEIC or AVIF photo is sent inline, as a `video/mp4`, although
  `mediaKind.ts:53-56` says a HEIC is not even tried inline (`HeicGoesInline`
  proves it), and so `NoMislabelledInline`, which judges a file by its format
  and not by what `sniffMimetype` makes of it, excepts the two. A format
  without a signature in the code (an AVI, an MP3 without tags) goes by its
  declared type and name, whatever it is.
- The lookback, "seconds of overlap re-scanned below each chat's anchor (guards
  against late-syncing messages with an older timestamp)"
  (`.env.example:64-66`), is not always read: `fetchBackTo` stops going back as
  soon as its batch holds the anchor (WS:1988), so the overlap is what the batch
  happens to hold below it; and a chat without an anchor starts at the
  watermark with no overlap at all.
- "The backfill never reaches that far back anyway"
  (`processedMessageStore.ts:44`) takes a retention longer than the backfill by
  the length of a pass. The constructor only sees to it that it is no shorter;
  the defaults, a week and two days, leave margin enough.
- Sends ask for ready and settled once, before resolving and sleeping, and may
  then meet a page that was reloaded meanwhile; the ladder of failed passes
  survives a logout and a login of another account.
- Without an allowlist the watermark passes the messages of a chat that had not
  loaded when the chats were listed.

### Bounds, and why they are enough

Named in each module and given in each `.cfg`.

- Inbound: two messages suffice for a gap followed by a confirmed message, an
  anchor past an owed message, and a prune of one of them. Ties, messages that
  are not to be forwarded, and more messages than a fetch returns are covered
  by the proofs. One chat: two
  with live events make five to seven million states, and what a pass that
  confirms one chat and not the other does to the watermark is covered by the
  proofs, which hold for any number of chats.
- `MaxTime` and `MaxPassTime` let a pass outlast the second it started in, and
  in `InboundQuiet` (retention 2, clock to 4, backfill 1) let the first message
  leave both windows and its id be pruned while passes go on. With retention 1
  the same instance violates `NoDuplicates`, which is why the theorem asks for
  the margin of a pass. `MaxWrites` 1 still lets one write run while another is queued
  and a timer is set.
- `MaxFaults` counts everything that goes wrong. Two allow a failure and a
  crash during its repair (a nack then a crash, a failed read then a lost
  channel); `InboundLive` has one because live events already multiply the
  interleavings.
- Publisher: a failed attempt leaves its connection open, so three faults can
  leave three open beside the current one: four names never run out.
- Outbound: two requests of a key are what a retry needs, the third races both
  for the throttle and has no key. The key expires within the run. The four
  files reach every kind of file (a HEIC goes inline as a video); texts are in
  the two violation runs. Two faults let an inline try be cut off and the
  document after it as well, or end in a crash. That the kinds are right for all
  other contents is proved.
- Session: two attempts make both branches of the retry loop; one login loop
  overlaps with the startup's and with a recovery. Two failures per restart and
  a pause of up to two intervals reach every rung and the cap; three restarts
  go past the cap. Four faults let each part of the ladder meet a failed start.
- Chat listing: with two chats and a budget of one, one of two nameless chats
  is looked up and the other not.

`CHECK_DEADLOCK FALSE` appears where the system may stop: all requests
answered, all events published, a listing that has ended, a process that shut
down, or a logged out session with no one calling login.

### Fairness

- Inbound: the platform restarts the process, the session and the channel come
  back (`Recover`); passes are started by a timer and their page calls return
  (`PassStep`); an open channel delivers (`Deliver`). Nothing is assumed of the
  clock, arrivals, events, live confirms, or the disk.
- Publisher: the platform restarts the process; a connect ends
  (`RABBITMQ_CONNECT_TIMEOUT_MS`) and so do the calls after it and those of
  `close` (the connection's heartbeat ends a dead one); the reconnect timer
  goes off; passes go on; an open channel lands and confirms what it was given.
  The last is the broker's promise and nothing in the code bounds the wait:
  a broker that neither answers nor goes away would hold a pass for ever.
- Outbound: page calls are answered, a file read ends, the clock goes on. Not
  that anyone calls, that the session is ready, or that a write finishes.
- Session: page calls return (the loops bound `initialize` by
  `WHATSAPP_INIT_TIMEOUT_MS`; a recovery's `initialize`, and every `destroy`,
  have no bound in this code and rest on the timeouts of puppeteer), a loading
  page shows a QR or links and a linked one becomes ready, timers that are set
  go off, the scan timer included; a pause runs out; a pass ends, well or not.
  A dead page does nothing: only heartbeat, watchdog and failing passes bring
  it back. Nobody is assumed to scan a QR, to call login, or to send.
- Chat listing: a page call returns, with a frame error when the page is gone.
  Nobody is assumed to bring the page back.

## 4. What is proved

Seven modules of proofs, checked by TLAPS for any values of the constants:
one per component, and one more for the inbound half and for the session, with
what they promise under an assumption on their environment. Every safety
property of the passing runs, invariant or action property, and both
refinements are stated by a theorem.

| Module | Theorem | States | Assumes beyond the module's constants |
|---|---|---|---|
| `InboundForwarding_proofs` | `TypeCorrect` | `Spec => []TypeOK` | nothing |
| | `HistoryIsSafe` | `Spec => []HistorySafe` | nothing |
| | `AnchorMovesOn` | `Spec => AnchorKeepsUp` | nothing |
| | `AnchorIsSafe` | `Spec => []AnchorSafe` | `DeliveryAssumption` |
| | `WatermarkIsSafe` | `Spec => []WatermarkSafe` | `DeliveryAssumption` |
| `InboundRescan_proofs` | `RescansNeverDuplicate` | `RescanSpec => []NoDuplicates` | `RescanAssumption` |
| `PublisherConnection_proofs` | `TypeCorrect` | `Spec => []TypeOK` | nothing |
| | `AlwaysOneWay` | `Spec => []NeverStranded` | nothing |
| | `CurrentIsWatched` | `Spec => []OnlyCurrentWatched` | nothing |
| | `EditsAtMostOnce` | `Spec => []EditsOnce` | nothing |
| | `KeepsChannelContract` | `Spec => HonoursChannel` | nothing |
| `OutboundSend_proofs` | `TypeCorrect` | `Spec => []TypeOK` | nothing |
| | `ClaimsAreSends` | `Spec => []ClaimsMatchSends` | nothing |
| | `RecordIsTrue` | `Spec => []RecordMeansDelivered` | nothing |
| | `OneCopy` | `Spec => []OneSendOneCopy` | nothing |
| | `NothingMislabelledInline` | `Spec => []NoMislabelledInline` | nothing |
| | `KeepsContract` | `Spec => HonoursContract` | nothing |
| | `HeicGoesInline` | what `KindOf` makes of a HEIC file | nothing |
| `SessionLifecycle_proofs` | `TypeCorrect` | `Spec => []TypeOK` | nothing |
| | `FlagsTellTruth` | `Spec => []FlagsMatchStarts` | nothing |
| | `NoCodeOnceLinked` | `Spec => []NoQrOnceLinked` | nothing |
| | `PauseIsKept` | `Spec => []PauseHolds` | nothing |
| `SessionTimely_proofs` | `LogoutStopsTimers` | `Spec => []LogoutFlags` | nothing |
| | `SettledSessionIsQuiet` | `Spec => []SettledMeansQuiet` | `Timely` |
| | `SessionIsNeverAbandoned` | `Spec => []NeverAbandoned` | `Timely` |
| | `LogoutIsFinal` | `Spec => []StaysLoggedOut` | `Timely` |
| `ChatListing_proofs` | `TypeCorrect` | `Spec => []TypeOK` | nothing |
| | `NoChatIsLost` | `Spec => []EveryChatAccounted` | nothing |
| | `NamesAreUsed` | `Spec => []NamelessForCause` | nothing |

### Inbound forwarding

`DeliveryAssumption` is what `AnchorSafe` and `WatermarkSafe` need of the world:
`PromptDelivery`; in any chat, no more messages than the ceiling within a
backfill window and the length of a pass, however many it holds in all; no chat
to be forwarded that the library fails to model; and a chat that is slow to load
only under an allowlist. Each part is needed: a scan that is cut off at the
ceiling moves the anchor past the messages it never saw (with a
ceiling of 1 TLC finds it for two messages of one window, and nothing for two
that no window holds together); a late or out-of-order message surfaces behind an anchor; a
chat that cannot be modelled, or without an allowlist has not loaded, is skipped
by a pass that still counts as complete.

`AnchorSafe` is not inductive: a pass reads the anchor, the floor and the
history at different awaits, and the file holds a state that memory has left.
The invariant is `ForwardInv`, the conjunction of

- `TypeOK`, and `HistoryInv`: what is remembered, in memory, in a write or on
  disk, has reached the broker; a landed publish has too;
- `ClockInv`: nothing visible is stamped in the future, and the process did not
  start in the future;
- `AnchorInv`, `WatermarkInv`: the two properties for memory, the payload being
  written and the disk, since a write makes the payload the file and a restart
  makes the file the memory;
- `PassInv`: the pass began in the past, and its floor is no later than the one
  the clock has reached since, so what its floor gives up has aged out;
- `SeenInv`: the last message seen of a chat when the chats were listed covers
  everything in it from before the pass started, which is what lets a chat be
  skipped by that snapshot;
- `DoneInv`: while the pass has everything confirmed, each chat it is through
  with owes nothing from before the pass started;
- `ChatInv`: in the open chat, everything up to the anchor the pass saw and
  everything older than `scanFrom` is settled, although the live anchor may
  have moved or been pruned since;
- `ScanInv`: everything up to `through` is settled and, as long as there is no
  gap, so is everything that precedes the rest of the batch or the pass's
  start and is not in the batch;
- `AwaitInv`: a publish of the scan is for the first message of the batch, and
  the scan is waiting for it;
- `WindowInv`: a pass is no older than `MaxPassTime`, and neither its floor nor
  `scanFrom` reaches below the backfill window it started with. With it the
  messages a fetch has to return lie in one `Window`, and so below the ceiling.

The proof has one lemma per group of actions and one step per conjunct that an
action can disturb; facts about `Precedes`, `Newest` and `fetchBackTo` are
lemmas of their own. `AnchorMovesOn` needs only the types, since
`advanceAnchor` and `prune` alone write anchors.

`RescansNeverDuplicate` is about `RescanSpec`, the module's steps under two
conditions: no publish that the broker took, or still takes, is cut off before
its answer (`AnswersHeard`), and a process ends with its history written and
starts with what was written (`HistoryKept`). `RescanAssumption` adds that no
live event races the passes, and a retention of at least the backfill window and
the length of a pass. Everything else may go wrong: nacks, lost channels and
sessions, failed fetches and writes, late messages, crashes and restarts,
passes that end half way. Each condition is needed: without the first, a message
that landed unheard is published by the next pass; without the second, a restart
forgets it; with live events there is the race of `InboundRace`; with a shorter
retention an id is pruned while the floor of a running pass still admits its
message. `NoDuplicates` is not inductive; `RescanInv` says where the memory of
a publish is kept: a message with a copy is remembered (in memory, or on disk
while the process is down), or its confirm is on its way to the scan, or it has
left the retention window (`OnceInv`), which by `WindowInv` no running pass
still admits (`DueIsNew`); a message the scan has just sent has no copy yet, and
by `AwaitInv` it is the only one. `LiveSilent` and `DownInv` say that the live
handler has nothing under way and that a process that is down runs nothing.

### Publisher

`NeverStranded` counts attempts, timers and watched connections, and is not
inductive: a `close` handler must belong to the current connection, or its end
would set a timer beside a connection that lives. `LinkInv` adds
`OnlyCurrentWatched`, that a process that has ended has nothing left, that a
closed publisher neither dials nor has a timer (which holds because `close`
awaits only when there is a channel, and then nothing else is under way), and
at which awaits an attempt has a connection. `FlightInv` (an unanswered publish
went out on the current channel) and `CopiesInv` (what landed or was published
was taken, and what is not a created message is not taken before it is sent)
are what the refinement and `EditsOnce` need on top: the end of any other
connection then answers nothing, which is the contract's stutter, and the end
of the current one is its `Lost`.

### Outbound sends

`SendInv` is the conjunction of

- `TypeInv`: the types; that only keyed requests await a claim; a clock past
  0, so that the time of a completion is told apart from no completion;
- `ProgressInv`: of each request, that until it ends the parts before its next
  one are in the chat once and nothing after them is, plus one copy of each that
  was misread; that a misread part is an inline file and, while it is the next
  one, on its way as a document, so that it is misread once at most; that no
  part ever has another copy; and that what was answered as sent is there whole;
- `ClaimInv`: a key is claimed exactly while one request of it runs, and then
  only one. `ClaimsMatchSends` follows, and so does that `release` never frees
  the claim of another request;
- `RecordInv`: what is completed in memory, in the payload of a write or on
  disk belongs to a send that was answered as sent.

`RecordMeansDelivered` is `RecordInv` with `ProgressInv` at the last part. The
refinement maps running sends, record and completed keys, and `EverMoves` says
which steps make a key completed. `OneCopy` is `ProgressInv` with `misread`
kept as the only excuse for a second copy: it does not assume that the code reads
errors right, it says what follows when it does not. `KindInv`, kept apart, is
that what awaits the page inline is of an inline kind (a file that slept in the
throttle is still the one that was checked); `InlineIsShown` goes through the
formats and shows for each what type it is sent under, against `FormatsOf`, a
table of what each type may carry that owes nothing to the code's own.

### Session

None of the four of `SessionLifecycle_proofs` needs `Timely`. `StartInv` is `FlagsMatchStarts` with the
types of the starts; every action is first shown to be one of a few moves of a
start (`StartMoves`), then each move to keep it. `LadderInv` is `PauseHolds`
with the ranges of the ladder: that a pause is cut off at the cap, and is
never 0 after a restart, rests on `PowerOfTwo`. `AttemptInv` says why a loop's
attempt stays within the limit: what destroys or sleeps has one left.

`SessionTimely_proofs` first proves what needs no order either: `LogoutFlags`,
that a logout takes heartbeat, settle delay, scan timer and `settled` with it and
that nothing under way sets one of them again. The other three theorems follow
from `OrderlyInv`, on top of `StartInv` and `LogoutFlags`:

- `SingleStart`: only one start is under way, the one `starting` names. This is
  what `Timely` buys and what fails first without it, and then logout waits for
  the wrong start;
- `ReadyHolds`, `CodeHolds`: a session thought ready has no start under way and
  its page was ready last; a code on offer is the one the page shows, so that a
  watchdog that was cleared for it is not missed;
- `BeatHolds`: a heartbeat that took the session for ready finds it so when its
  call returns, or being recovered;
- `Watched`: what is neither ready nor on offer has the watchdog, or is a
  recovery that has yet to arm it;
- `LogoutHolds`: a logout waits for the only start there is; when it closes the
  page no start is left, and afterwards no page and no watchdog.

Without `Timely` the proof of the step fails at a dozen places, which are the
races listed in 2.4.

### Chat listing

`ListInv` follows a chat through the two loops. `AccountInv`: it is still to be
done, has a descriptor, has a row, or is unreadable. `BudgetInv`: the second
pass has asked about no chat it has still to do, so that a look-up is a new one
and the budget is what the look-ups left of the limit. `NameInv`: a row is
written from the descriptor as it will stay, and a name that a read offered is
missing from a descriptor only where something else was there first (`??=`).

### Only model-checked

`NothingLost`, `Reconnects`, `Delivered`, `Answered`, `ComesBack`,
`ScansResume` and `Ends` are liveness under fairness, out of the prover's
reach: TLC checks them on the instances above only. Those of
the inbound half and of the session are checked in the environment their safety
is promised in: prompt delivery without live events, and `Timely`.

## 5. Abstractions

- Messages, chats, keys and parts are elements of small sets; ids, payloads and
  formats are left out, except for what decides the kind of a part. A message's
  order among those of its second is that of its number.
- The three page reads of `listChats` are one step. The unread count is
  nondeterministic, since the phone's user changes it.
- `ready` in the inbound and outbound modules is "ready and settled"; how it
  comes and goes is `SessionLifecycle`'s. `channelUp` of the inbound module is
  a boolean that comes and goes, as `ChannelContract` says and
  `PublisherConnection` is shown to keep.
- A persist takes its payload when its write starts; the code does so after
  the `mkdir` before it.
- The end of a connection is heard of before the answer that an attempt awaits
  or after the code that follows it, not in the same turn of the event loop.
- A part that WhatsApp turned down leaves nothing in the chat, now or later;
  after any other error of `client.sendMessage`, one of the frame or not, it may
  be there or not (`SendFrameError`, `CutOff`).
- With a delay of 0 the code's `throttle` returns before setting `lastSentAt`;
  the model sets it, and nothing then reads it.
- An `initialize` that timed out is over. The session model starts at the first
  `initialize` and is one life of the process. A page that dies while its QR is
  on offer counts as serving: the code has nothing that looks at it either.
- Heartbeat, watchdog, scan timer and the limit of failed passes are configured
  (not 0), the message history has been loaded, and the pause is counted in
  scan intervals.
- In a listing a name is the shape of its text (absent, a number, or one a
  human chose), `verifiedName` is treated as the push name, and a group has no
  contact's names.

## 6. Not modelled

- `adoptLegacyCursor`: a one-time import of an old file at start.
- `inspectMediaPrep` and the page diagnostics: they read the page or fill a log
  that nothing decides by. The ring buffer of `pageDiagnostics.ts` has no
  property beyond its length.
- Pinned web build, client options, lock files: file and network I/O before
  the first start, one after the other.
- HTTP routing, validation, tokens, configuration, logging: stateless or I/O.
- In a listing, the order of the rows, the counts and the fields no name
  depends on.

## 7. Plan

The order of the modules was by importance: inbound forwarding first (losing a
message is the worst the gateway can do), then sends, the session both depend
on, the publisher, and the listing. Of what can be stated as safety, all that
the runs check is proved. What is left:

1. With live events, how often the race can bite: each of the two publishers
   hands a message over once, so that no message has more than two copies. This
   needs to be told apart in the state who published.
2. The inbound half as an implementation of an abstract ledger of owed and
   forwarded messages, as the publisher and the sends have their contracts.
3. The hazards without a property in `PROJECT.json`: they need an environment
   that neither answers nor fails, or lack a promise to hold the code to.
