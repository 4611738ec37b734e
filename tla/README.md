# swiftshare in TLA+

Specifications, model-checking runs and machine-checked proofs for swiftshare,
the peer-to-peer file transfer program in this repository. The code in `src/`
is the reference; where a comment or a document says something else, the run
that shows the difference is listed under [Findings](#findings). Paths below
are relative to the repository (`transfer.rs` is `src/transfer.rs`, and so on).

## The system

Two hosts run the same program. On each, one process holds an `AppState`
shared by three kinds of tasks: the UDP discovery tasks, one task per incoming
TCP connection, and the HTTP/WebSocket handlers of the local web page.

| component | state | operations | talks to |
|---|---|---|---|
| protocol and framing (`protocol.rs`, `codec.rs`) | none | encode, decode | the socket |
| shared state (`state.rs`) | `transfers`, `pending` (one oneshot per session waiting for the user), `cancel_tokens`, `peers`, the event channel | `add_transfer`, `register_cancellable`, `cancel`, `set_status`, `finish_file`, `await_decision`, `decide`, list and prune | everybody, through async locks |
| sending (`server.rs` `send_files`, `transfer.rs` `SendSession`) | the file at hand, its hasher, the chunk buffer, `cancelled_by_peer` | `open`, `start_file`, `write`/`check_live`, `finish_file`, `finish`, `fail`, `cancel_and_notify` | browser upload, socket, shared state |
| receiving (`transfer.rs` `receive`, `receive_files`) | the open `.part` file, its hasher, the outcome | prepare, ask, answer, the loop over frames, cleanup, notify and drain | socket, disk, shared state |
| download directory (`unique_path`, `.part`, rename) | the file system | pick, create, write, rename, remove | all receiving tasks at once |
| discovery (`discovery.rs`, `state.rs`, the probe in `server.rs`) | `peers` with `last_seen`, the timers of two tasks | announce, listen and reply, prune, list, manual probe | UDP, shared state |
| events (`state.rs`, `server.rs` `handle_ws`) | a broadcast ring of 256 events, a subscription per WebSocket | emit, subscribe, lag, leave | all tasks, all tabs |
| web UI (`web/app.js`) | per tab: the queue of prompts, the rows, the upload at hand | queue, dismiss, count down, decide, cancel, refresh | WebSocket, HTTP |
| history (`history.rs`) | SQLite table, on disk or in memory | record, recent, clear | `set_status`, handlers |
| start-up, CLI, desktop shell | none that changes | | |

What is hard about it:

* **Interleaving.** The receiving task, the accept/reject handler, the cancel
  handler and the 120 s timer meet on `pending`, the oneshot and the token,
  each touched at a different await. Clicks come at any point between them.
* **Two hosts, no acknowledgement.** After the verdict the receiver only speaks
  to cancel, and the sender listens only between chunks. Each host settles the
  session from what it happens to see: a frame, an end of stream, a reset.
* **Closing a TCP connection.** A close with unread input resets the
  connection, which can take frames already sent with it (transfer.rs:302).
  The browser may hang up and drop the sending handler at any await, half-way
  through a frame.
* **Partial failure.** `?` leaves at many points, and not all of them settle
  the session or clean the disk.
* **A shared directory.** Sessions received at once choose names with nothing
  to keep them apart.
* **Backpressure.** The sender writes through bounded sockets at the pace of
  the receiver's disk.
* **Two sources of truth in a tab.** Events animate what fetched lists decide;
  each may be older than the other, and events may be lost for good.
* **Timers against timers.** 2 s of announcing against 10 s of forgetting and
  30 s of showing; 120 s of waiting against 120 s of counting down.

What makes each part correct: nothing is written without consent; what lands
under a final name is the file; both hosts act on one verdict; Completed on
both sides means all files are accounted for; no `.part` survives; a click on
Cancel ends what it should, and a hang-up frees the receiver; an undisturbed
transfer completes; frames come out of the stream as they went in; hosts that
are up see each other and gone ones vanish; a prompt is in front of the user as
long as somebody waits for the answer, and no longer; the answer acknowledged
is the answer given; rows and history agree with the list. `PROJECT.json` lists
the hazards line by line, each with the properties that cover it or why none
does.

## Modules

| module | models |
|---|---|
| `Protocol` | the frames of a session (`protocol.rs`) |
| `Tcp` | the connection, as `transfer.rs` meets it (external) |
| `AppState` | one session's share of each host's `AppState`, and the web handlers that touch it |
| `Sender` | `send_files` and `SendSession` |
| `Receiver` | `receive` and `receive_files`, with the disk |
| `Transfer` | composition of the two hosts, their users and the environment; the properties |
| `Delivery` | abstract: what a session promises the receiving user |
| `Answering` | abstract: what a host promises whoever answers when it asks about a session |
| `Claims` | statements of the documentation and comments that the code does not keep |
| `Framing` | the codec over a byte stream, at both ends of a connection (`codec.rs`) |
| `FrameQueue` | abstract: the queue of whole frames that a stream with a codec at both ends is |
| `Inbox` | the download directory under several sessions at once |
| `Discovery` | announcing, answering, pruning, listing and probing of all hosts |
| `Events` | the broadcast channel and its WebSockets |
| `Approvals` | the sessions that wait for the user of a host, over all tabs (with `Events`) |
| `Listing` | a host's list and history, and the rows of its tabs (with `Events`) |
| `MCTransfer`, `MCInbox`, `MCFraming`, `MCDiscovery`, `MCApprovals`, `MCListing` | instances for TLC |
| `TransferProofs` | lemmas about the connection; theorems about a session: types, approval, integrity, the refinement of `Answering` |
| `SessionProofs` | what the two hosts agree on, what is left behind, the refinement of `Delivery` |
| `FramingProofs` | theorems about the codec and the stream |
| `InboxProofs`, `DiscoveryProofs` | theorems about the directory, the peer list |
| `EventsProofs`, `ApprovalsProofs`, `ListingProofs` | theorems about the event channel, prompts and answers, list and history |

`Sender` and `Receiver` extend `Tcp` and `AppState`; `Transfer` extends both.
`Approvals` and `Listing` extend `Events`. The parts meet at these seams: what
`Framing` hands out (whole frames in order, then perhaps an error for a cut
one: the `FrameQueue` it implements) is what `Tcp` takes for granted; `AppState` has one session's approval at
the grain of its locks, `Approvals` the same calls for many sessions and tabs,
and both implement `Answering`, the first although its `decide` takes two steps;
`Sender` and `Receiver` say in which order a session calls `AppState`,
`Listing` takes the calls as they may come and says what is seen of them.

**How actions correspond to code.** An action is the code from one access to
something shared (a lock, a channel, the socket, the disk) up to the next.
`spc` and `rpc` say where the handler and the task wait, and each action's name
is what the code does there; `map` in `PROJECT.json` gives the lines. Some
correspondences that are not obvious:

* `set_status` is two steps, `SetStatus` under the `transfers` lock and
  `DropToken` under the `cancel_tokens` lock (state.rs:244-272). A handler
  dropped in between leaves the token.
* `await_decision` is four: `AskForDecision` (insert), the verdict or
  `DecisionTimesOut`, `GiveUpAsking` (only then is the receiving half dropped),
  `ForgetDecision` (remove). `decide` is two, `DecideTakes` and `DecideSends`;
  `cancel` is `CancelFires`, then `CancelRejects`, then `DecideSends`.
* A `biased` select is a guard: `CancelNoticed` and `CancelledWhileWaiting`
  need a fired token, and what else the select could do needs it not fired.
* `check_live` is the three ways `CheckLive` refuses and the two ways
  `WriteChunk` goes on (nothing on the socket, or a frame it ignores).
* A `?` with nothing behind it goes to `"quit"`: the session ends unsettled.
* What the disk may do wrong is `DiskFailure`, one action for each await that
  may fail. The two `let _ = remove_file` are among them: `DiscardFails` and
  `CleanUpFails` do all that `CompleteFile` and `CleanUp` do, but the `.part`
  stays.
* Content is counted in units. A SHA-256 is modelled by what it tells apart:
  `got` units received, `clean` if they are the sender's and unaltered.
  `whole` is history: it records, when a file gets its final name, whether it
  has the content the sender read.
* `consent` and `misfortunes` are history too: the user's click and the number
  of things that have gone wrong.
* In `Discovery` the clock is turned round: what the code stores as a time is an
  age that `Tick` makes older. `Tick` waits for datagrams in flight and for
  overdue tasks, which says that a datagram arrives within a tick or never and
  that a sleeping task is at most `Late` ticks late. A host is its fingerprint.
* `announce` sends to three addresses, so a host may get up to three copies (two
  in the run, which is what makes a duplicate);
  `lost` counts how many messages in a row got lost between two hosts, and the
  network may not lose more than `MaxLost`.
* `events[t]` is what the WebSocket of a tab has not read; `Kept` drops the
  oldest, which is what `Lagged` followed by `continue` comes to.
* In `Approvals`, `TimeOut`, `GiveUp` and `Decided` are the end of
  `await_decision`: the timer elapses, the receiving half is dropped, the entry
  leaves `pending`. A click may come at any point between them; `decide` tells
  it ok if the receiving half is still there. `missed` is history: the prompts
  that a tab lost to lag, reload or reconnection, or has already answered.
* The countdown of a prompt starts when it comes to the top of a tab, at the
  earliest when `Incoming` was emitted, just before the session begins to wait,
  and both last 120 s; `Countdown` neglects that difference and requires the
  wait to be over. `asking` is left only by `TimeOut` or an answer.
* In `Listing`, `Leave` is every way out that sets no status: the `?` in `open`
  and before `receive_files`, and a handler dropped with its request. `Record`
  may fail, which the code logs. `excused` is history: whose row was cleared,
  not written, or in a table that was only in memory.
* `ShowList` is the part of `refreshTransfers` after its await, so what it shows
  may be older than events handled meanwhile; `FetchList` is the server's answer.
* In `Framing`, `DecodeFrame`, `DecodeFails` and `DecodeNothing` are the three
  results of `decode`, and `poll` is what tokio's `Framed` does with them.
  `Upper(n)[k]` is n shifted right by k digits, which is where `put_u32` takes
  the digits of a length from. That `FramingAssumption` asks for
  `Upper(MaxFrame)[LengthDigits] = 0` says that 16 MiB fit into four bytes.
* In `Approvals`, `Without` takes the prompt out of the queue that `findIndex`
  and `splice` take out (app.js:171): the first with the identifier.

## Runs

The runs of a session, of the directory and of the peer list check for
deadlock. `Rests` (`AllEnded` in `Inbox`) is the explicit end: the handler is
gone and the receiving task is done or waits for bytes that will never come,
which the code allows because it has no idle timeout. `approvals` and `wire` do
not: nobody has to start another session, nor the sender another frame.

| run | instance | shows |
|---|---|---|
| `safety` | files of 3 and 0 units, chunks of 2, sockets of 2 frames, safe and unsafe manifests, both verdicts, cancels from both users, any 2 of 7 misfortunes | type correctness, approval, integrity, agreement on the verdict, agreement on completion, the sender's Cancelled, refinement of `Delivery` and `Answering` |
| `liveness` | one file of 1 unit, socket of 1 frame, cancels from both users, 1 hang-up or network failure | no `.part` left, and the four liveness properties |
| `wire` | bytes 0 to 2, lengths of two of them, frames up to 3 bytes, 2 frames out of a command, Data of the same bytes, empty Data, Data of the largest size and one too large; 1 altered byte | what the codec keeps over any split |
| `inbox` | 4 sessions, 2 with the same name and 1 with that name's `.part`, both names taken by the user, 2 units each | what colliding sessions cannot do |
| `discovery` | 2 hosts, broadcasts pass one way, probes go the other; 2-second ticks, 2 broadcast addresses, every second message may be lost, tasks up to a tick late, hosts stop and start | the peer list |
| `approvals` | 2 sessions, 2 tabs, a channel of 2 events, 1 reload, disconnection or restart | prompts and answers, refinement of `Answering` |
| `listing` | 1 session, incoming or outgoing, 1 tab, a channel of 2 events, 2 reloads, disconnections or restarts, a table on disk or in memory | rows, list and history |
| `claim_*` | the smallest instance that shows each | the findings |

**Properties of a session.**

* `NothingWithoutApproval`: no file on disk unless the user clicked Accept.
* `LandedIsWhole`: a final name has exactly the content the sender read.
* `VerdictsAgree`: the sender is Active or Completed only on an accepted
  session, Rejected only if nothing is on disk, and never both against a
  Rejected receiver.
* `AgreedCompletion`: Completed on both sides accounts for every file.
* `SenderCancelledByClick`: the sender is Cancelled only after a click.
* `NoLeftovers`: the receiving task ends without a `.part`, unless the disk
  itself fails.
* `DeliversAsPromised`: refinement of `Delivery`. Files start in order and one
  at a time, after consent; what has landed stays; nothing starts or lands
  after `receive_files` has returned; a `.part` is left behind only in a step in
  which the disk fails, and then it is that of the open file. The mapping takes
  `phase` from `rpc`, each file's place from the disk, the open file and the
  file's progress entry, and `faults` from `misfortunes`: a `.part` is `Partial`
  as long as the task has it open and `Left` once it has turned away from it,
  which `Leave` allows only while `faults` goes up. When the phase is `Over`
  nothing is `Partial`. A final file that is not whole maps to no place of
  `Delivery`.
* `DecidesAtOnce`: refinement of `Answering`. Between the step of `decide` that
  takes the channel and the one that sends the answer the timer may fire, a
  Cancel come and the task go on; still an answer counts once, before the time
  is up or not at all, and no verdict changes when the question is over.
* `ReceiverFreed`, `ReceiverCancelEnds`, `CancelWhileWaitingEnds`,
  `UndisturbedCompletes`: see their comments.

**Properties of the directory.** `UsersFilesKept`, `NoPartLeft`,
`DoneMeansThere`, `AloneIsIntact`: whatever two sessions with one name do to
each other, the user's older files, the sessions with other names and the
absence of `.part` files are not affected. `Spared` names the exception: what is
called `x.part`, while somebody sends `x`, is not safe (see Findings).

**Properties of the stream.** `FramesAsSent`: however the stream is split and
wherever it stops, the frames read are those sent, by kind and content, and it
ends without an error exactly if none was cut. `KeepsFrames`: refinement of
`FrameQueue`, which adds what that says of steps: each frame comes out once and
in its turn, what was handed out stays, and nothing comes after the end.
`BufferBounded`: the decoder
never waits with more than the largest frame in its buffer, whatever length an
altered header announces. `AllHandedOut`: no frame waits for the one behind it.
`ReadingEnds`: a sender that has hung up lets the reader come to an end.

**Properties of the peer list.** `NoGhosts`: a peer that has gone is listed for
less than twice `STALE_TIMEOUT`, plus what the pruning is late; so the 30 s of
`get_peers` never decide. `StaysListed`: a host whose broadcasts get through
stays listed, for good, while both are up: neither losses nor late timers nor
the pruning make it flicker. `NoFlicker` is the safety half of that: from the
moment it is heard of, not only in the end. `FindEachOther`: if broadcasts pass in either
direction, both hosts list each other again and again, through the unicast
replies. `ComesToRest`: replies do not set off replies.

**Properties of prompts and answers.** `PromptShown`: while a session waits, its
prompt is in every tab, or on its way, unless the tab lost it to lag, reload or
reconnection or has answered it; no other prompt's end takes it along.
`AckedIsVerdict`: whoever is told ok gave the verdict, except for an answer
that comes in the instant the wait times out. `AnsweredOnce`: refinement of
`Answering`, for all sessions and tabs at once and over restarts. `StalePromptsGo`: no prompt stays
for ever, also in a tab that misses `Decided`.

**Properties of list, rows and history.** `DoneIsRecorded`: what `SessionDone`
has announced is in the table with the same status, also after restarts.
`RowsConverge`: whatever is lost or late, the rows of a tab end up as the
server's list says; a receiver completed without its file keeps a row that
looks as if it went on, the visible side of finding 2.

**Bounds, and why they are enough.** Two files are needed for an open file to
meet the next `StartFile` and for a manifest to be partly done; 3 units with
chunks of 2 make a full chunk, a remainder in the buffer and reads that end
inside and at a chunk; an empty file goes from `StartFile` to `FileComplete`
with nothing in between. Sockets of 2 frames block the sender at every point of
a file; 1 frame, in `liveness`, is the tightest backpressure there is. Two
misfortunes combine, for instance, a network failure with a broken upload; each
of the seven happens in the passing runs. `MaxRead` bounds what one read of the
upload yields. In `Inbox`, two sessions are what a collision takes, the third
wants what is called like their `.part` and the fourth is the bystander;
`Copies` stands for the 9,999 of `unique_path` and is as large as the number of
sessions with one name, so the fallback to the taken name is not reached. 2
units make a writer that is behind its own file.

In `Framing`, two frames are what it takes for one to be mistaken for a part of
the other; a length of two digits makes headers arrive in pieces, and an
altered one announce more than `MaxFrame`. In `Discovery` a tick of two seconds
keeps the ratios of the code (announce 1, stale 5, shown 15) and two hosts are
what a property of two hosts takes: what a third one does touches neither their
entries of each other nor their messages. In `Approvals` two sessions compete
for the top of the queue and two tabs for the answer; a channel of 2 events
lags as soon as a tab skips a turn. In `Listing` sessions do not touch each
other's entries, rows or table rows, so that one is enough for the passing run;
they do meet in `Tag`, and `claim_tagged` has two.

**Each property has a variant of the code that breaks it**, defined next to
the definition it would replace and marked as a variant: a guard dropped, a
flush forgotten, a token looked at too late. The property's run finds it.

**Fairness.** `FairSpec` assumes weak fairness of the handler's and the task's
own steps, of their timers and of the web handlers that have been called: the
tokio runtime polls what is ready and fires its timers. It assumes nothing of
users, of the browser or of the environment. A browser that keeps uploading is
a premise of `UndisturbedCompletes` only. In `Discovery` it is time that
passes, tasks that run when they are due (with a bound on how late) and sockets
that are read; hosts need not start, stop or probe. In `Approvals` and `Listing`
it is a tab's event loop, its timers and its periodic fetch, and that a wait
ends; nobody has to click, and a tab need never connect. In `Framing` it is the
task that reads; the sender may stop at any byte. `RESPONSE_TIMEOUT` (135 s) against
`DECISION_TIMEOUT` (120 s) is the one place where the lengths of two timers
matter: `SenderTimesOut` requires that no answer can come any more, and a
receiver that is suspended past the 15 s between them is the misfortune
`"slow"`.

## Findings

Five statements of the repository that the code does not keep, each with a run
whose counterexample shows how.

1. `ReplyMeansDelivered` (server.rs:212, DEVELOPMENT.md:14). The answer to
   `/api/send` comes when the local socket has taken `SessionComplete`.
2. `CompletedMeansEveryFile` (src-tauri/src/lib.rs:179). End of stream at a
   frame boundary completes the session, with however many files missing.
3. `ClickIsHeard` (state.rs:339, test at 449). The prompt is out before
   anybody waits for its answer: a click in between is lost.
4. `CheckedIsOnDisk` (README.md:14, DEVELOPMENT.md:46). Two sessions with one
   name share a `.part`; the file that lands is not the one that was checked.
5. `TagIsOwn` (web/app.js:765). The first unfinished upload in the host's list
   is taken for the tab's own, be it another tab's or one left behind by an
   early exit; Cancel then aborts the wrong fetch, or none.

Met while modelling, plain from the code or from the models above, and without
a run of their own:

* A sender's error is sent as a `CancelTransfer`, so the receiver shows
  Cancelled though nobody clicked (transfer.rs:728 against state.rs:72).
* Early exits of `open` and `receive` leave the token registered and the entry
  Pending or Active for good (transfer.rs:559-574 against state.rs:37, 231).
* `unique_path` looks for the final name only. A file that is itself called
  `x.part`, the user's or a received one, is truncated by `File::create` when a
  file `x` comes, and then renamed or removed (transfer.rs:376-380), where
  DEVELOPMENT.md:48 says "Los nombres existentes no se sobrescriben".
  `UsersFilesKept` and `DoneMeansThere` are stated of `Spared` names for that
  reason: without it TLC finds the second violated in the instance of `inbox`,
  and the first where the user has `x.part` but no `x`.
* `active` is emptied before flush and rename, so a disk error there escapes
  the cleanup and the `.part` stays (transfer.rs:419 against 458); and where it
  is removed, for a wrong checksum or in the cleanup, a failure of that is
  ignored (transfer.rs:431, 460). The session goes on with the next file, or
  settles as if the `.part` had gone. `NoLeftovers` is checked without a failing
  disk for that reason; `DeliversAsPromised` is checked and proved with one, and
  says that nothing else is affected.
* A `decide` that comes in the instant the wait times out, before the receiving
  half is dropped, is answered with ok and counts for nothing (state.rs:329,
  339); `AckedIsVerdict` allows just that.
* A prompt is not repeated: a tab that is reloaded, reconnects or lags while a
  session waits cannot answer it (`missed` in `Approvals`).
* "manual connect by IP still works without it" (lib.rs:46): it goes through
  discovery's socket and answers with an error without it (server.rs:362).
* The desktop shell's `while let Ok(event)` (src-tauri/src/lib.rs:154) ends for
  good at the first `Lagged`, where `handle_ws` reads on.
* `sendSelected` reads `selectedPeer` after an await and outside its `try`
  (app.js:761): without a peer by then, `sending` stays true until a reload.
* A click on the modal answers the prompt on top at that moment (app.js:225),
  which may have changed since the user looked.

## Proofs

TLAPS proves, for every manifest, every size, every window and chunk, every
set of misfortunes and any number of them:

* **`TypeCorrect`: `Spec => []TypeOK`.** `TypeOK` is not inductive: `cur + 1`
  stays in range only because the handler moves on only while files are left,
  and `buf - ChunkSize` is a natural number only because a chunk is cut only
  when the buffer holds one. `TypeInv` adds these (`SenderInv`), and
  `TypeInvHolds` proves it.
* **`ApprovalRequired`: `Spec => []NothingWithoutApproval`.** The click travels
  from the handler's hand through the oneshot into `accepted`, and only that
  opens the way to the loop. `ApprovalInv` says of each station that it holds a
  yes only if the user gave one, and that the loop is entered only with
  `accepted`.
* **`LandedFilesAreWhole`: `Spec => []LandedIsWhole`.** The receiver compares
  what it got with what `FileComplete` says, so the property rests on the
  sender's honesty: every `FileComplete` on the wire counts the whole file.
  `WholeInv` says so of every frame in flight, through loss, truncation,
  resets, network failure and alteration of Data frames (the lemmas
  about `Tcp` hold for any set of frames closed under the last), and that the
  handler is past the end of the field when it writes one.

* **`DecideIsAtomic`: `Spec => DecidesAtOnce`**, the refinement of `Answering`.
  `DecideTakes` maps to a stutter, for the question is open as long as somebody
  has the channel in hand, `DecideSends` to the answer or, too late, to
  `Withdraw`. `QuestionInv` relates the stations: the channel is in `pending` or
  in one handler's hand, not in both, and as long as it is in either there is
  no answer in it; somebody listens exactly while it is not closed.

The next ones are in `SessionProofs`, for the two hosts together:

* **`HostsAgree`: `Spec => []VerdictsAgree`** and **`CancelledByClick`:
  `Spec => []SenderCancelledByClick`**, from `SessionInv`. `accepted` does not
  change once the receiving task has come to its reply (`PastReply`), and every
  frame on its way to the sender is true (`Answer`): a response carries
  `accepted`, and a `CancelTransfer` on an accepted session has a fired token
  behind it. A token is registered once, before anybody can fire it
  (`ClickInv`), so that a click stays a click.
* **`OrderHolds`: `Spec => [](TypeInv /\ OrderInv)`**, on which the rest
  depends. A session has stages, one for each file and one between each two.
  The frames on the wire are a chain, each going on at the stage where the one
  before it ends; the sender is at the stage where the chain ends, and a
  receiver that still reads is at the stage where it begins, with exactly the
  files before that stage settled (landed, or marked with an error, whether its
  `.part` could be removed or not) and no other touched. A `CancelTransfer` or
  a cut frame breaks off a chain, and nothing reads past it.
* **`CompletionAgreed`: `Spec => []AgreedCompletion`.** `CompletionInv`: if the
  sender calls the session completed and the receiver will still read all there
  is, the last frame on the wire is `SessionComplete`. So whoever reads up to
  an end of stream without it has a sender that never completes; whoever reads
  it is, by `OrderInv`, past the last file.
* **`NothingLeft`: without `"disk"` among the misfortunes,
  `Spec => []NoLeftovers`.** A `.part` is that of the open file (`PartInv`),
  `CleanUp` removes the open file's, and a task that has ended has none open.
  The hypothesis is one of the findings without a run (`active` is emptied ...):
  with a failing disk it is false.
* **`KeepsItsPromise`: `Spec => DeliversAsPromised`**, the refinement of
  `Delivery`: initial states map to initial states (`PromiseInit`), `OpenFile`
  to `Begin`, `CompleteFile` to `Land` or `Lose`, the cleanup to `Sweep`, a
  failing rename or removal to `Leave` (`TurningAwayLeaves`: `misfortunes` goes
  up in that step, and in no step of the task's own, see `OwnStepsHold`), the
  end of the task to `Finish`, and every other step leaves all places where
  they are (`PromiseStep`). `OrderInv` gives the order of the files and that one
  is open at a time, `LandedIsWhole` that what lands has a place.

For the codec, for every base, number of length digits, largest frame and set
of payloads, in `FramingProofs`:

* **`LengthsReadBack`: `Number(Digits(n)) = n` for `n` up to `MaxFrame`.**
  `Upper` and `Number` are recursive functions. The library's induction
  theorems take an operator and cannot be used, but a set of natural numbers
  without a least element is empty (`WFMin`), and that takes a set: `UpTo` is
  induction up to a bound in this form, and `Recursion` shows with it that the
  functions exist. The step is n = (n div Base) * Base + n mod Base.
* **`TypesHold`** and **`BufferStaysSmall`: `Spec => []BufferBounded`.** The
  buffer may be much larger right after a read; the decoder only goes back to
  reading when less than a frame is left.
* **`FramesArrive`: `Spec => []FramesAsSent`.** `StreamInv`: what is in the
  buffer, on the wire and in the sender's write buffer is, in this order, what
  the frames not yet handed out are encoded to, cut at known places
  (`Cutting`). A read or a flush moves bytes without changing that stream;
  sending adds a frame at its end (`CuttingGrows`), and decoding takes exactly
  the first one off (`FirstFrame`, `CuttingShrinks`), for which its length must
  be read back. At the end of the stream nothing is on the wire, so what
  remains in the buffer is a part of the frame the sender was in (`AtTheEnd`).
* **`FramesQueue`: `Spec => KeepsFrames`**, the refinement of `FrameQueue`: the
  last byte's `Flush` is `Put`, `DecodeFrame` is `Get`, the ends are `Finish`,
  and after an altered byte both are `Garble` (`DecodeGets`, `ReaderQueues`).
  This is what `Tcp` takes for granted.

For the download directory, for any set of sessions, names, sizes and any
number of copies:

* **`TypeCorrect`, `PartsGo`, `DoneIsThere`**, from `InboxInv`: what exists is a
  `.part` in use, one of the user's names or the name of a session that is done
  (`PartInv`), so no other `.part` is left when all have ended; a file and the
  path it is under are of one family of names, a name with its copies and their
  `.part`, and a session only has files of its own family open (`FamilyInv`); a
  session's final name is the one it wants or a copy (`NameInv`), so nobody's
  cleanup removes a spared file that was reported as done (`SparedPath`).
* **`LonelyFilesAreIntact`: `Spec => []AloneIsIntact`.** `OwnInv` says that the
  `.part` of a session alone in its family leads to the file it has open, which
  holds exactly the units it has passed on, even where it was the user's
  `x.part` before. `OthersKeepOff` is the frame: a session of another family
  leaves its paths, its files and its state alone.
* **`UsersFilesStay`: `Roomy => (Spec => []UsersFilesKept)`.** `Roomy`: no more
  sessions want a spared name than there are copy numbers. Every taken copy is
  taken by a session that is done, and by the pigeonhole principle one is free
  for the session that is to pick (`FreeCopy`), so that no final name is the
  user's; and a file of the user's is never opened, since it is under its own
  name only (`KeptInv`, `NeverOpensKept`). Without `Roomy` it is false:
  `unique_path` falls back. For names that are not spared it is false, too
  (transfer.rs:376, under Findings).

For the peer list, for any hosts, network and intervals:

* **`TypeCorrect`** and **`GhostsGo`: `Spec => []NoGhosts`.** `NoGhosts` is not
  inductive: an entry's age and the pruning timer grow together, and pruning
  only removes what is stale by then. `AgeInv` relates them: an entry is younger
  than `Stale` plus the ticks since the last pruning.
* **`PeersStay`: `Patient => (Spec => NoFlicker)`.** `Patient`: `Stale` is more
  than `MaxLost + 1` announcements take, each as late as it may be, and
  `get_peers` shows whatever the pruning has left. With the intervals of the
  code that is up to three losses in a row if timers are on time, and one if
  they are up to a tick of two seconds late. `InTouch` says that the entry of a
  peer is no older than the messages lost since then and its timer account for,
  unless one is on its way that makes it new; it holds as soon as the peer is
  heard of and as long as both are up (`StayInTouch`). A loss may be that of a
  reply or a probe, too: it adds to what is allowed, not to the age.

For prompts and answers, for any number of sessions, tabs and upsets:

* **`AckedCounts`: `Spec => []AckedIsVerdict`.** `AnswerInv` says that a session
  with an acknowledged answer is out of `pending` and has begun to wait: nobody
  can put it back there, and only who takes a channel out of `pending` sets a
  verdict, so nobody overrules the answer but the timeout.
* **`OneAnswerCounts`: `Spec => AnsweredOnce`**, the refinement of `Answering`:
  a click and a Cancel map to `Answer`, or to `Withdraw` where nobody listens
  any more, a restart to `Stop`. `OfferInv`: a session that waits with its
  channel still in `pending` has no verdict yet.
* **`TypesHold`**, which says that no queue holds a session twice, and
  **`PromptsStay`: `Spec => []PromptShown`.** A prompt that has gone from a tab
  may have been dismissed by a `Decided`, so `PromptInv` adds that a `Decided`
  in any channel belongs to a session whose wait is over, and it covers the
  sessions that are about to wait too, whose prompt is announced first.

For list and history, for any number of sessions, tabs and upsets:

* **`TypesHold`: `Spec => []TypeOK`.** `ShapeInv` adds that what is listed, or in
  a list on its way to a tab, has its place in the order of opening, and each
  session once in such a list, so that what a tab makes of it is made of
  outgoing sessions. `KnownInv` adds that whatever has that place, or is tagged,
  has been opened: a tag outlives its list, and a restart of the host.
* **`RowsRecorded`: `Spec => []DoneIsRecorded`.** Between the row's writing and
  the announcement the handler reads nothing again: `RecordInv` says that in
  between the entry keeps its final status and the row agrees with it.

They rest on the named assumptions of the modules: at least one file, natural
sizes, window, chunk and read of at least one (`FilesAssumption`,
`WindowAssumption`, `SenderAssumption`), the ranges of the environment's
parameters (`TransferAssumption`), and the types of the constants
(`InboxAssumption`, `DiscoveryAssumption`, `EventsAssumption`,
`ApprovalsAssumption`, `ListingAssumption`, `FramingAssumption`). Each theorem
has an initial-state lemma, a step lemma with one case per action, and a
temporal step.

TLC finds the inductive invariants to hold on the instances of the runs.

Every invariant and every refinement that a passing run checks is proved. Only
model-checked: the liveness properties, which need fairness and `ENABLED`, and
the refutations under [Findings](#findings). The former are `ReceiverFreed`,
`ReceiverCancelEnds`, `CancelWhileWaitingEnds`, `UndisturbedCompletes`,
`AllHandedOut`, `ReadingEnds`, `StaysListed`, `ComesToRest`, `FindEachOther`,
`StalePromptsGo`, `RowsConverge`. The seams between modules are arguments of
this document: no theorem derives `Tcp` from `FrameQueue`, whose frames it also
takes away with a reset. `AppState` and `Approvals` meet in `Answering` only.

## Not modelled, and why

* Progress events, byte counts and time stamps: they feed the display only.
* Peers that do not speak the protocol (unknown file identifiers, wrong tokens,
  an empty manifest, unexpected frames): the peer is this program.
* A manifest partly accepted: the receiver gives every file the same verdict.
* A browser whose upload differs from its manifest: the code never compares
  the two sizes, and a field is taken to have the size it announces.
* A failing removal of a `.part` in `Inbox`: `Receiver` has it, where the
  session's own files are at stake.
* More than one request for the list on its way from a tab: `FetchList` waits
  for the answer to the last, where the page may ask again every two seconds
  and get the answers in another order. What is shown is then older than what
  was shown before for one more round, and the list is asked for again.
* The moment between `emit(Incoming)` (transfer.rs:234) and the start of the
  server's timer (state.rs:329), as far as `Approvals` is concerned: a tab's
  120 s are taken never to run out before the server's, although they may
  start that much earlier.
* Directories, symbolic links and the text of paths (`safe_join`): a manifest
  is safe or not, a destination is a name. One that is called like another's
  `.part` is modelled, as a name without an extension, where the copies meet as
  well; one called `x.part.part` or like another's copy, `x (1)`, is not.
* Killing a process while it receives: nothing is recovered at the next start,
  and the `.part` stays.
* Two hosts with one alias and the same ports, which have one fingerprint: they
  ignore each other's messages and replace each other in every list. Steps of
  the wall clock, which `last_seen` and the ages of entries are read from.
* In the page: the choice of peers and files, previews, rates and toasts.
* Start-up, the command line, static assets and the desktop shell: no state
  that changes after the start.

## Plan

What is left:

1. A specification of a connection between `FrameQueue` and `Tcp`, with resets
   and half-closes, that `Framing` can be shown to implement.
2. Several files and directories of one session in `Inbox`, if `safe_join`
   comes to do more than refuse.
3. Early exits that leave an entry Pending or Active: once the code settles
   them, as a liveness property of `Transfer`.
