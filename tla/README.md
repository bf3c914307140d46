# AIMORAStudio: TLA+ models and proofs

AIMORAStudio is a Qt application that edits drawings and talks to a Julia service
running in a process of its own. This directory models the parts of it that keep
state over several events: the controller that launches and supervises the service,
the client that speaks to it, the frames on their connection, the command that tests
both, and what the window remembers between two runs.

Everything is written from the C++ sources under `src/`; where a property speaks of
what a document or a test promises, its comment quotes the line.

## 1. Inventory

| Part | State it keeps | Operations | Interaction | What must be right |
|---|---|---|---|---|
| Service process controller (`packages/protocol/src/service_process.cpp`) | state, two request flags, restart count, failure code, two timers, queued starts, the session with its token file, one `QProcess`, one client | `start`, `stop`, `restart`, destructor; slots of both timers, of the process and of the client | owns the client, launches the child with the session on its command line, hears of both through Qt signals in any order | no orphan, no wait without a deadline, no client on a leftover child, bounded restarts, nothing launched after a stop but what was queued before it, no token left behind, every wait ends |
| Service client (`service_client.cpp`) | state, table of pending requests, hello ID, sequence number, input buffer, socket | `connectToService`, `close`, `sendRequest`, `cancelRequest`; slots of the socket | writes and reads frames; answers reach the application through slots that may call back | bound of the table, no entry leaks, at most one answer per request, nothing before authentication but the hello, one failure per connection unless an answered shutdown overwrites it |
| Frame codec (`frame_codec.cpp`) | none; it works on the client's buffer | `encodeFrame`, `takeFrame`, binary payloads | called in the client's read loop | independent of how the stream is cut, limits enforced at the header |
| Service messages, limits, generated names | none | parse and build JSON, validate | used by the client | well-formedness; data |
| Service smoke command (`apps/studio/main.cpp`, `runServiceSmoke`) | exit status, ping ID, overall timer, event loop | one journey | drives the controller | it returns; success only when earned; a failure before the ping is reported |
| Workspace (`packages/shell`) | panels shown, floating, pinned; window maximized; the `workspace` group of the settings | view and pin actions, close, restore, reset | constructor restores, `closeEvent` saves in several writes | a pinned panel is visible; what was saved comes back; a save that was cut short comes back as its own layout with a split of old and new pins, and no worse |
| Themes (`packages/themes`, menu in `packages/shell`) | requested and effective mode, tokens, stored mode, checked action | `setRequestedMode`, `colorSchemeChanged` | notifies the window; told by the desktop | what is shown, stored and effective agree |
| Commands, viewport, inspector, application info | a map filled once; value types; strings | look-ups and arithmetic | used by the shell | no behaviour over time |

What is hard here is order. The controller's events (a timer that is due, the ready
record in a pipe, a connection that breaks, a process that ends, a start queued for
the next turn of the event loop, and the calls of the application) arrive in any
order, and several of its slots do not look at the state they find. The test suite
runs four service journeys, each in the order in which a mock service plays it.
`PROJECT.json` lists every such hazard at its line, with the properties that watch it.

## 2. Modules

| Module | What it is |
|---|---|
| `ServiceController` | the code of the controller: its timers, its session and the child, one operator per call, slot and helper |
| `ServiceProcess` | the controller with a summary of the client: what its properties and proofs are about |
| `ServiceSession` | the controller with `ServiceClient` itself in the place of the summary; implements `ServiceProcess` |
| `Supervision` | the abstract promise of the controller; `ServiceProcess` implements it |
| `ServiceProcessProofs` | the inductive invariant of `ServiceProcess`, and the theorems |
| `SupervisionProofs` | the proof that `ServiceProcess` implements `Supervision` |
| `ServiceSessionProofs` | the inductive invariant of `ServiceSession`, and that it implements `ServiceProcess` |
| `ServiceClientProofs` | the inductive invariant of `ServiceClient`, and that it implements `ClientConversation` |
| `ServiceSmokeProofs` | that the smoke command is a controller, and what its exit status means |
| `FrameCodecProofs` | that `TakeFrame` undoes `EncodeFrame`, and the invariant of the read loop |
| `WorkspaceProofs`, `ThemeProofs` | the inductive invariants of `Workspace` and `Theme` |
| `ServiceClient` | the client, its socket, and the service at the other end |
| `ClientConversation` | the abstract promise of the client; `ServiceClient` implements it |
| `ServiceSmoke` | `runServiceSmoke` composed with `ServiceProcess` (it extends it) |
| `FrameCodec` | the codec byte by byte, and the client's read loop |
| `Workspace` | panels, settings and their life over several runs |
| `Theme` | theme controller, settings, window and desktop |

Each module opens with its constants and variables; then come the helpers of the
class under the names they have in the code, one action per slot or call, the
specification, and the properties. Definitions marked `mutant` are wrong variants of
the definition that follows them; no specification uses them. They document, for each
property, a plausible mistake in the code that the property catches, and are
listed in `PROJECT.json`.

### ServiceController and ServiceProcess

One action is one turn of the Qt event loop: a whole slot with everything it calls.
`state`, `stopRequested`, `explicitRestartRequested`, `automaticRestartCount` and
`failureCode` are the members of that name; `startupTimer` and `shutdownTimer` say
whether the timer is running; `queuedStarts` counts the `singleShot` calls of
`start()` not yet run; `session` and `tokenFile` stand for the endpoint, token and
directory. `proc`, `signal`, `line` and `childSession` describe the child as Qt and
the operating system see it: `Exited` is a process that is dead but not reported,
`line` is its last ready record in the pipe, and `repeated` records that it printed a
second one. The operators of `ServiceController` that are named `On...` are what the
controller does on an event. `ServiceProcess` conjoins each with what happens to the
owned client, of which it keeps the connection state, `client`, and the next frame in
flight that makes a difference, `wire`.

Two simplifications need a word. A signal that Qt may emit before the call that
caused it returns (`FailedToStart` out of `QProcess::start`, a refused connection out
of `connectToServer`) is the next step instead; the model allows it at once and later,
so both orders are covered, except that the startup timer is then already armed, as
it is in the code after the call returns. And the client's own handlers are
summarised by the state they leave it in; `ServiceClient` has them in full, and
`ServiceSession` shows that the summary leaves nothing out.

`start()` asks for the allowed roots on the disk at every launch, so
`INVALID_CONFIGURATION` is one outcome of every launch, a restart among them. The
destructor is two actions: `Destroy` kills the child and waits, `Destroyed` ends the
wait, with the child reaped or not (`waitForFinished(1000)` may time out). Between them
(`leaving`) the child and its `QProcess` go on, and the slots run; the timers, the event
loop and the application do not. `OnStopIgnored` is the `stop()` that returns at once
because the state is Stopped, a queued start notwithstanding.

The history variables (`requests`, `launches`, `mayRun`, `overtaken`, `reports`,
`repeated`) only record; no action of the code depends on them, apart from the bound on
`requests`. `mayRun` is false from each `stop()` to the next request, and `overtaken`
says that this stop found a start already queued.

### Supervision

What the window may rely on, in six variables: a phase, a child that is `none`, `alive`
or `doomed` (dead or killed, not yet reaped), whether its end was asked for, how many
launches are permitted that nobody asked for just now, how many restarts were granted,
and whether a failure has its reason. `ServiceProcess` maps `phase` to `state` (with
`Authenticating` as `Starting`), `permitted` to the queued starts plus a restart that
waits for the end of the child, and `blamed` to a failure code on record. The
abstraction says what the code does: a service that was given up comes back to
`Starting` when the ready record of its killed child is read late, and only then.

### ServiceSession

The pending table, the request sequence, and both directions of the connection of
`ServiceClient`, whose actions it uses through an `INSTANCE` under the names they have
there. The slots of `ready()` and `failed()` run inside the handler that emits the
signal, so a client's step and the controller's reaction are one action: a client that
fails while the session is in use keeps its table and has its child killed, any other
failure closes it. A client whose socket disconnects without an error is Disconnected
and says nothing, in whatever state but Failed it was. `ConnectClient` starts a new
client for each ready record. The service acts while its process runs. The controller's
own slot of `responseReceived` sends nothing, so a request from inside the answer of a
shutdown, which `ServiceClient` has, does not occur here; the application's slot could
send one, and that case is checked and proved of the client alone. `WireView` is the
refinement mapping: the first frame still unread that the client will refuse, or that
completes the handshake or the shutdown; without one, the request that is still to be
answered.

### ServiceClient and ClientConversation

`pendingRequests` is the table, a set of `[id, method]`; the socket's two directions
are queues `toService` and `toClient`, and `held` is what the service has received
and not answered, so that answers come in any order. A frame is a response with one
of five contents, a binary frame, or garbage (everything `takeFrame`,
`decodeControlMessage` or `parseResponse` refuses). The service may answer twice,
answer what was never asked, and send garbage.

`ClientConversation` says what an application may rely on: stages in order, requests
only when ready, every answer belongs to an outstanding request and comes at most once.
The refinement maps `life` to `state`, `outstanding` to the pending IDs but the hello,
and `answered` to the answers delivered. The abstraction found its own exceptions, all
in the slot that receives the answer to a shutdown, after which `processControlFrame`
still sets `Closing`. The slot may close the client (`CloseDuringShutdownReply`): the
conversation is then `Closing` with nothing outstanding until it is closed again. It may
send another request (`SendDuringShutdownReply`), which stays outstanding. And the write
of that request may fail (`FailDuringShutdownReply`): `fail()` ends the connection,
`Failed` is overwritten by `Closing`, and the loop in `processInput` goes on with the
frames already read, one of which may fail the client again. `overwritten` records that
this happened. In every other case the loop stops at `Failed` and no frame left in the
buffer is ever taken, which is why `Fail` may drop them.

A peer that hangs up with an error (`SocketError`) fails the client; one that hangs up
without (`SocketDisconnected`, the slot of `disconnected()`) leaves it `Disconnected`,
with its table kept, from every state but `Failed`.

### FrameCodec

Bytes are numbers, the header has its twelve, and `TakeFrame` is the code's function. A
peer with slightly larger limits than the client encodes up to two frames, one of the
header bytes 1 to 8 may be damaged (magic, kind and reserved bytes; a wrong length is
what a frame above the client's limits has), and reads deliver any number of bytes. The
properties compare what the client made of the pieces with a reading of the whole
stream. JSON is external: the only JSON document told from others is `{}`.

### ServiceSmoke

Extends `ServiceProcess` with the event loop, the exit status, the ping and the overall
timer. `process.start()` runs before `loop.exec()`: a failure it reports at once quits
no loop, which is why `Launching` ignores it and only the overall timeout ends that run
(hazard at `main.cpp:154`). A second ready record makes a second client, which sends a
ping of its own; an answer that is wrong leaves the result of an earlier one. The branch
for a ping that cannot be sent is unreachable from the slot of `ready()` and left out.
`Leave` and `Return` are the two halves of the controller's destructor, with what the
child does in between; no property says that the child is gone, since the wait may time
out.

### Workspace and Theme

`Workspace` treats each `sync()` as one write of the settings file, with possible
crashes between them, and lets the file be damaged while the application is closed.
`saved` remembers what the last complete save held (nothing after a reset or a rejected
save, unknown once the file was damaged), and `started` the save that is going on or was
cut short. The layout is synced first and each pin by itself, so a launch after a cut
save shows the layout of `started` with its pins up to some panel and those of `saved`
from there on; `RoundTrip` says that it shows this and nothing else, and what it shows
is `saved` from then on. `restoreGeometry` brings back the maximized state, so
`--windowed` only keeps a window from being maximized that was not. The shell smoke test
launches the window over the settings of the user and closes it, which saves them again;
its checks change nothing. `Theme` lets the desktop change at any time and Qt hear of it
later. The areas, sizes and bytes of a layout, and the colors of a theme, are left out.
An invalid `--theme` ends the program before it keeps anything of its own; with
`--reset-workspace` the settings are cleared by then (`main.cpp:261-273`), and what is
left is what a launch with a reset and a crash leaves.

## 3. Runs

| Run | Bounds | What it shows |
|---|---|---|
| `supervision` | 2 automatic restarts, 3 requests | the safety of the controller, over all interleavings, and the refinement of `Supervision` |
| `supervision_progress` | 1 and 2 | launches, stops, restarts end; a failed connection and an ended child are noticed |
| `session` | 0 and 2; for each client a table of 1, 2 IDs, 2 frames unread | the refinement of `ServiceProcess` by the composition; no request outlives its service |
| `client` | table of 2, 4 IDs, 2 connections, 2 frames in flight | safety and the refinement of the conversation |
| `client_progress` | table of 2, 3 IDs, 1 connection | requests and shutdowns end |
| `smoke` | 0 and 1, as the command configures | it returns, success is earned, a failure is reported |
| `workspace` | 2 panels | restore, also of a save cut short between any two writes, reset, damage, `--windowed`, the shell smoke test |
| `theme` | none needed | display, storage and desktop agree |
| `frames` | limits 13 and 14 bytes, 2 frames | cutting, damage, limits |
| `failure_reported_once` | 0 and 1 | **violated**: finding 1 |
| `terminated_child_stops` | 0 and 1 | **violated**: finding 2 |
| `success_is_clean` | 0 and 1 | **violated**: finding 3 |

Why the bounds are enough. Three requests allow a launch, a restart of it and a start
that overtakes what is left of both; two automatic restarts tell "restarts left" from
"the last one" and "none left". The proofs cover every other value. In `session` an
explicit restart and repeated ready records replace clients (an automatic restart gets
there by the same queued start), a table of one is full with a single request, so that
the shutdown request finds room or does not, and two unread frames let a refused frame
hide behind an answer. A table of two with four IDs fills up, empties and is left over
by one connection for the next. Two panels make a save that is cut short between two
pins. The limits of the codec are the least that `ClientLimits::isValid` accepts, so
frames at and one above each of them are short enough to be cut everywhere.
`ReportsCap`, `FailuresCap` and `DeliveredCap` cap history counters at the least value
their properties forbid: two reports, three failures, two answers. Runs whose system may
stop (the requests are used up, the stream ends, the command has returned) do not check
for deadlock.

## 4. Fairness

`ServiceProcess`: Qt runs a due timer and a queued call, hands over output and reports
the end of a process; the operating system starts a process or refuses to, and ends a
killed one. These are weakly fair. Nothing is assumed of the application, nor of the
service: it need not print its record, answer, obey `terminate` or exit by itself.
`RestartHonoured` names every other end of a restart: allowed roots that are gone or a
session that cannot be prepared, which leave the controller Failed with that code, a
later stop and the destruction of the controller. `LossNoticed` is about a client that
failed and a child that ended. A client that is merely Disconnected is not among its
premises: the controller is never told, and may stay Ready (section 6). The wait of the
destructor ends in any case, by its own time limit.

`ServiceSession` assumes the same as `ServiceProcess` and nothing of the client or the
service, so the end of the requests it promises is the work of the controller alone.

`ServiceClient`: a pending connection is decided, what arrives is read, and here the
service is assumed to receive, answer and hang up after a shutdown, and to answer even
while it keeps sending frames of its own (strong fairness); no connection is assumed to
break. The client has no timer of its own, so nothing would end a wait otherwise. In the
composition it is the controller's timers that do, which `supervision_progress` shows
without that assumption.

`ServiceSmoke`: the command starts, its overall timer fires, the loop returns, and the
wait of the destructor ends.

## 5. Proofs

`ServiceProcessProofs` proves, for every `MaximumAutomaticRestarts` in `0 .. 8` (what
`ServiceLaunchConfiguration::isValid` accepts) and every `MaxRequests`:
`TypeCorrect`, `NoOrphanHolds`, `SupervisedHolds`, `SessionBindingHolds`,
`LaunchBudgetHolds`, `BudgetBeforeFailureHolds`, `CredentialHygieneHolds` and
`StopIsRespectedHolds`.

They rest on one inductive invariant, `IInv`. The properties alone are not inductive.
That a client talks to the right child, for instance, survives a new launch only because
a state that allows one (Stopped, Failed) has no active client; and that a finished
process leaves no client needs that a client exists only after its child printed a
record. `ChildBookkeeping` and `StateBookkeeping` say so. `StopBookkeeping` says what a
stop leaves in the flags, and that after one that overtook no queued start none is
queued, from which `StopIsRespected`, an action property, follows. `PromiseBookkeeping`
says what the abstract supervision needs besides: a restart under way was asked for, and
a failure has a reason. Each action has its lemma; `NextIInv` puts them together, and
`Invariance` is the temporal step.

`SupervisionProofs` proves `SupervisionHolds`: `Spec => SupervisionSpec`. The initial
states map to initial states, and under `IInv` each action of `ServiceProcess` is one
named step of `Supervision`, or is not seen (one lemma for each; what the client and the
child do among themselves is not seen at all).

`ServiceSessionProofs` proves `ControllerHolds`: `Spec => ControllerSpec`, for every
size of the table and every number of request IDs and of frames in flight. So the
theorems about `ServiceProcess` are about the controller with its real client too, up to
this renaming: the proof system does not instantiate the theorems of another module, and
that last substitution is left to the reader. The proof has two halves. The first is
about the mapping alone: `Wire(c, p, q)` is `WireView` as a function of the client's
state, its table and the queue of frames, and there is a lemma for whatever a step can
do to them. A frame that joins may become the first that matters if none did before
(`FrameJoins`, `ServiceSends`); a frame that is read and does not matter leaves the
verdict on the others, also when its request leaves the table with it (`BinaryGoes`,
`AnswerGoes`: a later answer to that request was refused as a repetition and is now
refused as unknown); a new request puts nothing on the wire but the question for a
shutdown (`RequestJoins`); after the answer to the hello or to the shutdown only a fault
can remain (`OnlyFaultsLeft`). The second half is the invariant `SessionInv` those
lemmas need: every request and every frame names an ID that was drawn, no two pending
requests share one, only a connected client has anything in flight, the table of a
handshake is the hello alone and that of a ready client holds none. It says nothing of
the controller. Each step of the session then is one of the summary, or is not seen; the
controller's part is the same operator on both sides (`SameLaunches` to `SameChild`).

`ServiceClientProofs` proves, for every size of the table up to the 4096 the
configuration accepts and every number of request IDs, connections and frames in
flight: `TypeCorrect`, `PendingBoundHolds`, `NothingLostHolds`, `PendingIsCurrentHolds`,
`AuthenticatedFirstHolds`, `AnsweredOnceHolds` and `FailsOnceHolds`. None of the
properties is inductive. That no answer comes twice needs that an ID in the table was
drawn and never answered, and that no ID names two requests (`TableBookkeeping`); that
the hello leaves the table exactly when the handshake ends (`HelloBookkeeping`) is what
makes an answer to it different from every other. `SocketBookkeeping` ties the state to
the socket, `AcceptanceGiven` says an acceptance still in flight was given, and
`NotYetFailed` that a connection with a socket has not failed. The invariant is split
into a part about the table and one about the connection, since most actions disturb
only one. `ConversationHolds` is the refinement, `Spec => ConversationSpec`: each
action is one named step of `ClientConversation`, or leaves the conversation alone.

`ServiceSmokeProofs` first proves `SmokeIsSupervised`: each step of the command is a
step of `ServiceProcess` or none, hence `SmokeSpec => Spec`, and every theorem about the
controller holds of the command. `IInv` with what the command adds (nothing before the
launch, one launch in all, no token once the client is ready) is inductive, and gives
`SuccessIsEarnedHolds` and `FailureIsReportedHolds`.

`FrameCodecProofs` proves `TakeUndoesEncode`: for all valid limits, all frames within
them and any bytes behind, `TakeFrame` of `EncodeFrame` is the frame and those bytes,
and of every proper prefix it asks for more. `FlattenSeq` is defined by recursion; what
the proof uses of it (`Prefix`, `Ends`) is proved by `Climb`, induction with the least
counterexample, which the well-foundedness of `<` on the naturals provides. The second
half is the read loop, for any number of frames, one of which may be damaged. The
invariant says that the frames taken are the first ones and good (`TakenInOrder`), that
the wire holds the rest of the stream (`WireIsTheRest`) and the buffer exactly what lies
between (`BufferIsUnread`), that outside of the loop the decoder asks for more
(`AwaitingMore`), and that a failure came from the first wrong frame when it could be
known (`FailedAtFault`). `LoopJudged` says what one step of the loop finds in such a
state; `FramesIntactHolds`, `RefusedAtOnceHolds` and `BufferBoundedHolds` follow. The
frames of the peer and the damage are those the model enumerates, at and one above each
limit; `TakeUndoesEncode` is about all frames.

`WorkspaceProofs` proves `TypeCorrect`, `PanelStatesValidHolds`, `PinsMatchLayoutHolds`
and the action property `RoundTripHolds` for every number of panels. The invariant
describes a save half-way (`HalfSaved`), what the disk holds of a save that was started
(`DiskHoldsStarted`) and of a complete one (`DiskHoldsSaved`), and extends
`PinsMatchLayout` to a window that is open, since a crash does not touch the disk
(`PinsBelong`). `ThemeProofs` proves the four invariants of `Theme`, which are inductive
only together.

The assumptions are those of the modules: `RestartsAssumption`, `RequestsAssumption`,
`PendingAssumption`, `BoundsAssumption`, `LimitsAssumption`, `FramesAssumption` and the
number of panels, each the range the code accepts or a bound that is any number.

Only model-checked: all liveness, which is out of reach of the proof system. Every
invariant, action property and refinement the runs check has a theorem. What is proved of
the operators of `FrameCodec` does not extend to JSON, which is external.

## 6. Findings

1. A program that cannot start fails twice. The slot of `FailedToStart`
   (`service_process.cpp:277-284`) leaves the startup timer running; when it fires,
   `failed()` is emitted again and the code becomes `SERVICE_STARTUP_TIMEOUT`.
   `protocol_tests.cpp:262-264` expects one report with that code.
2. A stop during the handshake may end in Failed. `stop()` terminates the child and
   keeps the client; the socket of the obedient child closes first, and the slot of the
   client's `failed()` does not expect `Stopping` (`service_process.cpp:353-370`).
   `protocol_tests.cpp:223-224` expects Stopped.
3. The smoke command returns zero when the shutdown after the ping fails
   (`main.cpp:96-106`, `129`); `docs/GUI040.md:50-52` promises a nonzero status on
   failure.

Behaviours worth knowing that contradict no document:

- `stop()` does nothing in the short time in which an automatic or explicit restart is
  queued, and the restart goes ahead (`service_process.cpp:158`, `421`, `431`); so does
  one still queued after the application launched the service itself and stopped that
  launch. A service that comes back this way is restarted like any other.
  `StopIsRespected` states what remains: nothing else is launched.
- A connection that ends without an error leaves the controller Ready over a child with
  no client: `disconnected()` sets the client to Disconnected
  (`service_client.cpp:47-52`) and emits no `failed()`, and the controller has no slot
  for it. Nothing ends that state but the child or the application.
- An application whose slot for the answer of a shutdown sends a request that cannot be
  written finds the client in Closing, not Failed, and may be told of two failures
  (`service_client.cpp:231`, `282-292`).
- A crash between the writes of a save mixes two saves: the layout is new, the pins of
  the last panels old (`studio_main_window.cpp:113-118`), and a pinned panel is shown
  though the layout hid it.
- Binary frames are handed to the application in every state of the connection, also
  before the handshake is over (`service_client.cpp:295`).
- The destructor waits one second for a killed child and goes on without it
  (`service_process.cpp:95`).
- A `start()` in Failed, before the killed child was reported, prepares a session but
  launches no process, and the end of the old child is then counted against the
  restarts.
- A ready record or a handshake that arrives late moves a stopping controller back to
  Authenticating or Ready until the shutdown timer fires. A ready record that is read
  after the startup timeout revives a Failed controller, and the end of its killed child
  is then answered by an automatic restart (`service_process.cpp:332`, `426`).
- A second ready record starts the handshake anew when the startup timer has already
  been stopped, and nothing bounds that handshake. `Supervised` and `LaunchSettles`
  except it by name (`repeated`).
- The restart count is never reset; a program that cannot start leaves its token file on
  disk until the controller is used again or destroyed.
- `helloRequestId_` is assigned after the hello was sent (`service_client.cpp:163`): a
  slot of `failed()` that reconnected within `authenticate()` would have it overwritten.
  No caller does, and the models have no such caller.

## 7. Not modelled

The command registry (a map filled once by the constructor of the window, which aborts on
a duplicate), viewport geometry (floating point, no other component uses it yet), the
application information, painting, menu texts and shortcuts, color tokens and style
sheets, the JSON of messages, tabbed docks, the checks of the shell smoke test, and the
build files. An application that opens or closes the client behind the controller's back,
or sends a request while a shutdown is answered, is modelled in `ServiceClient`, not in
`ServiceSession`.

## 8. Plan

Done: the controller with its safety proofs and the proof that it implements the
abstract supervision, its composition with the client and the proof that this implements
the controller with the summary, the client with its abstract conversation, the codec,
the smoke command, the workspace and the themes, with proofs of every safety property
and every refinement the runs check.

Next: the codec's invariant for frames of any content and any number of damaged bytes in
place of those the model enumerates, and the smoke command over `ServiceSession` instead
of `ServiceProcess`, whose ping would then be a request of the real client.
