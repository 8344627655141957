# TLA+ models of PC Bio Unlock

Models, model-checking runs and machine-checked proofs for the unlock path of
this repository: a PC asks a phone whether its user may log in, over the local
network, Bluetooth or an Internet relay, and uses the decrypted password when
the phone approves.  `PROJECT.json` lists components, runs, the source lines of
every definition, hazards and theorems; this file explains them.

## The system

| part | state | operations | talks to |
|---|---|---|---|
| Unlock handler (`common/src/handler`) | shared result, completion counter, mutex, condition variable, one thread per device | `GetResult`, `RunServer` | connections, broadcaster, key scanner, its caller's `isRunning` flag |
| Connections (`common/src/connection/unlock`) | `m_IsRunning`, `m_HasConnection`, `m_UnlockState`, sockets, one token | `Start`, `Stop`, connect or accept loop, `PerformAuthFlow` | phone, storage |
| Presence broadcaster (`UDPBroadcaster`) | an atomic flag, a thread handle | `Start`, `Stop`, `Run` | every device thread of the handler |
| Cloud client and relay (`CloudUnlockClient`, `cloud/`) | a request id and deadline; the table `relay_messages` | create, poll, respond, fetch response; lock commands | phone, PC |
| Android app (`android-app`) | seen requests, one pending challenge per transport, prompt | poll, notify, approve, deny, pair, lock | relay, PC |
| Pairing server (`connection/pairing`) | client counter, threads, UI data | accept, register a device, `Stop` | phone, storage, pairing form |
| Storage (`common/src/storage`) | JSON files of devices and settings, a cache | add, remove, get, load, save | everybody, several processes |
| Windows provider, PAM module, `pcbu-auth` (`natives`) | selection, listener thread, result | select, deselect, retry, serialise | handler, LogonUI or PAM |
| Desktop app (`desktop/src`) | wizard steps, PAM files, command listener | pair, install, lock | storage, relay |

What is hard here is concurrency without locks (the handler's counter and
result, the broadcaster's handle, the settings' mutex released in the middle,
files written by several processes), calls that outlive their purpose (threads
joined while they block), and a relay between two parties that crash, time out
and repeat themselves.  What makes each part correct:

* handler: it returns a success only for a device that was approved, returns one
  if a device was, ends when it is cancelled, and uses nothing it has deleted;
* broadcaster: its calls never end the process, and a beacon that is on is sent;
* cloud unlock: an attempt is decided once, by the first answer, in time, by its
  own user; an answer is not lost in the table; an attempt always ends;
* pairing server: the number of clients it counts is the number it serves, a
  device the phone believes in is stored, `Stop` returns;
* storage: no update of another process is lost, and an unreadable moment of a
  file is not taken for an empty list; settings in memory are those on disk;
* connections: a success is an approval of the challenge they sent, `Stop` ends them;
* Windows provider: one approval logs on at most once, and only the selected tile.

## Modules

| module | models |
|---|---|
| `UDPBroadcaster` | `UDPBroadcaster.cpp`: Start, Stop, destructor and beacon thread called by any threads |
| `UnlockHandler` | `GetResult` and `RunServer`; INSTANCEs `UDPBroadcaster` for the beacon |
| `UnlockAttempt` | abstract: what one attempt to unlock promises, however it is carried |
| `UnlockClient` | the LAN and Bluetooth clients with `BaseUnlockConnection`; implements `UnlockAttempt` |
| `CloudRelay` | the relay's request and response routes and their table |
| `CloudUnlock` | cloud client, relay (INSTANCE) and phone composed; implements `UnlockAttempt` |
| `PairingServer` | the accept thread, the client threads, the phones |
| `PairingForm` | the pages that start and stop the server and its beacon; EXTENDS `PairingServer` |
| `AppSettings`, `DeviceStorage` | the settings with their cache and mutex; the device list and its access rights |
| `Storage` | the operations of two processes on both |
| `LogonPacking` | how a password is packed for Windows (`helpers.cpp`): lengths, offsets, 16-bit sizes |
| `CredentialProvider` | the tiles, their listen threads, LogonUI's calls; EXTENDS `LogonPacking` |
| `PamConfig` | the edits of PAM files and of polkit's unit, as functions on sequences of lines |
| `ServiceInstaller` | what the clicks of the main window and the settings form install and remove |
| `LinuxLogin` | libpam's stack, `pam_sm_authenticate`, `pcbu-auth`; EXTENDS `ServiceInstaller` |
| `MC...` | constants for TLC |
| `...Proofs` | theorems about the module of that name; `PairingProofs` is about `PairingForm` with its server |

A definition that a comment calls *Mutant* is the definition that follows it with
one plausible mistake.  No specification uses it; it is there to show that a
property notices the mistake when it replaces the right one.

### UnlockHandler

A label of `pc` is a place between two accesses to shared state in the code:
`check` is the test of the shared result and of the caller's flag at the top of
`RunServer`'s loop, `client` to `lost` the four decisions below it, `stop` and
`decrypt` its end, `count` to `notify` the lambda in `GetResult`.  `fetch_add`,
`load` and `store` are steps of their own, because the atomics are the only
protection.  A connection is reduced to the two things `RunServer` reads:
`hasClient` and `answer` (`PollResult`); they change at any time between `Start`
and `Stop`, and a success needs an attached phone, as in `PerformAuthFlow`.
Sleeps are left out; the clock is the single event `expired`.  `connection->Stop()`
joins the connection's thread.  For the connections in `MayHang` that thread may sit on a
socket it opened after `Stop` had closed the old one, or on one that is no longer its own
(`UnlockClient` shows how, see `StopReturns` there): `RunServer` then stays at `late`
until the phone does something, which nobody has to.

The broadcaster has a call in progress per thread, since `m_IsRunning.exchange`
and the use of `m_Thread` are separate steps.  Assigning over a joinable
`std::thread` makes `object` "terminated", after which nobody moves.

### CloudRelay, CloudUnlock

The relay's SQL statements are the steps: between the `SELECT` of a route and
its `UPDATE` or batch other calls run; a D1 batch is one step.  `Expired` and
`Open` are the two conditions on a row; the unique index of the migration is
`OneResponse`.  A caller has one call under way, kept in `calls`; the last step
of a route is also the arrival of its reply, but for the reply to a new request:
it takes up to `MaxDelay` ticks, for which the client waits (`Replied`) and by which
its deadline is later.  `CallFails` covers the call that never arrives and the one that
is handled and whose reply is lost.

`thread` is where `RelayThread` is; leaving the thread forgets its locals.  A
ciphertext is the token it holds and the time it was made, so that
`DecryptAESPacket`'s window is part of the model on both sides.  The phone's
`Poll` and `Handle` are separate because a request is marked as seen before it is
decrypted.  `Die` keeps what the app stores (`pending`) and loses the rest; the
call an earlier life sent is still handled.  All clocks agree and the relay
authorises everybody: accounts are not modelled.

### UnlockClient

`m_ClientSocket` is a plain integer that the connect thread and `Stop` both read,
close and reset; `SOCKET_CLOSE` is therefore three steps (`closing`).  The
descriptors are the process's: the lowest free one goes to whichever client opens
a socket next, so a second close may hit another client's.  `overlapped` and `late`
observe these races; the properties name them as exceptions, and state that nothing
else goes wrong.  Before or after the right answer the phone may send one to an earlier
request (`stale`) or a `CANCEL` that its user did not give to this request (`cancel`):
`ProcessUnlockResponseJson` takes the latter for a refusal, as it carries no token.
`unbound` remembers that the last packet was such a `CANCEL`, or another phone's, and
the refinement counts a `CANCELED` that comes of it as a failure of the attempt.  The
response data are left out: each successful answer of a phone carries the same password
key.  A packet is one message.

### PairingServer, PairingForm

A session is a number that stands for the server id and key drawn together when
the QR code is shown; a pairing is named by the connection that made it, whose
password key phone and PC must both keep.  The steps of a client thread are the
reads and writes on its socket, the answer and `AddDevice`.  `num` is
`m_NumConnections`, with the return path that does not give its place back.
`ui = "join"` is `UpdateStepForm` joining a thread, when the window stands still.

### AppSettings, DeviceStorage, Storage

A thread runs the list of routines of an operation (`Routines`), each in the
steps between two accesses to file, cache or mutex; `WriteBytes` empties the file
and then fills it.  `Load`'s unlock and relock of its caller's mutex are steps
(`Relock`).  `expected` is what an atomic list would hold; `trouble` observes a
stale list that was saved, a file that is there and cannot be read or opened, two
writers at once, and a failed write or change of access; of these `failed` observes a
failed change of access alone.

### CredentialProvider, LogonPacking

LogonUI is external and assumed to do what its interface promises: one call at a
time on one thread, `CredentialsChanged` posted and handled between calls, and its
references to tiles dropped before the provider is asked to enumerate anew or is
deleted.  `ui.at` is where its thread is inside a call: joins are waits of their
own.  A listen thread's `unlock` stands for `UnlockHandler::GetResult`, of which
only the outcome counts, and whether there is one: `GetResult` may wait for ever for its
own threads or for a client's (`CtrlAltCancels` and `AllLeftLoop` of `UnlockHandler`), and
the thread is then `hung`.  A string is its number of characters: what is modelled
of packing is which lengths are refused, and where the parts go.  For an account that is
not local Windows packs (`CredPackAuthenticationBufferW`), which is external: something is
handed over, or nothing.

### PamConfig, ServiceInstaller, LinuxLogin

A file of `/etc/pam.d` is a sequence of lines, of which those that the installer
looks for or writes are told apart; blank lines are left out.  A click is a list
of steps, worked off one by one; a step that throws drops the rest (`Throws`), and
the process may be killed between any two (`Interrupt`).  Rewriting a file is two
steps, as `ofstream` empties it when it is opened; polkit's unit is rewritten in one,
which may leave it empty (`UnitLeft`).  A file that is there and cannot be read counts as
empty wherever the code reads one: the entry is then not found (`EntryMissed`,
`SettingMissed`), and added a second time or not removed, or the file is written anew
without its lines (`Unread`).  `hurt` observes what a failed, interrupted or unread step
was about.  The three firewall ports are opened and closed together and are one number.  A login reads its file once, at
any moment, and then runs the lines: `libpam` and `pam_unix` are external.
`runMain`'s comparison of the user's name always holds, since `GetDevicesForUser`
has chosen the devices by it.

## Runs

| run | instance | shows |
|---|---|---|
| `unlock_handler` | two UDP-paired devices, phones attach once each, left Ctrl + left Alt | types, `SuccessIsGenuine`, `NoUseAfterDelete`, `ApprovalLostOnlyByStaleRecheck`, the broadcaster's properties, and that the handler implements its specification |
| `unlock_handler_live` | two devices without broadcaster, one in reach, which may hang; deadline and cancel | `MainWakes`, and that cancel, an approval and the deadline end every `RunServer` but one that waits for a late thread |
| `ctrl_alt_returns` | two devices, keys only | **violated**: see below |
| `cloud_unlock` | two attempts of one PC, in one second or in successive ones, one failing call | types, `DecidedOnce`, `AskedOnce` |
| `cloud_two_pcs` | attempts of two PCs at once | `AnswerIsFound` |
| `cloud_unlock_live` | one attempt, two failing calls, a phone that dies once, replies to the request that are late by up to a tick, TTL of two ticks | `AttemptEnds`, `DecidedOnce`, `LateApprovalNeverUnlocks` |
| `unlock_client` | a LAN client with one retry, a Bluetooth client whose phone is silent | `ImplementsAttempt`, `ClosesOwnSocket`, `SocketsClosed`, `StopReturns`, types |
| `pairing` | two phones, two connections, two sessions, a server with two places | `KeysAgree`, `StoredOnlyInSession`, `WindowReturns`, `PhoneServed`, types |
| `storage` | three operations by window, second thread and unlocking program, one failure | `OneMachineId`, `DevicesKept`, `ListProtected`, types |
| `storage_relay` | two operations | **violated**: see below |
| `credential_provider` | two users, three settings of a PC; unbounded | `ApprovalUsedOnce`, `OneAttempt`, `HandedWhole`, `TileUsable`, `OutcomeNoticed`, `StopReturns` |
| `linux_login` | sudo, polkit and sddm, two versions, four uses of the application, one fault, one login | `SystemRestored`, `LoginsDecided` |

Bounds.  Two devices are the smallest number with a last and a not-last thread,
one approved and one cancelled; all races of the handler are between two server
threads, or one and the caller.  `MaxAttach = 1` lets a phone come and go, which
stops and restarts the beacon; `MaxBeacons` is assumed greater than the number
of starts that can happen, so it cuts nothing off.  In the cloud runs two
requests are enough for the purge, the order of polling and the eviction from
`seen` (`MaxSeen = 1`, where the code keeps 128); one tick of lifetime gives
before, at and after the expiry, two ticks a time between.  Replies are late
(`MaxDelay = 1`) in `cloud_unlock_live`, the run of one attempt, whose deadline then lies
after the expiry of its row; the theorems hold for any delay.  `MaxQueue = 1` holds
back a second decision while one waits to be sent.  `LastStart` stops new
attempts and the clock runs until every deadline has passed.  Deadlock is not
checked: attempts, and `GetResult`, are over at some time.

Two connections are needed for a descriptor that changes hands, and one retry for
a socket that `Stop` has not seen.  `MaxClients` is 10 in the code.  Two places
are enough for a phone to be served beside another, and for a place that is not given
back and a phone that is served to fill the server, which is when `Stop` may wait for an
accept thread.  Two sessions are
one that ends and one that follows it.  Three operations are a reader, a writer
and one between them; after trouble with the list nothing new begins, as the
properties then say nothing.  The settings of `MCCredentialProvider` cover local and
other accounts, every unlock behaviour, a user without a device, a name without a
domain, and a password that fits a `UNICODE_STRING` only until Windows has
protected it.  In `linux_login` four uses
are: start, install, change, remove, or an update in between; one fault may hit any step
and any reading of a file.  `MaxChanges` bounds how many toggles of the form are changed
at once.  The files of `MCOriginals` are one with a header that is not its first line, a
comment that holds the module's line and an included rule, one without a header, and
none, for which one is generated.  The password may change once during the login.
These runs, too, may stop: their bounds are used up, the form is closed, or nobody logs in.

Two properties name an exception, both real.  `ApprovalLostOnlyByStaleRecheck`:
the last thread loads the shared result and stores its own in two steps, and a
success stored between them is overwritten.  `AskedOnce`: two open requests of one
second come back in either order, so a phone that remembers fewer than there are
could be asked again.  It is stated of the poll that brings the request: by the time
its challenge is shown again, the other one may have expired and be gone.

Exceptions in the properties of the other runs are real in the same way, and each
is named in the comment on the property: races on a socket (`StopReturns`,
`SocketsClosed`) and the `RunServer` that waits for such a thread (`CancelEndsServers`,
`SuccessEndsServers`, `DeadlineEndsServers`), a `CANCEL` without a token
(`ImplementsAttempt`), the queue of a full pairing server (`WindowReturns`,
`PhoneServed`), the PC's side of a pairing that fails or has no phone any more
(`KeysAgree`), a stale or unreadable list that is saved, two writers and failed calls
(`DevicesKept`), a failed change of access (`ListProtected`), two threads that invent a
machine id (`OneMachineId`), the ends of a listen thread after which a tile has to be left
and selected again (`TileUsable`), a handler that hangs (`StopReturns` of
`CredentialProvider`), what a failed, interrupted or unread step of the installer was
about and a changed port (`SystemRestored`), a file that is read while it is being
written or after such a step (`LoginsDecided`).  A hazard that is such an exception has
no property in `PROJECT.json` but a note.

**Findings.**  `ctrl_alt_returns`: `GetResult` keeps its `unique_lock` until it
returns and joins its threads under it.  When the predicate is already true while
the last thread has counted itself but not taken the mutex, neither proceeds:
holding left Ctrl + left Alt, which the documentation gives as the way to the
password prompt, does not always return.  `storage_relay`: saving the settings form
empties the address of the relay, which the form does not have, and cloud unlock
stops working.

Seen while modelling, without a run of their own:

* `ClearSettings` (`ServiceInstaller.h:52`) switches off copies of the settings, so
  *Uninstall* leaves the module's lines in the PAM files and polkit's helper
  unrestricted, and the settings form cannot be opened any more.  `ServiceInstaller`
  models it as it is; `SystemRestored` speaks of polkit without the entry.
* Pairing sends the phone neither `cloudAccountId` nor `cloudDeviceId`
  (`PacketPairResponseData`, `Packets.h:53`), so `MainActivity.lockPc` refuses the
  remote lock that `docs/INTERNET_UNLOCK_SETUP.md:23` describes.
* A device paired by UDP falls through to a `CloudUnlockClient`
  (`UnlockHandler.cpp:45-52`); nothing makes one of the unlock servers.
* The listen thread's wait for a network ignores devices that use the relay
  (`CUnlockListener.cpp:67`).
* An exception between `pipe` and `close` in `pam_sm_authenticate` leaves the pipe's
  descriptors open in the service that logs in.

Fairness.  `UnlockHandler`: every thread is scheduled (weak fairness per server
thread, for the caller and for the broadcaster's steps); none for phones, clock
and keyboard, none for spurious wake-ups, none for a late thread.  `CloudUnlock`: the clock runs, and the
client's thread is scheduled with calls that are handled or fail, since its HTTP
client gives up after 10 s; nothing is assumed of the phone or its user.
`UnlockClient`: its threads and `Stop` are scheduled.  `PairingForm`: the server's
threads and the join are scheduled; phones and user do what they like.
`CredentialProvider`: LogonUI's thread finishes its calls and handles what is posted
to it (strong fairness, as the user may keep it busy), and listen threads run.  Of the
handler it is only assumed that, once it is stopped, it returns or hangs: `ctrl_alt_returns`
and the exception of `CancelEndsServers` show that it may not return, and `StopReturns`
names that as the one way in which LogonUI's thread can hang.

## Proofs

A theorem holds for every value of the constants that the `ASSUME`s of its module
admit.  These say no more than the code gives: bounds are natural numbers, sets of
devices, threads and phones are finite where the code counts them; a password is not
empty and has a tile's settings (`SettingsAssumption` of `CredentialProvider`);
`Absent` is no text, the texts in `/etc/pam.d` have none of the installer's lines at
first and what they include exists (`OriginalsAssumption`), and `CompareVersion`
orders the released versions as they were released (`VersionsAssumption`).

* `UDPBroadcasterProofs`: `BroadcasterInv` says, as long as no two calls have
  overlapped, which caller may be where and how flag, handle and beacon relate
  then; from it follow that such calls never end the process
  (`BroadcasterSafety`) and, overlapping or not, that a beacon that is on is sent
  once all calls are back (`BroadcasterSends`).
* `UnlockHandlerProofs`: `HandlerInv` adds to the types that `completed` is the
  number of threads past `fetch_add`, that only threads in `RunServer` are in a
  call of the broadcaster, and that the caller wakes up only when all are
  counted.  The properties are not inductive without these: that nobody uses
  what is deleted needs the count to be exact.  The bound of the counter in
  `TypeOK`, `NoUseAfterDelete` and the refinement `UsesBroadcaster` follow, and by it
  the broadcaster's theorems carry over.  `GenuineInv` traces a success from the
  phone to the shared result (attached phone, answer, `RunServer`'s state, its
  result, the shared one) and gives `SuccessIsGenuine`.  `KeptInv` gives
  `ApprovalLostOnlyByStaleRecheck`; its core is that the caller holds the mutex while
  it joins, so a thread that is counted and has not published can not end and
  `GetResult` can not return without its approval.
* `UnlockClientProofs`, for any attempts, descriptors and bounds: `ClientInv` traces a
  decision from the answer the phone sent to `unlock` (`DecisionTraced`), and a `CANCELED`
  to a refusal of this request unless `unbound` says otherwise, which gives the refinement
  `ImplementsAttempt`.  `SocketInv` says, as long as no two closes have
  overlapped, that a descriptor has one closer at most and that the member of a client
  names a descriptor of its own (`OneCloser`, `OwnsMember`); with a pigeonhole
  argument for the lowest free descriptor it gives `SocketsClosed` and
  `ClosesOwnSocket`.
  The types need more once closes do overlap: `NamesInv` bounds
  the sockets a client can leave behind.  They are those of its last two attempts
  (`Names`), since `Stop`, without which nothing overlaps, has ended the retries by
  then; so two descriptors for each client never run out (`OneIsFree`).
* `CloudUnlockProofs`, for any attempts, PCs, faults, deaths of the phone and bounds
  of its memory: the types and `LateApprovalNeverUnlocks`.  An approval and the request
  it is for meet again only by the id of the row, which may be gone by then, and the
  variables do not remember it.  So `CloudInv` says that there is a book, the token and
  the expiry of every id minted, with which all copies of them agree: rows, calls,
  answered requests, what the phone holds.  An answer that is a row or is being
  delivered is a refusal or stems from an approval in time (`Justified`).
  `AnswerIsFound` needs `AnswerInv` as well: clients ask for different requests, each
  for its own (`Asks`), the row a call is about to consume is none that another client
  waits for (`Chosen`), and so an accepted answer is in the table until it expires
  (`Waiting`).
  `AskInv` gives `AskedOnce`: what a poll has brought is as old as anything open
  (`PolledOldest`), what is polled while a remembered request is open is of its second
  (`PolledRival`), and stays in the table as long as that one is open (`Forgotten`).
  `OnceInv` gives `DecidedOnce`, the refinement of `UnlockAttempt`, under the hypothesis
  `HandledSoon`: a worker that handles an answer takes less than half of a row's life, 60 s,
  between its `SELECT` and its batch.  The hypothesis is needed.  The index
  `relay_one_response` admits a second answer once the first has expired and the next
  request has purged it; the second one was found open before the first was stored, so the
  two handlers together must take a whole life, and when each takes half of one, TLC finds
  the client reporting the second answer.  `Closed` keeps the account of the times,
  `OneAnswer` says that whatever is stored or was found for a client is the accepted
  answer, `Named` that token and id of a request determine each other.
* `PairingProofs`, for any phones, limits and numbers of sessions.  That
  `m_NumConnections` keeps its type needs `CountInv`: the threads that will take
  themselves off are no more than it counts, and it counts no more than ever came, with
  the places that the early return does not give back in between.  `KeysAgree` needs
  `AgreeInv`: one pairing of a phone is under way at a time, and which of its two ends
  is behind; it is told from `LinkInv`, phone and thread of a connection name each other
  while the phone stays.  `StoredOnlyInSession` is an action property: `ThreadsInv`
  (client threads end before the accept thread and have its key) and `PageInv` (a server
  runs for the page that is shown or is being joined).  `StackInv` bounds the steps that
  *Back* may take: a page lies at a depth of its own.
* `StorageProofs`, for any threads, in any processes, with any operations.  `PlanInv`:
  what an operation does with the settings comes after the routine that gets them.
  `IdInv`: a machine id that anybody holds is the only one, and is in the file or on its
  way there; it gives `OneMachineId`.  `ProtectInv`: while no change of access has failed,
  a list that is open to users has a thread that is going to close it, whichever threads
  overlap and whatever else they lose (`ListProtected`).  `KeptInv`, for `DevicesKept`: a thread's list
  is the file's until another is written, unless a thread is about to write a stale one
  (`Doomed`); then trouble is inevitable, but not there yet, which is why the
  property alone is not inductive.
* `CredentialProviderProofs`, for any users and settings: `CredentialInv` ties what
  LogonUI's thread is doing to the selected tile (`ThreadOfUI`) and says where a
  listen thread may be alive (`ThreadsOfTiles`): on the selected tile, on the one that
  is being joined, or while all tiles are being released.  That is what the joins
  of `Stop` are for, and why an approval cannot reach a tile that has been
  released: `ApprovalUsedOnce` is inductive only together with it.  `OneAttempt` and
  the types follow.  `PackLocalWhole` is arithmetic on lengths: domain, name
  and password of a local user are handed over whole because each 16-bit size has been
  checked before it was cut (`HandedWhole`).  `UsableInv` gives `TileUsable`: a listener runs for the selected
  tile only, the callback is there until LogonUI ends, and a selected tile without a
  result has a thread to come with one.
* `LinuxLoginProofs`, for any texts, versions, clicks, faults and logins.
  `SystemRestored` speaks of the moments between two clicks, its invariant of every
  step of every list.  `StepsInv`, `FilesInv` and `SettingsInv` say of what kind lists,
  texts and settings are; that no rest of a list removes an entry from a file that has
  gone is part of it.  `KeptInv`: a file, or what is being written to it, has the lines
  of the original, or is the installer's own where there was none.  `SandboxInv`: polkit's
  helper is restricted as it was, or its file has the module, or one of the two is on its
  way; a list that lifts the restriction adds the entry next, and one that removes the
  entry confines the helper next.  `PortsInv` and `ProgramInv` relate rules and executable
  to the steps that are still to come; `PortsInv` needs `PortOrder`, that a list opens a
  port only after it has written the program and closes it when it removes the program.
  `RuleInv` says that what a login has read for a service that had a rule for the password
  has one, unless the file was `Torn` then.  For a login, `LoginInv` follows the password from
  `pcbu-auth` through the pipe to `authtok`, and `OwnInv` says that whoever knows the
  password has a rule for it ahead, or has passed one: the text read is one of those that
  `Text` describes, whatever the installer was doing to the file.

The operators of `PamConfig` rest on `FlattenSeq`, and what it returns is a matter of
induction.  The library's induction theorems cannot be cited; `LinuxLoginProofs`
therefore derives one about sets of numbers (`Induction`) from the well-foundedness of
`<`, by way of `WFMin`, which take no operator.  This works for what can be said as
"every number up to n is in the set S".

Only model-checked:

* `DecidedOnce` of `CloudUnlock` when a handler may hang, which the theorem excludes; the
  runs allow it, and do not reach the purge of a first answer.
* Liveness (`MainWakes`, `CancelEndsServers`, `SuccessEndsServers`, `DeadlineEndsServers`,
  `AttemptEnds`, `StopReturns`, `WindowReturns`, `PhoneServed`, `OutcomeNoticed`): it needs
  fairness and ENABLED, and so is beyond the prover.

## Not modelled

* Ciphers, encodings, formatting, logging, Qt views, the HTTP client: data without
  control that a property could be about.
* Packet framing: the phone of this repository writes whole packets, and a stream
  socket keeps them in order.
* The unlock servers and the remote lock: code that nothing reaches, see above.
* The installers of Windows and macOS and the updater: copies of files and registry
  values, without a protocol.
* Accounts and tokens of the relay: request and reply, written once.
* The scan threads of the key scanner: what their race does is undefined.

## Plan

1. An abstract specification of a pairing, what the two ends promise each other, which the
   pairing server and form implement as the clients implement `UnlockAttempt`.
2. Two hazards that no module covers: descriptors that two threads of the pairing
   server close, and the key scanner's table that grows while a thread writes to it.
