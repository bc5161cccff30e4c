# pyMessageServer, specified in TLA+

pyMessageServer runs on a pair of AR glasses. A phone talks to it over TCP or
over two bluetooth serial channels, it forwards the phone's commands to three
local applications over unix sockets, and it sends the applications' answers
back to every phone it knows. It is one Python process: a Qt main thread whose
event loop is also asyncio's, a few plain threads for bluetooth, and a few child
processes that hold the bluetooth channels open.

This directory specifies that program, checks the specification on small
instances with TLC and proves its safety properties with TLAPS. The sources
are the reference throughout: each definition names the function it stands for,
and `PROJECT.json` ("map") its lines. The repository has no tests; what it
*says* about itself is in its comments, which are quoted where the code does
something else.

1. [The system](#1-the-system): components, interactions, hard behaviours
2. [The plan](#2-the-plan): modules, compositions, runs, theorems
3. [What is modelled](#3-what-is-modelled), module by module
4. [The runs](#4-the-runs): what they check, bounds, fairness
5. [The proofs](#5-the-proofs)
6. [Where the code and its comments part](#6-where-the-code-and-its-comments-part)
7. [What is not modelled](#7-what-is-not-modelled)

## 1. The system

### Components

| Component (source) | State it keeps | Operations |
|---|---|---|
| `BtInitializer` (`bt_init.py`) | `rfcomm_procs`: device to handle of its `rfcomm listen` child; one lock per device; the flag `_rfcomm_recovery_running` and its lock | `init`, `start/stop/restart/check/ensure_rfcomm_listener`, `trigger_rfcomm_recovery`, `_rfcomm_recovery_worker` |
| `BtRfcommTransport` (`bt_rfcomm_transport.py`), one per channel | `_fd`, `_io_lock`, the unfinished message of the reader | `_read_loop` (a thread), `send` (Qt main thread), `_close_fd` (both) |
| `TCPServer` (`tcp_server.py`) | one coroutine per connection, its byte buffer | accept, read, reply, deliver, close |
| `AsyncWorker` (`armessageserver.py`) | `mobile_clients`, `int_mobile_cmd_idx`, the components | message handler, registration, forwarding, `mobile_client_disconnect`, disconnect handlers, `start_all_server` |
| `MobileClient` (`mobile_client.py`), one per registered phone | reader, writer, `_send_lock` | `connect`, `send` |
| `UnixClient` (`unix_client.py`), one per application | reader, writer | `connect`, `send`, `reconnect`, `close` |
| `UnixServer` (`unix_server.py`) | its connections | read, split at `idx`, reply, hand on to `send_msg_to_mobile` |
| `BtStateTracker` (`bt_tracker.py`) | link and authorisation flags, a connect count, mirrored in a JSON file | load, update, save (temporary file and rename) |
| `BluezAutoAgent` (`auto_agent.py`) | the BlueZ agent, a watchdog thread per authorisation | answers pairing requests, watches for a link that never comes |
| `UDPServer`, `MsgChecker`, configuration, logging | none that matters | echo; unused; constants |

### Interactions

    phone --TCP 9527--> TCPServer ----tcp_data_received----> AsyncWorker --> UnixClient --> application
    phone --rfcomm0---> BtRfcommTransport(cmd) --bt_data_received--^   |                        |
    phone <--TCP------- MobileClient  <------ send_msg_to_mobile ------+------ UnixServer <-----+
    phone <--rfcomm1--- BtRfcommTransport(data) <----------------------+
    BtRfcommTransport --bt_disconnected--> AsyncWorker --> BtInitializer.trigger_rfcomm_recovery
    BtInitializer --Popen--> "rfcomm listen" (creates /dev/rfcommN, which the transport opens)
    BtRfcommTransport, BluezAutoAgent --> BtStateTracker --> JSON file

A Qt signal emitted on the main thread is a direct call; one emitted by a reader
thread is queued for the main thread. Everything on the main thread (TCP
connections, registry, unix clients) interleaves at `await` and nowhere else;
the bluetooth threads interleave anywhere.

### What is hard about it, and what makes each part correct

* **Recovery of the rfcomm listeners.** Several threads may ask for a recovery
  at once; a child process exits, hangs or ignores a signal when it likes; it
  outlives a crash of the server. Correct: never two recoveries, and never a
  flag stuck up with no recovery behind it; no listener out of the program's
  reach; a recovery never disturbs a listener that works; a dead listener is
  retried to the last round, whatever the other device does.
* **One descriptor, two threads.** The reader and the sender share `self._fd`,
  and close and clear it in separate steps without a lock, while the rest of the
  process is handed the closed number again. Correct: neither thread touches
  somebody else's file but in the moment before the number is cleared, nothing
  leaks, a link that stays up is served, a lost one is reported once, one that is
  up only by mistake and not twice for one file, and a half message goes to
  nobody.
* **The registry of phones.** Connections begin, say HELLO, end and are reset in
  any order, several of them from one address. Correct: one client per address,
  none left behind, none taken away by somebody else.
* **Forwarding commands.** The tasks that handle the phone's commands share one
  unix connection per application without a lock, and each closes and replaces
  it when a write fails; the answer is whatever one `read()` returns. Correct: no
  command disappears on a connection that works, a failed write is followed by
  another connection, every command ends; one at a time, and where answers come
  whole, an OK is an answer to this command and no other. What the code does not
  do: `read()` may raise outside the `try`, after which the broken connection
  costs the next command.
* **The state file.** Three threads update a dictionary without a lock and save
  it under one, in a file other programs read; the server may die at any point.
  Correct: the file is never a fragment, it catches up with the program, and
  what was counted and saved survives.
* **From a lost link to a listener.** The end of a link is seen by a reader
  thread, travels as an event to the main thread, and becomes a request that may
  be dropped. Correct: the listener comes back; where it does not, it is for one
  of a few known reasons and no other.
* **Answers to the phones.** An application's answers are cut out of a byte
  stream without a buffer, and every answer becomes a task per phone, one of
  which writes and waits for a reply at a time; that reply too is whatever one
  `read()` returns. Correct: the answers go out in order, each of them once
  unless it is cut in pieces, none is lost unless a read cut it or an exception
  ended the loop before it, a phone that is slow or does not read holds up nobody
  but itself.

`PROJECT.json` ("hazards") lists each of these at its line with the properties
that watch it, or the reason why none does.

## 2. The plan

In the order of importance. All steps are done.

1. **`RfcommRecovery`** with the abstract specification **`SingleFlight`** it
   implements. Runs `recovery_deployed`, `recovery_checked`,
   `recovery_hung_link`. Proofs: types, one recovery, one restart,
   harmlessness, refinement. *Done.*
2. **`BtTransport`**. Run `transport`. Proofs: types, stale window, one report,
   no mixed message, no descriptor leaked. *Done.*
3. **`MobileRegistry`**. Runs `registry_phones`, `registry_reset`. Proofs:
   types, one client per address, ghosts, whose end removes whom, what becomes of
   a phone that said HELLO. *Done.*
4. **`UnixForward`**: commands that share one `UnixClient`, an application that
   answers or goes away, and the acknowledgement to the phone. Run
   `unix_forward`. Proofs: types and the four safety properties. *Done.*
5. **`BtTracker`** with the watchdog: updates from two readers, save and rename,
   crash and reload. Runs `tracker_file`, `tracker_zombie`. Proofs: types, the
   file is never a fragment, the file agrees, counts are kept. *Done.*
6. **`BtLink`** composes `RfcommRecovery` with a shortened transport per device,
   the queue of `bt_disconnected` events and the main thread that handles them
   (the deployed program's only caller). Run `bt_link`. Proofs: it implements
   `RfcommRecovery`, whose theorems it inherits; types; no listener is
   forgotten. *Done.*
7. **`UnixServer`**, one application's connection, **`MobileSend`**, the phones'
   clients, and **`AnswerPath`**, which composes the two; `MCAnswerPhones` is the
   instance with two phones. Runs `answer_path`, `answer_phones`.
   Proofs: types and the four safety properties, for any number of answers and
   phones. *Done.*

Every invariant and every action property of a passing run is a theorem too
(`ImplementsSingleFlight` in its safety part). What only TLC checks is liveness;
section 5 says why.

## 3. What is modelled

### `RfcommRecovery` (bt_init.py)

State: `rfcomm_procs`, the per-device locks (`devlock`), `running` and its lock
(`gate`) are the object's fields; `pc`, `dev`, `target`, `cmd_ok`, `round` are
the locals of the threads that run `_rfcomm_recovery_worker` (`Worker`) or
`check_rfcomm_listener` (`Checker`); `cpc` is that of the threads in
`trigger_rfcomm_recovery` (`Caller`); `pst` and `pdev` are the child processes.

One action is one stretch of code between two points where somebody else can be
seen: taking a lock, polling or waiting for a child, an unlocked write.
`trigger_rfcomm_recovery` is `TriggerEnter`, then `TriggerSkip` or
`TriggerSeesIdle`, `TriggerAccept`, `TriggerSpawn`: the flag is tested and set in
separate steps, so that the lock has something to do, and the thread is started
outside it. A round of the worker visits the command device, then the data
device: `EnsureAlive`, or `EnsureDead` followed by `restart_rfcomm_listener`
(`LockDev` ... `RestartStart`) and `EnsureRecheck`; then `NextRound` or
`WorkerFinish` (the `finally`). `stop_rfcomm_listener` is `StopDead` or
`StopAlive`, `WaitTerminated`, `WaitKilled`, `PopAndRelease`, with both of its
timeouts. `init()` is `BootKill` and two `BootStart`s. `Popen` may fail in
`StartListener`.

External: the child processes (`Connect`, `LinkDrop`, `Exit`, `Reap`) and
`Crash`, the death of the server at any point, after which the listeners live on
because they have a session of their own.

`Thread.start()` is taken to succeed. Two callers are modelled, as the code
intends: the main thread and the watchdog of `auto_agent.py`. (At present the
watchdog ends in an `AttributeError` before its call, a hazard of its own; with
one caller the model has fewer behaviours, not more.) Requests are made only
once `init()` is over: the transports, whose ends make the main thread's
requests, are started after it.

### `SingleFlight`

What `trigger_rfcomm_recovery` promises, with no lock, thread or process in it:
a request is accepted when nothing is in flight and dropped otherwise, an
accepted one launches one worker, a worker lands. `RfcommRecovery` maps onto it
by `phase` (accepted while some caller is about to start the thread, flying
while a worker runs) and `flight` (the workers that run).

### `BtTransport` (bt_rfcomm_transport.py)

One transport. `fd` is `self._fd`, a *number*; `files` is the process's
descriptor table, so that a number that was closed can be open on something
else. `prompt`, chosen once in `Init`, is the timing assumption of
section 4. `_close_fd` is three actions (`CloseCheck`, `CloseFile`, `ClearFd`) for
whichever thread runs it. The reader is `Reopen`/`OpenRaises`, `SelectReady`/
`LoopEnds`, `ReadChunk`/`ReadEof`/`ReadRaises`, `Report`; the sender is
`SendStart`, `SendWrite`/`SendRaises`, `SendFlush`/`FlushRaises`. Write and flush
are two steps under `_io_lock`; `select` is not under it, so `tcflush` may take
the input between `select` and `read`, which then raises.

While a thread is between `os.close` and `self._fd = None` the number may lead to
a foreign file (`Other`), and the system calls of both threads go there: the
reader reads its bytes into the buffer (`ReadChunk`), takes its end for the end
of the link (`ReadEof`) or gets an error; the sender writes to it or closes it.
`eof` remembers which file was at its end, and `Report` emits `bt_disconnected`
for every one of them, whether the link is up or not: `reports` counts the
signals by the file that caused them. A read of a foreign file is assumed to
return: the reader selects the descriptor first.

`buffer` and `message` hold of the bytes only which link, or `Other`, they came
from. External: links (`LinkUp`, `LinkDown`), `Input`, and another part of the
process that opens and closes a file (`OtherOpens`, `OtherCloses`).

### `MobileRegistry` (tcp_server.py, armessageserver.py, mobile_client.py)

All of it runs on one event loop, so an action is the code from one `await` to
the next. `_handle_client` is `Accept`, `ReadChunk` (a chunk of up to `MaxBatch`
complete messages), one `Deliver` per message (the `await drain()` of the reply
comes before the message is emitted), `Eof` and `Closed`. `Reset` is a
connection that is reset: `wait_closed()` raises before `mobile_disconnected` is
emitted. A message is the port a HELLO announces, or `None` for every other.
`ClientsWithout` is the loop of `mobile_client_disconnect` as Python runs it: it
removes from the list it iterates over and so skips the element after each one it
removes. `Removed` is the set of places it takes: those of the address whose
predecessor it does not take. `BtMessage` is
the same handler called for the rfcomm command channel, whose address is always
`bt_client`, and `Connect` is the scheduled `MobileClient.connect()`.

### `UnixForward` (unix_client.py, armessageserver.py)

One application and its `UnixClient`; the three do not interact. A task of `Cmd`
is one call of `test_send_unix_msg`. Everything is on one event loop: an action
is the code between two awaits, and a task that goes on without awaiting
(`connect()` returned, now the write) keeps the loop, which is what `Turn` says.
`self.reader` and `self.writer` are assigned together everywhere, so `client`
stands for both.

`send` is `Start`, `Connected`/`ConnectFails` if there is no connection,
`Write` (the write, a `drain()` that returns at once and the start of `read()`,
in which asyncio allows one task: a second one raises) or `WriteBroken`, and
`Woken` when there is something to read or the stream is at its end. What is read
is whatever the buffer holds: nothing frames an answer, so the application's
answer may come in pieces (`AppAnswers` with `last` false; a second reply to the
same command is the same to `read()`), and what comes after the first is there
for the next command. `Decoded` is the `data.decode()` of the log line, which
raises when a piece ends inside a character.

`AppDies` ends the application's side of its connections. Where everything was
read our side gets the end of the stream, and its transport stays open; where a
command was unread (`aborted`) the next `recv()` raises `ECONNRESET`:
`ResetSeen` tears the transport down, and `ConnectionLost` gives the exception to
the task in `read()`. That is outside the `try` of `send`, so in `Raised` the
command ends without an acknowledgement and `self.writer` stays the closed one.

`WaiterForgotten` is the `finally` of asyncio's `_wait_for_data`: it clears the
reader's waiter whoever that is by now, so of three commands that overlap one can
be forgotten (`Forgotten`).

After a failed write
`reconnect()` is `DrainRaises` (the exception, then `close()` of whatever the
client is by then), `CloseDone`, and `Reconnected` or `ReconnectFails`. `send`
returns -1 then and the caller acknowledges all the same, which the model keeps:
`acked` is the end of every call that does not raise. The bluetooth `send` of the
acknowledgement is `BtTransport`'s.

`received`, `answered`, `ragged` and `overlap` are history: what reached the
application, what it answered, the connections on which an answer came in
pieces, and whether two commands were ever under way at once. Connecting may
fail at any time. External: asyncio's streams (`ResetSeen`, `ConnectionLost`)
and the application (`AppAnswers`, `AppDies`, `AppStarts`). Commands are short,
so `drain()` never waits for room.

### `BtTracker` (bt_tracker.py, auto_agent.py, bt_rfcomm_transport.py)

The dictionary `state`, the two files, `file_lock`, and the threads that use
them: a reader per transport, the D-Bus thread of the agent, the watchdogs.
`_save` is `Lock` (`open(tmp_file, "w")` empties the file), one `Dump` per key
(the dictionary is not locked, so it may change between two keys), `Rename` or
`SaveFails`. Each thread has its own place in its dump (`at`), and `Rename` puts
in place whatever the temporary file holds then: if two threads saved at once, a
fragment. `+= 1` of the readers is a
read (`Opened`) and a write (`CountStore`), since two of them may overlap;
`raced` records that one did. `set_bt_authorized(True)` is `Authorize` and
`Tally`; only the agent's thread changes its counter. The end of a link is
`SetDisconnected` and `Unauthorize`, each with its save. `_rfcomm_watchdog` reads
its two flags one after the other, then stops at `self.bt_init`, which does not
exist: its recovery request and its reset are unreachable and not in the model.

`Crash` may come at any point; it loses the dictionary and keeps both files
(`/run` is in memory and outlives the process, not the machine). `Restart`
loads. `begun`, `counted`, `raced` and `stale` are history. A model key is a key
of the JSON object; the two time strings are left out, and a file holds a value
for each key it has been written.

### `BtLink` (bt_rfcomm_transport.py, armessageserver.py, bt_init.py)

`EXTENDS RfcommRecovery` and adds, for each device, `fd`: nothing open, a
descriptor on a link that is up, or one whose link is gone (`"dead"`). `queue`
holds the `bt_disconnected` events, which a reader thread emits and the main
thread handles in order; `handling` is the event it is at. `ReportLost` is the
`if not chunk` branch. `CloseSilently` is every other way to close: a `send`
that fails, or an exception in the loop; both call `_close_fd` and emit nothing,
also when the link behind the descriptor is gone. It may also be a report that is
mistaken: the reader met the end of a foreign file behind a number the sender had
closed, and an event is in the queue though the link is up. `Handle` takes an event and
enters `trigger_rfcomm_recovery`, `Trigger` is the rest of that call. `Drop`,
`ProcessExit`, `Phone`, `Recover` and `Boot` are the steps of `RfcommRecovery`
with what they do to `fd`. There is no `Crash` here.

`unwatched` is history, and the point of the module: it names each way in which
the single report of a lost link can be absent or spent without effect. Absent:
the link is gone before the reader has opened the device, the descriptor is
closed silently, a listener exits that had no link, `Popen` fails in `init()`.
Spent: the recovery finds the process still there (the case of
`recovery_hung_link`), the request is skipped because a worker runs that has
passed the device, the rounds are over. A device leaves `unwatched` when its
listener works again.

### `UnixServer` (unix_server.py)

One application's connection; connections share nothing. A message is two
halves, so that a read may begin or end inside it. `Read` takes any number of
halves that are still to come, and `Segments` is `split("idx")` of what was
read: a message that is all there is one segment, one that was cut is a `head`
in one read and a `tail` in the next, and one with `idx` in its payload
(`Tricky`) is always two. The segments are a set, put in the order of the stream
by `Nth` (a segment starts where `Starts` says).

`HandleWhole` and `HandlePiece` are one turn of the `for` loop after the
`drain()`. A whole message is handed on, but `dict()` raises a `ValueError` for
one of `Malformed`, which has an item without a colon (a trailing `;` makes one).
`HandleWhole` has a further outcome for the read that ends inside the next `idx`:
its first letters then are the end of this message. What a piece holds is not
modelled, so `HandlePiece` has all its outcomes: handed on (if it has
`dst:mobile` and a known `src`, which the payload may repeat, so that both pieces
of a message can be), ignored, or a `ValueError`. One piece can be the message
itself: a tail whose `idx` alone was left in the read before (`MayBeWhole`).

An exception ends the loop and the connection and drops the rest of the list
(`Fail`; `failedAt` remembers where). The reply to each segment is written
before it is looked at: `ReplyFails` is the `drain()` that raises because the
application has gone, and while the application does not read (`deaf`) `drain()`
may never return. The empty element before the first `idx` is only replied to,
and `ReplyFails` covers it.

### `MobileSend` (mobile_client.py, armessageserver.py)

The `MobileClient` objects. `run_coroutine_threadsafe` starts the sends in the
order of the calls and `asyncio.Lock` wakes its waiters in the order they came,
so the sends of a client are a queue, `tasks`, whose head holds the lock; `step`
is where it is. `Skip` is the early return of line 34; `Write`, `Drained` and
`ReadReply`, `Timeout` or `Broken` are the rest.

The phone's reply is a stretch of a byte stream. `Answers` puts a piece of it in
the buffer, the last one or (`split` counts these) one before it, and
`ReadReply` takes everything that has arrived, be it less than a reply or several
late ones. `owed` is the number of messages the phone has not replied to in
full. So after a reply in pieces, as after a timeout, the next `send` may find the
rest of it and return at once.

A connection `conn` is refused for good when `connect()` fails (`"failed"`:
nothing tries again), is at `"eof"` when the phone has closed (the writer is not
closing then, and a send still writes), `"lost"` when it is over. `Register` and
`Unregister` stand for `MobileRegistry`; unregistering leaves the connection and
its tasks alone, as `remove(c)` does. A message is its number among those
emitted.

### `AnswerPath`

The two together: `send_msg_to_mobile.emit` in a coroutine of the event loop is a
direct call, so `Serve` is a step of `_handle_client` and, when it emits,
`SendMsgToMobile` in the same step. The bluetooth `send` of the same handler is
`BtTransport`'s. `AnswerPath.cfg` has how a phone and the application come and
go. `MCAnswerPhones`, for the liveness, starts where two phones are registered
and connected and restricts what happens from there: one of them (`Fickle`) may
stop reading, resume and be unregistered, and never replies; the other replies
or not while a send waits for it; the application may stop reading and resume.

### Fault variants

A definition marked `fault:` is a plausible bug of the definition after it (a
lock that is lost, a reset that is missing), most often of a helper that names
the one guard or assignment concerned. No specification uses it; the "mutants"
of `PROJECT.json` put each in the place of the real one, and TLC then refutes
the property, which shows that the property can fail.

## 4. The runs

| Run | Properties | What it shows |
|---|---|---|
| `recovery_deployed` | `TypeOK`, `OneRecovery`, `HandleCoversListener`, `RecoverySparesListeners`, `ImplementsSingleFlight`, `DeadListenerRetried` | The program as deployed: two threads ask for recoveries, listeners come and go and the server crashes and starts again. One recovery at a time; every listener not told to stop is in `rfcomm_procs`; no working one is disturbed; one found dead comes back or is started again in every round to the last, whatever becomes of the other device. |
| `recovery_checked` | `RestartExclusive` | `check_rfcomm_listener`, which nothing in the repository calls, runs beside the worker: the device lock keeps two restarts of a device apart. |
| `recovery_hung_link` | `HungLinkReset` | Violated, see section 6. |
| `transport` | `TypeOK`, `NoDescriptorLeak`, `StaleOnlyWhileClosing`, `ReportedOnce`, `OneLinkPerMessage`, `LinkServed`, `DeadLinkDropped` | With `close()` of any length: `self._fd` leads to a foreign file only between `os.close` and `self._fd = None`; a lost link is reported once, and one that is up only by the end of a foreign file, once for each; no message joins two links; a dead link is dropped. If `close()` is prompt: no descriptor is left open, and a link that stays up is served whatever the sender does. |
| `bt_link` | `LinkTypeOK`, `QuietMeansServed`, `LostListenerReturns` | Reader, event, main thread and worker: a device that loses its listener gets it back, or is in one of the named cases; and when no event waits and no recovery runs there is no other way for a device to be without. |
| `registry_phones` | `TypeOK`, `OneClientPerAddress`, `GhostOnlyAfterReset`, `OnlyOwnEndUnregisters`, `HelloKept` | One client per address; an orderly end always clears it; no other address's end does; and a phone that said HELLO has its client while it is connected, unless another connection of its address ends. |
| `registry_reset` | `ClearedAfterDisconnect` | Violated, see section 6. |
| `unix_forward` | `TypeOK`, `LostOnlyIfBroken`, `BrokenClientReplaced`, `AckMeansAnswered`, `NoConnectionLeak`, `CommandsEnd` | Three commands, an application that answers whole or in pieces, dies, with or without commands unread, and comes back. An acknowledged command that never arrived was written to a connection that is over. Once the commands are done the client is no connection a command was lost on, and one whose transport is over only after a reset under `read()`. One at a time, an OK means an answer to this command, a connection that is over, or one on which an answer came in pieces; a command that arrived stays without an OK only by a reset or an undecodable piece; and no connection is left open unused. (The last two fail when commands overlap: one task reads the other's answer, and one forgets the connection another made.) Every command ends, whatever the others do to the connection it waits on, but for one that asyncio forgets when three overlap. |
| `answer_path` | `TypeOK`, `EachOnceInOrder`, `LostOnlyIfCut`, `Paced`, `Gapless` | Three answers, one with `idx` in its payload, one malformed, cut into reads anywhere; a phone that connects, replies late and in pieces, stalls, resumes, leaves. No answer overtakes another; one goes out twice only in pieces, never if it is whole; none is lost or altered unless a read ended in it or right behind it, its own text breaks it, or an exception ended the loop at an earlier one. A phone is sent an unbroken stretch of the answers and is ahead of its replies by no more than its timeouts and the pieces too many. |
| `answer_phones` | `AnswersGoThrough`, `OthersServed` | Two phones, of which one may stop reading for good, and an application that may stop reading its replies: every answer handed on gets to the phone unless it leaves or stalls for good, whatever the other phone does, and every whole answer in the handler's list does unless the loop ends or the application stops reading for good. |
| `tracker_file` | `TypeOK`, `FileCatchesUp`, `CountDurable`, `FileComplete`, `SavesEnd` | Two readers and the agent save beside each other, saves fail, the server crashes. The file is always whole; at rest it holds the dictionary; a connection counted and saved is never lost or counted twice, unless two increments overlapped; no save waits for ever. |
| `tracker_zombie` | `ZombieReset` | Violated, see section 6. |

### Bounds, and why they are enough

* Recovery: both devices. Two processes give each device a listener, or one
  device an old and a new one; the third process of `recovery_checked` gives the
  two threads one each beside the old one. Two worker identities, so that a
  second worker *could* exist; two callers race for the flag. `MaxRounds` is 10
  in the code; 2 is the least with a round that is not the last, and
  `recovery_checked`, whose property is about one restart against another,
  has 1. When no process identity is free only the failing branch of
  `StartListener` is left, which is the code's own branch for a failed `Popen`.
* Transport: two links, so that there is one to come after the lost one, which
  a report, a message or a descriptor may be mistaken for. Two descriptors: the
  one that is in `self._fd`, or is being closed, and another that the reader opens
  meanwhile or the rest of the process takes. Two foreign files, one after the
  other, so that there is a second false report to be told from a repeated one.
* End to end: two devices, a process for each (with none free, starting fails),
  one worker (the proof says there is never a second), two rounds, and two
  events, one handled or waiting per device. A reader waits when the queue is
  full, which delays a report and loses none.
* Answers: three messages are one with neighbours on both sides; two halves
  each, the least a read can cut; one reply piece before the last is enough to put
  a phone one message ahead. Safety and a phone's coming and going are checked
  with one phone, as clients share only the list `mobile_clients`; liveness with
  two, which could hold each other up, with two answers and whole replies. The
  proofs are for any number. One application, as connections
  of `UnixServer` share nothing.
* Registry: three connections over two addresses give a phone that comes back
  and another one beside it; two messages in a chunk give an `await` between two
  deliveries; one port is enough, as no property compares ports.
* Forwarding: three commands are one that waits for its answer, one that fails
  on the same connection, and one that comes after both; it also takes three for
  a waiter to be forgotten. Two connections let one be replaced under a task that
  reads. When none is left connecting only fails, which is the code's own branch.
  The proofs are for any number of both.
* Tracker: two openings, by one reader or by each, give two increments that
  overlap and two that do not; one authorization sets the flag the end of a link
  resets. One watchdog: watchdogs change nothing others see.
* Symmetry is used in runs without liveness properties only, over identities
  that nothing orders.

### Timing assumed

`prompt` in `BtTransport` says that the `_close_fd` a sender has begun is over
before the reader has slept its `time.sleep(1)` and opens the device again.
Nothing in the code waits for it; the sleep makes it so in practice. Without it
the sender may close the descriptor the reader has just opened, or set `_fd` to
`None` behind it. The run has behaviours of both kinds. `NoDescriptorLeak`
and `LinkServed` are claimed of those with `prompt`; the others hold, and the
safety properties among them are proved, without it.

### Fairness assumed

* Recovery: a started thread keeps running (weak fairness of its steps). Strong
  fairness for taking the recovery lock (`WorkerFinish`) and a device lock
  (`LockDev`): other threads hold them for microseconds, or for a restart that
  ends by itself, and requests are seconds apart. No fairness is assumed of the
  phones, of `Crash`, of `init()` or of the listeners, which may stay as they
  are for ever; `HungLinkReset` alone also assumes that a listener whose link is
  gone exits in the end, and is refuted even so.
* Transport: both threads keep running; the reader gets `_io_lock` although the
  sender takes it again and again (strong fairness of the read). None is assumed
  of phones, input, or of the sender's decision to send.
* End to end: the threads run, the main thread goes through its events, a reader
  whose descriptor has hung up is told so by `select` (it may still find out by
  an exception or be overtaken by a failed send), and the worker gets the
  recovery lock, which the main thread holds for microseconds (strong fairness
  of `Recover`). None of phones, processes, sends or `init()`.
* Answers: the event loop runs what is ready; the five seconds of a read pass; a
  phone that reads again and again lets `drain()` end (strong fairness of
  `Drained` while it is not stalled), and so does an application (strong fairness
  of `Serve` while it is not `deaf`). Neither `drain()` has a timeout, so a peer
  that reads no more may stop it for good: nothing is assumed of one, and the
  properties name it. None of replies, or of anybody's coming and going.
* Registry: none; it claims safety only.
* Forwarding: the event loop runs tasks and callbacks that are ready, a reset is
  noticed (`ResetSeen`), and an application comes to the end of each answer, in
  however many pieces (or dies). `read()` has no timeout, so without the latter a
  command may wait for ever. Nothing is assumed of new
  commands, or of the application's death and return.
* Tracker: started threads keep running, and `file_lock`, held for one small
  write, is obtained (strong fairness of `Lock`). None is assumed of phones,
  authorizations, crashes or restarts.

## 5. The proofs

TLAPS checks every theorem for all values of the constants that satisfy the
modules' ASSUMEs: the devices differ; `None` is not an identity; workers are
neither callers nor checkers, and the agent and the sender are not readers; the
channel's name `bt_client` is not an address; the main thread is the only caller
of `BtLink`; the bounds `MaxRounds`, `MaxLinks`, `MaxBatch`, `MaxConns` and
`MaxMsg` are positive, `MaxConnects`, `MaxAuths` and `MaxQueue` natural numbers.
Sets of identities may be infinite unless a bound limits them. Each inductive
invariant is its module's type invariant, the property, and the parts named
below; the parts have been checked by TLC on the run's instance first.

`RfcommRecoveryProofs`:

* `TypeCorrect`: `Spec => []TypeOK`.
* `AtMostOneRecovery`: `Spec => []OneRecovery`. `OneRecovery` alone is not
  inductive: a caller that has seen the flag down sets it later. The invariant
  `FlightInv == TypeOK /\ GateDiscipline /\ OneRecovery` adds that such a caller
  holds the lock and the flag is still down, and that only one caller is about
  to start a thread.
* `EveryListenerHandled` and `RecoveryIsHarmless`: `HandleCoversListener` and
  `RecoverySparesListeners`, **under the hypothesis `Checker = {}`**, which is
  the deployed program. With a checker both are false: `check_rfcomm_listener`
  removes a handle outside the device lock. The invariant `ListenerInv` adds to
  `FlightInv` that a handle is of a process started for its device
  (`HandlesMatch`), that no thread runs while `init()` does (`BootAlone`), that
  a worker between its `poll()` and its `Popen` is at a device whose listener is
  dead (`RestartsDead`), and `HandleCoversListener` itself, which is what makes
  "the handle is dead" imply "no listener of this device works".
* `RefinesSingleFlight`: `Spec => Flight!Safety`, every step is a step of
  `SingleFlight` or a stutter; uses `FlightInv`.
* `OneRestartAtATime` for `RestartExclusive`, with any number of checkers.
  `RestartInv` says that a thread between the stop and the start of a restart
  holds its device's lock (`HoldsLock`) and that `init()` runs before any thread
  (`BootQuiet`).

`BtTransportProofs`:

* `TypeCorrect`, and `StaleWindow` for `StaleOnlyWhileClosing`, inductive with
  `TypeOK`: a number becomes foreign only after a `CloseFile`, and every
  `CloseFile` leaves its thread at `ClearFd`.
* `OneReportPerLink` for `ReportedOnce`. The report itself has no guard: what
  keeps it from being repeated is that `self._fd` leads to no link that was
  reported. `ReportInv` adds that a link whose end the reader has seen is down and
  not reported yet, and that a descriptor is one of a link that is up or was. For
  foreign files `ForeignInv` counts: the false reports made, with the one that is
  due or that a foreign file behind `self._fd` can still cause, are no more than
  the foreign files that were opened.
* `NoMixedMessage` for `OneLinkPerMessage`: `MessageInv` adds that the
  unfinished message holds bytes of at most the link behind `self._fd`.
* `DescriptorsReturned` for `NoDescriptorLeak`. `LeakInv` adds that the reader
  opens the device only when `self._fd` is `None`, and that, with `prompt`, a
  thread that is about to assign `None` throws away no descriptor of a link.

`BtLinkProofs`:

* `RefinesRecovery`: `LinkSpec => Spec`. Every step of the composition is one of
  `RfcommRecovery` or leaves its variables alone, so that what is proved of the
  recovery alone is proved end to end: `OneRecoveryEndToEnd` and, with
  `Checker = {}`, `ListenersEndToEnd`.
* `LinkTypeCorrect` for `LinkTypeOK` and `NoListenerForgotten` for
  `QuietMeansServed`, both with `Checker = {}`. The invariant `CoverInv` makes
  the property one of every state and not of quiet ones only: each device whose
  listener `init()` has started has one that works, or is `unwatched`, or is
  reported (its descriptor is dead, its event is in the queue or handled, or its
  worker is about to start), or is attended by a worker that is at it or still
  comes to it (`AllCovered`). When all is quiet the last two leave the dead
  descriptor as the one case. `WorkerPlace` says where in its two rounds a
  worker can be.

`BtTrackerProofs`:

* `TypeCorrect`: `Spec => []TypeOK`. `TypeInv` adds that the agent counts only
  what it may (`Allowed`) and that a server that is down has no threads.
* `NeverAFragment`: `Spec => FileComplete`. The rename asks nothing of the
  temporary file, whose one name all threads share, so the invariant has to say
  why it is whole: `DumpInv` says that one thread at a time is in a dump, the
  holder of `file_lock` (`OneDumps`), and that the temporary file then holds every
  key that thread has come to (`Dumped`).
* `FileAgrees`: `Spec => []FileCatchesUp`. The difficulty is a thread that
  updates while another dumps: the dump may be older than the dictionary. The
  invariant `CatchUpInv` adds to `DumpInv` the part `DumpFollows`: while nobody else is about to save, what a dump has
  written so far is what the dictionary holds, so that the last save of several
  always leaves the file right.
* `CountsKept`: `Spec => []CountDurable`. In `CountInv`, `Ahead` says that
  the count in the dictionary is ahead of what was counted and saved by at least
  one for each thread whose save is still under way (`Saving`, a finite set), and
  that the dump of such a thread, once it is past the count, holds its own.
  `Begun` says that no copy of the count, in the dictionary, a file or a reader,
  exceeds the openings.

`MobileRegistryProofs`:

* `RegistryTypeCorrect`, `ClientsDistinct` for `OneClientPerAddress`,
  `GhostsAreResets` for `GhostOnlyAfterReset`, `OnlyOwnClientsRemoved` for
  `OnlyOwnEndUnregisters`, from one invariant, `RegistryInv`: the properties
  support each other. `HelloesLast` for `HelloKept` adds that a connection not
  made yet has not said HELLO (`Silent`), so that the address it gets is never
  another than that of its HELLO. The loop that removes from its own list is right because
  no address has two clients (`RemovesOne`: then exactly the one is taken, the
  rest keep their order; `RemovesNone`: without one the list is left alone), and
  no address has two clients because what is added is not there. `PlaceInv` adds
  that a delivery has a message and a connection that was made an address.

`UnixForwardProofs`:

* `ForwardTypeCorrect`, `LossIsABrokenConnection` for `LostOnlyIfBroken`,
  `OnlyResetsAreKept` for `BrokenClientReplaced`, `OkIsTheAnswer` for
  `AckMeansAnswered`, `ConnectionsReturned` for `NoConnectionLeak`. `ForwardInv`
  says that a connection nobody opened is fresh and nobody's (`StreamInv`), that a command is asked where it was written until it is
  answered (`AskedInv`), that a task that waits is the one its connection's
  reader knows of (`WaiterInv`), that who reconnects, or ended without being
  heard, wrote to a connection that is closed (`BrokenInv`), that while the
  client is broken otherwise than by a reset some task is on its way to replace it
  (`ClientInv`), and, while no two commands have overlapped, that a connection
  that works and whose answers come whole holds no old answer, that no waiter is
  forgotten and that an exception is a reset's (`SerialInv`), and that none but
  the client's is open (`LeakInv`).

`AnswerPathProofs`:

* `AnswerTypeCorrect`, `NoAnswerTwice` for `EachOnceInOrder`, `OnlyCutsLose` for
  `LostOnlyIfCut`: `ServerInv` says that the segments of a read are in the order
  of the stream and all behind what was emitted (`BatchOrder`, `EmittedFirst`),
  that neither goes beyond what was read (`Reach`), that an answer whose first
  half only was read is recorded as cut (`CutInv`), that a piece comes only
  from an answer that was cut or has `idx` in it (`PieceInv`), that of an answer
  that was handed on whole nothing is left in the list or the stream
  (`IntactInv`), and that after an exception the loop has ended (`FailInv`). `SegmentsOf` is the lemma on what `split`
  gives, by `Enumerated`: ranking a finite set of distinct numbers enumerates it.
* `PhonesPaced` for `Paced` and `NothingSkipped` for `Gapless`: the queue of a
  client is a stretch of consecutive answers that ends with the last one emitted
  (`Queued`) and begins with the one being sent or right after the last that was;
  a client that was never connected has been sent nothing (`Unsent`). `Paced`
  counts a phone's slips, its timeouts and its pieces before the last: each moves
  one reply behind the `send` it answers, and nothing else does.

Only model-checked: liveness (`DeadListenerRetried`, `LinkServed`,
`DeadLinkDropped`, `LostListenerReturns`, `AnswersGoThrough`, `OthersServed`,
`CommandsEnd`, `SavesEnd`, and the fairness of `SingleFlight` in `ImplementsSingleFlight`),
because the prover reasons neither about `ENABLED` nor about fairness. The three
properties of section 6 are false, and TLC shows by what behaviour.

## 6. Where the code and its comments part

* **`recovery_hung_link`.** `auto_agent.py:33` and `36` say that
  `trigger_rfcomm_recovery` forces a reset: it kicks the dead connection and
  restarts listening. The code asks only whether the `rfcomm listen` process has
  exited. In the trace the link drops, a recovery is asked for before the
  process has noticed, the worker finds both listeners alive and ends in
  success; the process then exits, and nothing starts another. (The next report
  of a disconnect would, but no link can come up on that device to be lost.)
* **`registry_reset`.** `armessageserver.py:131`: the client is to be cleared
  once the phone has disconnected. When the connection is reset,
  `wait_closed()` raises in `tcp_server.py:88` before the signal of line 89 is
  emitted, and the exception is swallowed. The client stays, and the phone's
  next HELLO is ignored because its address is there already.
* **`tracker_zombie`.** `auto_agent.py:33` and `39`: a watchdog that sees a
  zombie forces a reset and resets the state. It evaluates `self.bt_init` first,
  which `BluezAutoAgent` never sets, so the thread ends in an `AttributeError`
  and the phone stays authorized. The trace also shows that any phone will do:
  nothing in the repository calls `set_rfcomm_connected(True)`.

## 7. What is not modelled

* The newline framing of the TCP and rfcomm receivers: what follows the last
  newline stays in the buffer, so a chunk is modelled as complete messages and,
  in `BtTransport`, as the links its bytes are of. Partial writes of
  `os.write`: the count it returns is read by nothing.
* Two applications side by side in `AnswerPath` (only the phones' queues join
  them), and crashes of the server in `BtLink`; see the bounds. A foreign file
  whose read blocks, behind a number the transport has closed. `send_deprecated` is called by nothing.
* `start()` and `stop()` of the TCP and unix servers, which no other part's state
  depends on.
* `check_rfcomm_listener` drops a handle outside the device lock (`bt_init.py:463`)
  and with it `HandleCoversListener` fails. Since nothing calls it this is a
  hypothesis of the theorems (`Checker = {}`) and not a listed hazard.
* A HELLO finds its client by address alone (`armessageserver.py:66`): a phone
  that says HELLO again with another port keeps the client of the first. The model
  does this; no property is about ports.
* `UnixClient.close()` of a program that ends, and a command so long that
  `drain()` waits. `add_bt_auth` and the `if status` part of
  `set_rfcomm_connected`, which nothing calls; the agent's methods that keep no
  state.
* `stop()` of the transport and `stop_rfcomm_listener(None)`: nothing calls
  them. `check_rfcomm_listener` is not called either; it is modelled because it
  shares the locks and the table with what is.
* The bluetooth set-up commands of `init()`, the tty attributes, the filter
  `_is_valid_mobile_msg`, logging: I/O or data no property is about.
* `start_all_server`: one sequence of awaits; a failure ends it.
* `UDPServer` is a stateless echo, `MsgChecker` is used by nothing, and the
  command definitions (`arglassescmd`) are a submodule that is not there.
