# A TLA+ model of scastd

scastd is a daemon that polls SHOUTcast servers, records their listeners and
songs in a database and serves a small status page over HTTP. This directory
holds TLA+ specifications of it, configurations that check them with TLC, and
proofs that TLAPS checks. Paths below are relative to the repository.

## The system

| Part | State | Operations | Talks to |
| --- | --- | --- | --- |
| Polling loop, `src/scastd.cpp: run` | `cfg`, the database settings, `db`, `db2`, `servers`, `workers` | start, reload, list, spawn, join, sleep, exit | handlers (flags), workers (threads), database |
| Worker, `src/scastd.cpp: processServer` | its response, the parsed figures | fetch, fetch again, judge, lock, select, insert, log | polled server, `db` under `dbMutex`, logs |
| Signal handlers, `src/scastd.cpp` | `paused`, `exiting`, `reloadConfig` | SIGUSR1, SIGUSR2, SIGTERM, SIGINT, SIGHUP | loop (flags), logger (its mutex) |
| Database classes, `src/db/*` | connection, last result | connect, query, fetch, disconnect | database |
| Logger, status log, `src/logger.cpp`, `src/StatusLogger.cpp` | streams, paths, settings, a mutex each | log, rotate, forward to syslog, set | every thread and every handler |
| Schema setup, `src/scastd.cpp: setupDatabase` | none | run the script: SQLite's as one text, a server's cut into statements | a database class |
| Start-up, `src/main.cpp` and the head of `run` | PID file, handlers, working directory | parse options, fork, write and remove the PID file | loop, HTTP server |
| HTTP status server, `src/HttpServer.cpp` | `running_`, credentials, start time | start, stop, answer | logs |
| Configuration, `src/Config.cpp` | the values | load (file, secrets, environment), get | loop, start-up |
| Icecast2 client, `src/icecast2.cpp` | none | parse one answer | nothing: the daemon does not call it |

How they interact: `main` parses the options, detaches and calls `run`. `run`
starts the HTTP server, installs the handlers and then works in cycles: reload
if asked, leave if asked, list the servers through `db2`, start one worker
thread per server in batches, join them, sleep. A worker fetches over HTTP and
then records through `db`, under `dbMutex`. Everything logs through one `Logger`
and one `StatusLogger`, each with a mutex of its own, and so do the signal
handlers, on top of whatever the interrupted thread was doing.

What is hard here: the workers share one database object and its one result; the
loop deletes and replaces that object; signals interrupt any thread at any
statement and log before they set their flag; a fetch may take for ever;
database calls fail and their results are ignored; the bodies of two fetches
share one string; the process forks up to three times while it starts; files
(PID, schema, logs) are changed in several steps.

What makes each part correct:

| Part | It must |
| --- | --- |
| Loop | never touch a handle a worker uses; never run more workers than configured; never lose a reload; report every listed server exactly once a cycle; end when asked to |
| Worker | read only its own result; record exactly what it reports |
| Handlers | set their flag, whatever they interrupt |
| Database classes | execute what they are given; survive reconnection |
| Logs | never block two threads on each other; never lose a line in a rotation |
| Schema setup | leave a usable schema after a failure or a crash |
| Start-up | leave a PID file that names the daemon, and remove it at the end |
| HTTP server | answer and log each request once |
| Configuration | a reload gives what a restart would give |

## The modules

| Module | Models | Mapped to |
| --- | --- | --- |
| `StatsCollector` | what polling promises, abstractly: a cycle begins with a set of servers, reports each once and ends | (abstract) |
| `PollLoop` | `run` after start-up, `processServer`'s control flow, the handlers' flags | `scastd.cpp` 66-68, 258-406, 511-742 |
| `MCPollLoop` | instances for TLC | |
| `PollLoopProofs` | proofs about `PollLoop` | |
| `Recording` | what a poll records: bodies, judgement, statements, backends | `scastd.cpp` 258-369, `CurlClient.cpp`, `db/*` |
| `MCRecording` | instances for TLC | |
| `RecordingProofs` | proofs about `Recording` | |
| `SignalLogging` | handlers on top of threads, and the three mutexes | `scastd.cpp` 345-406, 555-574, `logger.cpp` 115-161, `StatusLogger.cpp` 72-90 |
| `MCSignalLogging` | instances for TLC | |
| `SignalLoggingProofs` | proofs about `SignalLogging` | |
| `AppendLog` | what a log promises, abstractly: lines are given one by one, kept in order or lost, and the oldest are given up | (abstract) |
| `LogRotation` | one log file: `Logger::write`, its rotation, reopening, failing streams, crashes | `logger.cpp` 32-180 |
| `LogRotationProofs` | proofs about `LogRotation` | |
| `HttpServer` | the status server on `LogRotation` (access.log) and an `AppendLog` (status.json) | `HttpServer.cpp`, `StatusLogger.cpp` 72-109 |
| `MCHttpServer` | instances for TLC | |
| `HttpServerProofs` | proofs about `HttpServer` | |
| `SchemaSetup` | the SQLite file: existence test, connection, script | `scastd.cpp` 120-137, 537-546, `SQLiteDatabase.cpp` 36-72, `sqlite.sql` |
| `SchemaSetupProofs` | proofs about `SchemaSetup` | |
| `Lifecycle` | processes one after another, from `main` to their end, on one `SchemaSetup` | `main.cpp` 171-300, `scastd.cpp` 424-429, 537-588, 695-741, `HttpServer.cpp` 48-185 |
| `LifecycleProofs` | proofs about `Lifecycle` | |
| `ConfigReload` | sources of the configuration, intervals, choice of the database, reload | `Config.cpp` 30-199, `scastd.cpp` 430-536, 585-693 |
| `MCConfigReload` | instances for TLC | |
| `ConfigReloadProofs` | proofs about `ConfigReload` | |

A definition whose name ends in `_Bug` is a plausible mistake in the definition
it is named after; nothing uses it. It is there to show that the properties
would notice: each property is violated when one such definition takes the place
of the right one.

### PollLoop

`pc` is the statement of `run` the main thread is about to execute, and `st[s]`
that of the thread that polls `s` (`"none"`: there is none). `reloadConfig`,
`exiting` and `paused` are the flags of the source; a handler is one step that
sets its flag. `disk`, `loaded` and `settings` are versions of the
configuration: in the file, last read, and those `dbType`, `dbUser`, ... hold.
`handle[d]`, for `db` and `db2`, is an object with its class, whether it exists,
whether it is open and the version it was connected under. `rows` is what is
left of the result of the list query, `servers` the vector, `queue` the servers
not yet given a thread, `workers` the vector of threads. `cursor` is the server
whose SELECT left `db` its result, `dbMutex` the owner of the mutex.
`hupVersion` (the version in place when SIGHUP was last caught), `report` (the
entry in the status log) and `late` (the servers fetched after `exiting` was
set) are what the properties need besides.

The granularity is that of the accesses to shared state: each access to a flag
is a step (so a signal may come between the test of `exiting` and the fetch of
the row behind it), the branches of the reload are steps between which signals
arrive, each statement a worker sends and each fetch of a result is a step. The
test of `reloadConfig` and its clearing are one step: a signal between the two
asks for a reload that has not yet read the file. Two servers of one database
never have the same URL (`serverURL` is the primary key in every schema), so a
thread is named by its server.

`StatsCollector` is implemented with `phase` read from `pc`, and `todo` the
servers of the cycle without an entry. Listing is a stutter until the fetching
loop ends; a cycle lasts to the last join.

### Recording

The locked part of `processServer` holds `dbMutex` from its first statement to
its last, which `PollLoop` checks and `PollLoopProofs` proves to be enough
(`ResultOwned`); the effects on the tables are therefore those of one worker
after another, and `Recording` polls the servers in turn. A body is one of eight
kinds, told apart by what `processServer` tests: whether it holds
`<CURRENTLISTENERS>`, the title of the login page, a `<`, or a whole document.
`response` is the sequence of bodies appended to it, because `WriteCallback`
appends and the second fetch is given the same string. `songs` and `figures` are
the two tables. Both INSERTs name NULL as the time, and the column is nullable
in every schema, so "order by time desc limit 1" may return any row of the
server. `connected` is `db`'s connection; `db2` has its own, and when it fails
the list is empty. A statement may fail in three ways (`Refuse`): there is no
connection, the database refuses it on one that is up (the title goes into the
text of the INSERT as it is, so that an apostrophe in it is enough), or the
connection is lost when it has been executed and before its answer is here. In
each `query` returns false and nobody looks; the history variable `failed` has
the statements of the poll for which it did. SQLite's `query` prepares and only
`fetch` executes; PostgreSQL refuses `gather_flag = 1` because `gather_flag` is
TEXT. An element without text hands a null pointer to `strcpy` or `atoi`; that
ends the process (`pc = "crashed"`).

### SignalLogging

The state of a thread is a stack of frames: its own code, and above it the
handlers it is in. The kernel may put a handler on any thread at any statement,
also while it waits for a mutex; `signal` blocks a signal while its handler
runs, on that thread only. Every handler goes through `Logger::write` before it
sets its flag, and `sigUSR1` reads `paused` before that. A `std::mutex` that a
thread locks twice is undefined behaviour; with glibc the thread waits for ever,
which is what the model has. `sigUSR2` and `sigINT` do what `sigTERM` does.

### LogRotation and HttpServer

In `LogRotation` a line is its number, `file[j]` the set of lines in the file
with suffix `.j` (0 is the one written to), and `size[j]` its size in bytes.
`rotateIfNeeded` compares that before the line is printed, so that a file may
exceed `log_max_size` by all of the line but a byte, and a stream that fails may
leave a part of a line. `maxSize` is the setting as `tellp` is compared with it:
a negative number stays one, and then every write rotates. `logpc` and `i` are
the statement of `write` or `rotateIfNeeded` and its loop variable, so the
process may end between any two renames; an exception out of `std::filesystem`
ends it, too, because nobody catches it. The stream may fail when it is opened
or written to, and then `tellp` is -1 and every later line is lost. `ends +
failures` is bounded by `MaxFaults`; `lost` and `interrupted` are history.
`StatusLogger` has the same loop.

`AppendLog` is what this amounts to: lines come one at a time, each is kept or
lost before the next, and what is removed is older than what stays. A crash in
the middle of a rotation is a stutter or loses the line in flight.

`HttpServer` extends `LogRotation`: the threads of libmicrohttpd's pool and the
main thread (which writes the two header lines after the pool has started) share
the access log through `loggerMutex`, and then go to `status.json`, under
another mutex, so that a request may overtake another in between. A request is
its number; `entry` and `statusEntry` are its lines. `outcome` and `earlier` are
history: how a request ended, and which ones had ended when it came. Only
`/uptime` is answered without a line. The other writers of access.log are left
out, the workers, the handlers, the first and last lines of `run` and the debug
lines of the server: each is one more call of `Logger::write` under the same
mutex, which is one more thread to `LogRotation`.

### SchemaSetup and Lifecycle

`SchemaSetup` is the file of the database. `run` connects `db`, then `db2`,
whatever the first gave (`OpenFile`, `OpenFails`, `OpenSecond`, `SecondFails`):
the second may be the one that creates the file, and the script is then given to
a handle that has no connection (`NotConnected`). Table `t` has the statements
`2t - 1` (DROP) and `2t` (CREATE); `next` is the statement to come. `pending` is
`needInit`. `query` does not step a single statement, but the script has more
than one, so that its text goes to `sqlite3_exec`, which executes them one by
one. `cut` records why a script did not come to its end; it is history, and what
`SchemaUsable` says is that there is no other way to an incomplete file. Nothing
in the code looks at it: an incomplete file is never completed by the daemon,
only by `--setupdb`, and no document promises more. The property is a list of
the ways a database becomes unusable, not a claim that it does not.

`Lifecycle` extends it with one process after another. A fork goes on as the
child, and what the child lacks is told apart: `pidFile` is `"self"`, names a
process that is gone, or is empty because it was opened and not written; `http`
is `"serving"` or `"left behind"` in the parent. `env` are the machine and the
configuration: `http_enabled`, `SCASD_NO_DAEMON`, whether the path of the
configuration is relative, and whether the script is installed. `term` and `hup`
are the handlers in place. Signals may come at any statement; `handle_signal`
ends the process, or never returns, because it stops the server and logs from
wherever it is. `main` ignores an error of the removal of the PID file, and the
process has then ended as `"not removed"`. `MaxStarts` bounds the processes,
`MaxFaults` the calls that fail. The operator removes the database only while no
process is between the test for its existence and the connection.

### ConfigReload

A configuration is a function from the keys that are given. `Load` puts the
file, `username_file`, `SCASTD_USERNAME_FILE` and `SCASTD_USERNAME` together, in
that order, `Override` the options over it. A variable that is not set, and a
secret file that gives no line, is `Unset`; one that is set and empty, or has an
empty first line, gives the empty name, which replaces an earlier one. The
secret files are read again at each reload, and `fromEnv` is what
`SCASTD_USERNAME_FILE` gave then. `foreground` is the default of `log_console`.
`settings` are the variables `run` takes from it. `Started` and `Reloaded` are
the two pieces of code that take them. An interval is a number and its suffix,
and the product wraps as an int does. The password and the port go with the user
name.

## The runs

| Run | Bounds | Shows |
| --- | --- | --- |
| `poll_safety` | 3 servers, 2 threads, 2 edits that change the database type | type invariant; workers only use a live, current handle (`WorkersOnLiveHandle`, `HandlesCurrent`); each reads its own result (`ResultOwned`); the pool keeps its width (`PoolBounded`); no SIGHUP is swallowed by a reload under way (`ReloadNotLost`); once `exiting` is set at most one server is added, the one whose row was about to be fetched (`OneServerAfterExit`); `Inv`; the loop implements `StatsCollector` |
| `poll_liveness` | 2 servers, both answer or fail, 1 edit | `ShutdownCompletes`, `ReloadHonoured`, and the fair `StatsCollector`: every cycle ends |
| `poll_hang` | 2 servers, one never answers | violated: `ShutdownCompletes` |
| `recording_safety` | 2 servers, 2 titles, 3 polls, all 64 pairs of answers, MySQL that may be lost and restored and may refuse any statement | an error has recorded nothing (`ErrorRecordsNothing`); an ok has recorded its title and one row of figures, save what was in a statement that failed (`OkRecordedUnlessFailed`); the second URL makes up for a first body without markup, and what it brings is recorded likewise (`FallbackWorksOnBareV1`); `Inv` |
| `recording_sqlite` | 1 server, SQLite, nothing fails | violated: `OkMeansRecorded` |
| `recording_fallback` | 1 server that answers the first URL with nothing, text or a page | violated: `CompleteAnswerIsUsed` |
| `recording_postgres` | 2 servers, PostgreSQL, nothing fails | violated: `FlaggedServersListed` |
| `signal_safety` | main thread and a worker, 2 log calls or polls each, SIGUSR1 twice, SIGTERM once | no circle of mutexes between threads (`LocksAreOrdered`); SIGUSR1 toggles (`PauseParity`); SIGTERM is handled unless a thread was stopped inside `Logger::write` (`TermHandledUnlessSelfLocked`) |
| `signal_self_lock` | one thread, each signal once | violated: `TermHandled` |
| `http_logging` | 2 pool threads, 2 requests, logged or not, lines of 2 bytes, 2 rotated files, `log_max_size` 2, 1 or -1, 1 crash or failure of the stream | who was answered, or refused, finds its lines, or they have been given up for newer ones (`AnsweredIsLogged`), in the clients' order (`LogsFollowClients`); files in order, none larger than `log_max_size` by a whole line, none given up that was not full, and no rename onto a file (`LogInv`); access.log is an `AppendLog` under the server's threads (`ImplementsAppendLog`); stopping ends (`StopCompletes`) |
| `lifecycle` | 3 processes in 16 environments, 2 tables, 2 calls that fail | an incomplete database has a known cause (`SchemaUsable`); whom the PID file names, and that it goes unless its removal fails (`PidFileTruthful`, `StopRemovesPid`); a signal ends no process that polls or sets up (`SignalsAreRequests`); no start drops a table (`TablesSurviveStarts`) |
| `config_reload` | 81 files, 2 sets of options, 4 environments, secret files without a line, with an empty one and with a name, in the foreground or not, any number of reloads | a reload gives what a restart would, for what is given (`ReloadIsRestart`); never a mixture of a server and SQLite (`SettingsOK`); the order of the sources, also of empty ones and of a secret file that changes (`SourcesInOrder`); intervals are as written, with a unit or without (`IntervalAsWritten`); a second SIGHUP does nothing (`ReloadIsIdempotent`) |

Why the bounds are enough. Three servers and two threads give a full batch, a
partial one, and three contenders for the mutex and the result. Two edits give a
reload that overtakes a reload, each with a change of class. Three polls of two
servers give a poll of a known song, of a changed one, and of another server's.
Two threads are enough for a circle of two mutexes, and two SIGUSR1 for one that
meets its own handler, on its thread or another. The unbounded counters (edits,
polls, log calls, signals) are the only things cut. Two rotated files are the
fewest in which an interrupted rotation leaves a gap with files on both sides
(`.2` has been written and `.1` not). A line of two bytes fills a `log_max_size`
of 2 and exceeds one of 1, so that every write to a file that holds a line
rotates, and the two header lines and those of two requests fill the files and
give up the oldest; a size of -1 rotates at every write, also a file that is
empty. A maximum of several lines is left to `LogInvariance`, which is about all
sizes. A refused method is left out, because it takes the steps of a refused
user, who is in. Two requests give every order of two threads at two logs, and
one fault is a crash or a failing stream at any step, after which everything
goes on. Two tables give a script that is cut before, inside and after a table,
and three processes a first start that is cut, one that finds what it left, and
one after a repair. Two calls that fail are both connections, or the writing of
the PID file and its removal. In `config_reload` the intervals are scaled (a
second is 4, the largest int 127), so that the product of hours overflows inside
TLC's integers; `DatabaseFiles` are all ways to give or leave out five keys, and
the other keys are varied one at a time, because no setting is taken from both.
Reloads are unbounded: any file may follow any.

The five disagreements the violated runs show:

- a server that accepts the connection and never answers keeps the daemon from
  exiting, because `fetchUrl` is called without a timeout and `run` joins;
- with SQLite, the default backend, polls are logged as ok and nothing is
  recorded, because an INSERT is prepared and never stepped;
- a server that answers the first URL with a page is always an error, because
  the second body is appended to the first;
- with PostgreSQL no server is ever polled;
- a SIGTERM that interrupts `Logger::write` stops that thread for ever.

Seen while reading, without a run of its own: with MySQL, too, an INSERT that
fails is logged as ok, also on a connection that is up (`recording_safety` has
it and states what does hold); `thread_count 0` means one worker
(`scastd.cpp:710`) where docs/ResourceLimits.md:16 says the number of hardware
threads; two SIGUSR1 handled on two threads may toggle once.

From `main` and the head of `run`:

- whenever the HTTP server forks (it does unless `SCASD_NO_DAEMON` is 1) the PID
  file names the parent that has left; `PidFileTruthful` is about the other
  case. `tests/test_pid.cpp:66` and `tests/test_scastd_cli.cpp:103` signal the
  process the file names; they do so in the program of `tests/test_http.cpp`,
  which sets the variable and leaves it set;
- a SIGTERM between `HttpServer::start` and `run`'s own handlers leaves the PID
  file behind;
- the configuration is looked for relative to the working directory, which
  `daemon(0, 0)` has changed, so `--daemon` without an absolute `-c` ends in
  `run`, and a reload of a relative path changes nothing;
- in the foreground mode `run` forks after the HTTP threads were started: the
  child serves nothing, and `stop` joins threads it does not have;
- `--test-mode` creates an empty SQLite file that no later start initialises,
  and so does a first connection that fails where the second succeeds;
- an error of the removal of the PID file is ignored (`main.cpp:297`).

From the configuration: without `dbname` a SIGHUP that follows no edit may turn
the daemon from SQLite to a server, because the path of the SQLite file is the
default of `dbname`; `5min` is five milliseconds, and `mins` and `hours` are
seconds; `SCASTD_USERNAME` set to nothing makes the daemon use SQLite, whatever
the file says; the directory of the status log, rotation, the number of threads,
HTTP and its certificates are taken at the start only (docs/HTTPS.md:62 says
"Reload or restart" for certificates, and lines 45 and 53 call `ssl_enabled`
`ssl_enable`). From the server: `/uptime` is not logged.

### Fairness

`PollLoop`: weak fairness of the main thread and of each worker (the operating
system schedules threads, `sleep_for` ends, the database answers or fails, a
`std::mutex` that is released is taken by someone, and each worker takes it
once), and of the fetches of servers that are not `Unresponsive`. No fairness of
signals, edits or failures. `SignalLogging`: weak fairness of what a thread has
begun and of the delivery of a pending signal; starting a log call is never
fair. A free mutex is taken from a thread only by others' log calls, which are
finitely many between two sleeps of the daemon. `HttpServer`: weak fairness of
the main thread's statements, of the rotation under way and of each thread of
the pool; none of requests, crashes or the stop. `Lifecycle`: weak fairness of
the process's steps, and strong fairness of `Leave`, because the loop looks at
`exiting` in every cycle, and SIGHUPs in between do not keep it from that. It
assumes that the cycles end, which is `PollLoop`'s `ShutdownCompletes` where
every server answers or fails, and which `poll_hang` refutes where one does
neither; and that no signal finds a thread inside `Logger::write`, which
`signal_self_lock` has. None of signals or kills. `ConfigReload` needs none.

Deadlock is not checked in `PollLoop`, where the daemon ends, nor in
`SignalLogging`, where the bounded calls come to an end (and a thread may stop
on itself, which `TermHandledUnlessSelfLocked` is about), nor in `HttpServer`
and `Lifecycle`, where requests and processes come to an end; `StopCompletes`
and `StopRemovesPid` say what must not get stuck. `Recording` can always change
a title, and `ConfigReload` reload.

## The proofs

`PollLoopProofs`, for every set of servers, every thread count and every number
of edits:

- `TypeCorrect`: `Spec => []TypeOK`;
- `Invariance`: `Spec => []Inv`, and from it `WorkersAreOnLiveHandle`,
  `ResultIsOwned`, `PoolIsBounded`, `HandlesAreCurrent`, `NoReloadIsLost`;
- `ExitAddsOneServer`: after `exiting` is set, the only fetch that can still add
  a server is the one whose test is behind it (`LateInv`);
- `Implementation`: `Spec => Collector!Spec`, step by step.

The invariant is a conjunction of named parts. `ThreadInv` ties the threads to
the cycle, so that outside it there are none; `LockInv` says the statements
between `lock_guard` and the return are executed by the owner only, which makes
`ResultOwned` inductive; `PoolInv` counts; `HandleInv` says what the objects are
at each statement of the reload, in which they are deleted one after the other;
`VersionInv` orders the versions; `ReportInv` says a server of the cycle has no
entry exactly while it waits or runs, from which the refinement follows: a
worker's last step is a `Report`, and after the join nothing is left to report.

`RecordingProofs`, for every set of servers and titles, every backend and every
choice of answers and of failing statements: `TypeCorrect`, `Invariance`,
`ErrorMeansNothingRecorded`, `OkMeansRecordedUnlessFailed` and `FallbackWorks`.
The properties speak of the end of a poll, so the invariant follows it:
`PollInv` counts the bodies, `TablesInv` says that nothing is recorded before
the song's insert, that the result compared is this server's, and what is
recorded before each of the later statements, save for those in `failed`.
`FallbackWorks` needs one thing more (`FallbackInv`): from the judgement on, a
first body without markup has a second one behind it; the two together then are
a document, because such a body adds nothing before the first `<`. That its
answer is also recorded comes from `OkRecordedUnlessFailed`.

`SignalLoggingProofs`, for every set of threads and workers and any number of
log calls and signals: `LocksStayOrdered`, `TogglesKeepParity` and
`SignalTypes`. The invariant is about the stacks: a thread's own code is at the
bottom of its stack and only it takes `dbMutex` and the status log's mutex
(`StackInv`, `CodeLockInv`); of all frames of all threads one is inside
`Logger::write` while the logger's mutex is taken (`LoggerInv`); and of the
handlers of SIGUSR1 there is one, whose reading of `paused` is still true,
unless two overlapped (`ToggleInv`). That a thread in a handler waits for no
mutex but the logger's is what keeps the order. The type invariant is more than
types: a stack has no two frames of one signal (`FramesInv`), which bounds it,
and SIGUSR1 toggles no more often than it was sent, because a signal that was
sent is pending, in a handler, has toggled or was merged into one that was
pending (`CountInv`).

`LogRotationProofs`, for every retention and size, also the senseless ones:
`LogInvariance` and `FilesAreALog`. `TargetInv` is what makes the chain work:
the file a step renames to has been moved away, also when the loop skips a gap
an interrupted rotation left, so a rename loses nothing; `FilesInOrder` then
makes the removal of the last file the removal of the oldest lines, which is the
step `DropOldest` of `AppendLog`. `SizeInv` bounds a file by `Room + MaxLine`:
what it may hold when a line is printed, and that line. What has been given up
has been given up for full files: a file is moved only when it is full
(`FullInv`), and `RetainedInv` says that behind each file that is there no file
is missing (`Missing`), nor any of all `log_retention` once a line has been
dropped, but for one for each rotation that was interrupted and, when the size
is negative, for each stream that failed (`Gaps`).

`HttpServerProofs`, for every pool and number of requests, first carries the
invariant of one log over to the server's access.log (`AccessInvariance`,
`AccessIsALog`); this follows from the shape of the steps and is there for what
builds on it. `LogsFollowTheClients` comes from the invariant that a request
with an outcome has no thread, so that its lines are below all that are still to
be written. `ServerTypes` is the type invariant with the mutex: a thread is
inside `Logger::write` exactly if it owns `loggerMutex`, and a rotation has an
owner (`MutexInv`). `AnsweredAreLogged` follows a request past the statements:
`LoggedInv` says it has its lines when it is past the calls that write them, and
that such a line is not the one in flight; `StatusInv` says that what
`status.json`, which is an `AppendLog` here, has given up is older than what it
keeps; and the number of newer files of access.log comes from `RetainedInv`,
because all that is kept is newer than what is dropped (`OldestInv`).

`SchemaSetupProofs`, for every number of tables: `SchemaIsUsable`; when
statement `n` is next, the tables below `n / 2` are there. `LifecycleProofs`,
for every number of processes and of calls that fail: `LifecycleTypes`;
`DatabaseIsUsable`, which takes `SchemaUsable` over from `SchemaSetup`;
`PidFileIsTruthful`, `SignalsAreOnlyRequests` and `TablesAreKept` come from an
invariant in named parts: where a set-up can be pending (`PhaseInv`), which
tables a script that was not asked for can meet (`ScriptInv`), who has written
the PID file (`PidInv`), which handlers are in place (`HandlerInv`).

`ConfigReloadProofs`, for all files, options and environments:
`ReloadGivesRestart`, `SourcesStayInOrder`, `ReloadIsIdempotentAlways`,
`SettingsAreOK` and `IntervalStaysAsWritten`. Idempotence comes from the
invariant that the database that was chosen is chosen again (`ChosenAgain`),
whichever keys the file leaves out. `SourcesStayInOrder` is about any sequence
of contents of the secret files, and of the name a server is given as much as of
the configuration. `SettingsAreOK` needs the types of what was read (`TypeInv`)
and that a product that wrapped is an int again; `IntervalStaysAsWritten` is
about the products that do not wrap, for every length of an int and of the
units.

The assumptions are the named ones on the constants (`ConfigAssumption`,
`ThreadAssumption`, `ServersAssumption`, `RecordingAssumption`,
`SignalAssumption`, `RotationAssumption`, `HttpAssumption`, `SchemaAssumption`,
`StartAssumption`, `ConfigFilesAssumption`, `ValuesAssumption`). They say what
the constants are (finite sets of threads and servers, numbers, the values a key
may have), and TLC evaluates each of them; the senseless settings the code
accepts, a negative size or retention or thread count, are among them. No
theorem has another hypothesis.

So every invariant and every action property of the runs that pass is a theorem.
Only model-checked: the liveness properties (`ShutdownCompletes`,
`ReloadHonoured`, `TermHandledUnlessSelfLocked`, `StopCompletes`,
`StopRemovesPid`) and the fair refinement (`ImplementsFairCollector`), because
fairness is outside this prover's reach; and the properties the five violated
runs refute, which are false.

## Not modelled

The Icecast2 parser (the daemon does not call it), the database dump (an
external program), message catalogues, the URL parser, packaging and vendored
files; the text of log lines, queries, pages and of the configuration file; how
a server's script is cut into statements (`scastd.cpp` 138-175: comments and
quotes are text); log levels, syslog and the console, which a line goes to in
addition; the other access to a log file, that of an operator. The set-up of a
server's database is run by `--setupdb` only, statement by statement up to the
first that fails, as in `SchemaSetup`, but the test for the existence of a file
is SQLite's alone. Memory: that `malloc` may be interrupted by a handler, too,
adds a second lock of the kind `SignalLogging` has. Exceptions out of a thread
or out of `std::thread` end the process; `Lifecycle` has them as `Kill`,
`PollLoop` does not, and they are listed as a hazard.

## Plan

What is left, in this order:

1. The splitter of a server's script as a function against a reference.
2. `PollLoop`: a `Spawn` that fails.
3. `status.json` as a second `LogRotation` instead of the `AppendLog` it is now.
