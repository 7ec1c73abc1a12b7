# TLA+ models of the CIS3207 projects

The repository holds five programs: file tools (project 0), a discrete event
simulator (project 1), a shell (project 2), a networked spell checker
(project 3) and a signaling program (project 4). This directory holds TLA+
models of all five. The threads of the spell checker with its clients, the
processes, threads and signals of the signaling program, the event loop of the
simulator and the processes of the shell are state machines; the sequential
parts (parsing, coding, heaps, averages) are operators that are compared with
definitions which do not follow the code. TLC checks the models on small
instances, and TLAPS proves all safety results for every instance.

- [The system](#the-system): components, their state and how they interact
- [Plan](#plan): what is modelled now and what follows
- [Modules and the code](#modules-and-the-code)
- [Runs](#runs): what each one checks, bounds and fairness
- [Proofs](#proofs)
- [What the models found](#what-the-models-found)
- [Not modelled](#not-modelled)

Paths are below `src/`; P0 to P4 stand for the five project directories.

## The system

### Spell-check server (P3)

One process: `main`, a fixed number of worker threads, one logger thread.

| Component | State | Operations | Where |
|---|---|---|---|
| client dispatch | `worker_queue` (a `std::priority_queue` of `worker_entry` with `struct compare`), `worker_mutex`, `client_added`, `client_removed`, the descriptors | `main`: accept, wait for room, `emplace`, signal; worker: wait for a client, `top`, `pop`, signal | `server.cpp` 62-74, 355-380; `server_structures.h` |
| answers and log | a buffer per worker, `logger_queue` (a `std::queue` on a deque), `logger_mutex`, `logger_added`, the log file | worker: read, strip, look up, write, `emplace`, signal; logger: wait, `front`, `pop`, write the line | `server.cpp` 79-126, 161-194 |
| arguments | the globals `PORT`, `MAX_WORKER_THREADS`, ... | `key=value` options, their tests and exit codes | `server.cpp` 213-308, `map_manipulation.cpp`, `errors.h` |
| dictionary | a hash set | filled before the threads start, then only read | `dictionary.cpp` |
| listening socket | one descriptor | opened once, while the logger opens its file | `open_listener_socket.h`, `server.cpp` 338-349 |

`main` and the workers share the queue under `worker_mutex` and talk through
two condition variables, with one `pthread_cond_signal` per event. Workers and
logger share `logger_queue`, which the workers change **without** a lock. The
hard behaviours are the interleavings of lock, test, wait and signal; a queue at
its limit; clients that come and go at any moment, also while their answer is
written; reads that return a part of a message or several; the race on the log
queue.

Correct means: an accepted client is never lost, duplicated or served by two
workers; nobody reads an empty heap; nobody sleeps while there is work for him;
the queue keeps its bound; a queued client is served; each answer is logged
once, whole and in order; the word looked up is the word sent; a client cannot
end the server.

### Signaling program (P4)

Four processes: `main` (also a generator), the signal-handling process with a
main thread (the logger) and four receiver threads, and two generator children.

| Component | State | Operations | Where |
|---|---|---|---|
| process tree | four copies of `PROGRAM_RUNNING`, `signal_generators[]`/`children[]`, actions for SIGTERM | fork, generate, stop by time or at 100,000 signals, `kill`, `waitpid` | `main.cpp`, `generator.cpp`, `initialize.cpp` 78-86 |
| set-up of the receivers | signal masks, the local `sig` whose address is passed, installed actions | block, unblock, `pthread_create`, `signal` | `initialize.cpp` 14-42, 53-76; `receiver.cpp` 66-75 |
| receivers and logger | `SIGUSR1_COUNT`, `SIGUSR2_COUNT` and their locks, `LOGGER_QUEUE`, `LOGGER_LOCK`, `MAX_SIGNALS`, `EMPTIED_SIGNALS`, `sigusr1_received`, `sigusr2_received` | the SIGUSR handler, the logger's rounds, the SIGTERM handler | `receiver.cpp`, `logger.cpp`, `initialize.cpp` 44-51 |
| averages | two vectors of times | `GetVectorAverage` | `logger.cpp` 10-27 |
| random numbers, names | one `mt19937` | sleeps, draws | `helpers/generics.cpp` |

The processes interact by signals and `waitpid` only. Inside the handling
process, handlers interrupt receivers anywhere, and take mutexes and wait on
condition variables; the SIGTERM handler interrupts the logger, which may hold
`LOGGER_LOCK` or be about to wait. Signals sent while pending are merged.

Correct means: every counted signal is reported once; a batch is logged when it
is full; receivers and logger never all wait for each other; SIGTERM ends the
logger; handlers run on the receivers given that signal; all four processes end,
children first, and none by the default action of a signal.

### Event simulator (P1)

One thread. `sim_queue` is a heap of events by time; the CPU, two disks and the
network each have a FIFO of jobs and a flag. The loop of `main` (88-197) pulls
an event and handles it, `ComponentHandler` (245-307) serves disks and network.
It is sequential; what is hard is the order of simultaneous events, the many
draws, and a clock (`sim_time`) that is assigned in some branches only.
`config_file.cpp` reads the parameters; the statistics (210-243 and counters in
the loop) read the state of the simulation, from counters that nobody sets first.

Correct means: the clock never goes back nor past an event; a component serves
one job at a time and none waits while it is free; no job is lost or duplicated;
the simulation reaches `FIN_TIME`; the statistics say what happened.

### Shell (P2)

| Component | State | Operations | Where |
|---|---|---|---|
| commands, background, redirection | descriptors 0 and 1 and their saved copies, the child processes, the rest of the command line | read and split a line, redirect, fork, exec, wait, restore | `main.cpp`, `Helpers/redirection.cpp`, `Helpers/vector_manipulation.cpp` |
| internal commands | working directory, `PWD`, `PATH` | `cd`, `clr`, `dir`, `environ`, `path`, `echo`, `help`, `pause` | `InternalCommands/` |

A forked child is a copy of the shell, the rest of its command line included.
Hard: what a background child goes on to do after it has forked a program, the
descriptors on every path of a redirection that fails, and two ways of splitting
a line at `&` that ought to mean the same.

Correct means: between commands a shell has its own input and output; a program
has the files of its command; a foreground program is over before the next
command; a background child exits when its command is done.

### File tools (P0)

`wcat` and `wgrep` copy lines; `wzip` and `wunzip` are a run-length coder and its
decoder, with 4-byte counts of which the decoder uses one signed byte.

## Plan

1. **Core, done.** `ClientService` and `ServerDispatch` with
   `ServerDispatchProofs`; `ServerLogger`; `SignalLogger`; `ReceiverSetup`;
   `ProcessTree`; `EventSim` with `EventSimProofs`; `Shell`.
2. **Server session, done.** `ServerSession` composes the buffer, the client's
   stream and SIGPIPE with `ServerLogger`; `AnswerLog` is what they promise;
   `ServerStart` has the options and exit codes.
3. **Statistics, done.** `EventSimStats` composes the counters with `EventSim`.
4. **Sequential parts, done.** `PriorityHeap`, `RunLength`, `TextTools`,
   `SignalAverages`, `ConfigFile`, `ShellLine`, `WorkingDirectory`, all checked
   by `Algorithms`.
5. **Proofs of the safety invariants, done.** `SignalLoggerProofs`,
   `ServerSessionProofs` with the refinement of `AnswerLog` for one worker,
   `ReceiverSetupProofs`, `ProcessTreeProofs`, `ShellProofs`, the jobs and the
   statistics in `EventSimProofs`.
6. **Proofs about the sequential parts, done.** `AlgorithmsTerms` and
   `AlgorithmsProofs`: all ten properties of `Algorithms`, for inputs of any
   length.

## Modules and the code

An action is one step of one thread between two places where another thread,
process or signal can be noticed. Each definition's source lines are in the
`map` of `PROJECT.json`. A definition placed just before the one it resembles,
commented by what is wrong with it, is a deliberate fault (a mutant): it takes no
part in the specification and shows that a property would notice it.

**`ClientService`** is what the server promises, without threads: a bounded
queue, the most urgent client first, as many clients at a time as there are
servers, each served once.

**`ServerDispatch`** has `main_pc` and `pc[w]` for places, `client_socket` and
`current_client_socket` for the local variables. `pthread_cond_wait` is three
steps: release and sleep ("waiting"), be woken ("relock"), own the mutex again.
`WorkerRelock` goes back to the test, because the code says `while`;
`MainRelock` goes on to `emplace`, because the code says `if`. The heap is a set
and its `front`: the front is maximal, and which of several equals follows is
left open. `AddClient` joins `emplace`, signal and unlock, `Pop` joins pop,
signal and unlock: they run under the mutex. Descriptors are never closed, so
each is given out once and `AcceptFails` is all that is left in the end.
A client's conversation is the place "serve".

**`ServerLogger`** takes `logger_queue->emplace` apart, as no lock makes it one
step: load `finish`, construct the word, construct the result, load and store
the incremented pointer. A deque is made of nodes, whose addresses are kept in a
map. For the last slot of a node `emplace` adds a node, and when the map has no
place behind it, `MoveMap` moves the map, as `_M_reallocate_map` does: the worker
then writes `start` and frees the old map, while `pop` may be about to leave its
node (`LeaveNode`) by way of that map. `raced` records that the two have
overlapped, or two emplaces of which one adds a node: from then on the pointers
need not fit together, and `empty()` and `front()` return anything. The slots are
numbered through; `map_end` and `map_size` are the place of the last node in the
map and the size of the map. The logger's test and its wait are two steps because
`logger_mutex` is locked by the logger alone, so the mutex is left out.
`SkipEmptyMessage` is the branch for a message of which nothing remains.

**`AnswerLog`** is what workers and logger promise together: an entry once stored
stays whole until the oldest is moved to the log, as long as nothing is `broken`.
`ServerLogger` maps to it with the slots from `start` to `finish` as the queue and
`raced` for `broken`; with one worker it implements it.

**`ServerSession`** EXTENDS `ServerLogger` and refines its "read" into the read
loop. A client sends bytes; `read` takes what there is up to the size of `buff`,
so a message may come in parts or several at once. `Strip`, `Words` and
`SignalAndClear` treat the buffer as the code does, from a first content that is
not initialised. `connection` is the client's end: after a FIN the first write
may provoke the RST that makes a later write raise SIGPIPE; after a RST the first
write fails and the next one raises it. `left_early` and `left_over` are history:
whether the client closed with a message unanswered, and whether a skipped
message's bytes are still in the buffer. A client's answer is not part of the
state: `SpellCheck` is a look-up that nothing else influences.

**`SignalLogger`** has a receiver's handler as the places from "check" to
"push"; `resume` is where the handler returns to, the sleep loop or the end of
`ReceiveSignal`. Counters are loaded and stored in two steps under their lock.
A signal is delivered to a receiver that has it unblocked and is not in the
handler, which masks it. The SIGTERM handler runs on the logger's thread: while
`terminate = "running"` the logger takes no step (`NotInterrupted`).
`LoggerTest` and `LoggerWait` are two steps, since that handler takes no lock.
A receiver's test and wait are one, since only holders of `LOGGER_LOCK` and the
SIGTERM handler signal, and a spurious wakeup is possible anyway. A logger that
leaves its loop by `break` keeps `LOGGER_LOCK`. The two counters are read in one
step of `CheckLimit`; reading them in two would give the receivers more ways to
step over the limit, and they have one already.

**`ReceiverSetup`** follows the masks. The local `sig` is a variable of the
model because its address is passed: a receiver reads what it holds when it
runs. The `sigset_t` of both unblocking calls is not initialised: with
`clean_masks` the sets happen to be empty, without it any subset of the two
signals may be unblocked in addition or instead. Builds of this code showed
both, depending on optimisation. `handled` is the last handler that ran.
`pthread_create` may fail, which ends the process (`CreateReceiverFails`).

**`ProcessTree`** has one place and one copy of `PROGRAM_RUNNING` per process.
The handler process was forked before the generators existed, so its
`signal_generators[0]` and `[1]` are 0: its `kill(0, SIGTERM)` goes to the group
(`KillGroup`) and its `waitpid(0)` has no child to wait for. A generator whose
fork failed has pid -1: `kill(-1)` and `waitpid(-1)`. `LoggerEnds` stands for the
whole of `Logger`, whose end is the subject of `SignalLogger`. The handler process
may be over sooner: because `pthread_create` fails (`StartLoggerFails`), or by
SIGUSR1 or SIGUSR2 in the windows of `ReceiverSetup` (`SigusrEndsHandler`).

**`EventSim`** handles one event per step. Ties in the heap are a choice, the
draws are choices from their ranges. `last` is the time of the event handled
last.

**`EventSimStats`** adds the counters of `main` to the steps of `EventSim`, from
`leftover`, whatever they hold at first. A queue of samples is kept as its sum
and length. `longest` is history. `AddServiceTime` takes the draw from the finish
event that the step has scheduled. Every counter starts from the same leftover,
and the unsigned ones do not wrap: that would need a leftover near the top.

**`Shell`** has one record per process: its place, the commands still to be run
(`rest`), the `pid` of `RunCommand`, descriptors 0 and 1 and their saved copies.
A command is what it does, how its redirections go, and whether it has an `&`;
the text is left out. `ForkBackground` copies the whole record to the child.
`StartProgram` does so as well: `execvp` keeps the descriptors, which is what
`ProgramRedirected` is about. `Redirect` and `Restore` are one step each, since
no other process can change a process's descriptors. `AsTyped` and `InBatch`
say which commands of a line end in `&` in the two modes. `Shell` has no fairness:
a pause whose newline never comes, or a program that never ends, keeps a shell for
ever, and nothing is claimed of what must happen.

**`ShellLine`** has the text that `Shell` leaves out: a line as characters, split
at `&` in the way of each mode, stripped of blanks, split into tokens, its
redirections taken out. What it returns are the commands of `Shell`, or why
there is none. The limit of 80 characters is left out.

**`WorkingDirectory`** has `cd` and `dir` in a tree of directories, some of which
another process removes. What a path leads to is the kernel's business
(`Resolve`, external); which path is asked for, and what becomes of `PWD`, is the
code's.

**`PriorityHeap`** is the binary heap of the standard library (external) with the
code's comparator. **`ServerStart`** has arguments as pairs of key and value;
numbers are given by a table (`Stoi`), so that one too long for `int` has a place
in it. `ExitCodes` is a set, because the logger's thread and `main` race to
`exit`. **`RunLength`**, **`TextTools`**, **`FileArguments`** and **`GetLine`**
are the file tools. `WCat` and `WGrep` are the loops of two programs, each with
its usage and its message on the output. `WZip`'s message goes to its output too,
behind the entries of the files before; its 5-byte groups are entries to `wunzip`.
**`SignalAverages`** is `GetVectorAverage`. **`ConfigFile`** keeps the stream
between two searches, its position and its fail state: `ReadLine` is a turn of the
`getline` loop, a search that finds nothing runs into the end and fails the stream,
`Cleared` and `SeekStart` are `clear()` and `seekg(0)`, of which the second does
nothing without the first, and a value that is no number makes `std::stoi` end the
program. **`Algorithms`** lets an input of one kind grow step by step and states
what must hold of each.

`MC*` modules give the instances their names; the `.cfg` files give the sizes.

## Runs

Passing runs, with the states TLC finds:

| Run | Distinct states | Instance |
|---|---|---|
| `dispatch_safety` | 29,394 | 3 workers, 4 descriptors, queue of 2, 2 priorities, spurious wakeups; symmetric |
| `dispatch_service` | 416,904 | 2 workers, 4 descriptors, queue of 3, 2 priorities, no spurious wakeups, fair |
| `server_session` | 312,059 | 1 worker, 2 clients of up to 3 bytes (a letter, `\n` or NUL), a buffer of 3, line breaks on, nodes of 2 entries, a map of 5, fair |
| `signals_accounted` | 570,404 | standard mode with a limit of 3, 3 receivers (2 of one signal), batches of 2, each signal sent twice, SIGTERM at any moment, spurious wakeups, fair |
| `setup_masks` | 5,931,332 | the four receivers, every content of the uninitialised sets, threads that may not be created |
| `processes_end` | 1,116 | the four processes, both modes, forks and threads that may fail, a handler process that a SIGUSR1 or SIGUSR2 ends, fair |
| `sim_structure` | 847,762 | times 0 to 5, services of 1 or 2, counters that start at 0 or 2, fair |
| `shell_lines` | 279,806 | 4 processes, 2 typed lines or a batch file, 1 or 2 commands each |
| `algorithms` | 424,102 | every input of each kind up to its length in `MCLongest` |

- **`dispatch_safety`**: `TakeIsDefined` (no `top` or `pop` of an empty heap, and
  `pop` removes what `top` returned); `ClientPlacedOnce` (an accepted client is in
  one place and in no other, from `accept` to its end); `NoWorkerSleepsThroughClient`
  (one signal per client is enough).
- **`dispatch_service`**: `MainSleepsOnlyWhenFull` and `ImplementsService` (the
  threads refine `ClientService`, the bound of the queue included: the `if` is
  enough when no wakeup is spurious); `QueuedClientIsServed`.
- **`server_session`**: `ImplementsAnswerLog`: with one worker and the logger,
  each side writes its own pointer, and every answer is logged once, whole and in
  order, until a move of the map meets the logger leaving a node; from then on
  nothing is promised. So even one worker needs the mutex. `MapMovesLate`: that
  takes as many answers as the first map has room for behind its middle, 30 with
  the sizes of the library, so that a short test does not show it.
  `WordIsTheMessage`: the word looked
  up is the last message and nothing of an earlier one, except in the cases it
  names (see below). `OnlyLeavingEarlyKills`: a client that waits for its answers
  cannot end the server by SIGPIPE. `WorkerIsFreed`: when a client has gone, its
  worker reads what it sent and comes back for the next. `SignalDrains`: a signal
  that finds the logger waiting empties the queue, entries whose signal was missed
  included; of the entry whose signal comes between the test and the wait nothing
  is claimed before a later one.
- **`signals_accounted`**: `EverySignalAccounted` (counted = in hand + queued +
  reported, per signal); `BatchesAreFull` (a batch drained has exactly its size);
  `NeverAllAsleep`; `TerminateEndsLogger` (a SIGTERM that does not fall between
  the logger's test and its wait ends the logger). All of them hold in standard
  mode too, when the receivers stop the program or step over its limit.
- **`setup_masks`**: when the sets happen to be empty, `EndedOnlyWhileUnready` (a
  signal ends the process by its default action in two windows only: before `main`
  has blocked it, and while a receiver has unblocked it and its handler is not
  there, which is the sleep of `receiver.cpp` 72, or for ever if the receiver has
  read garbage for its signal) and `HandlersOnReceivers` (a handler runs on a
  receiver given that signal, never on the main thread).
- **`processes_end`**: `ClosedPeacefully` (children before main, nobody by default
  action of SIGTERM, although children inherit their handlers at different moments)
  and `ProgramEnds`: when the 30 seconds are up all four end, up to a handler
  process whose logger misses its SIGTERM, for which `main` waits; and once the
  handler process has come to its kills, which in standard mode is the only way to
  the end, they end as well, whichever forks have failed: its `kill(0)` turns out
  to be what stops `main`.
- **`sim_structure`**: `EventsAhead` (the clock never passes a pending event),
  `OnlyCpuRunsLate` (an event handled after a later one is a CPU finish, no
  other), `ComponentsConsistent` (busy with one job, or free and nobody waits),
  `JobsConserved` (a job is in one place until a `JOB_QUIT` takes it away),
  `SimulationEnds`. Of the statistics:
  `MaximumLagsByOne` (the maximum printed misses a size just reached, by one),
  `ThroughputsAddUp` (what the CPU has finished is at a device, counted there, or
  has left), `BusyTimeMatchesJobs` (a device's busy time is that of the jobs it has
  finished or serves; the CPU's is not more, and that it may be less, against the
  project's README 109, is not claimed).
- **`shell_lines`**: `CommandIsOver` (in every shell and on every path, descriptors
  are back and the foreground program has ended before the next command);
  `ProgramRedirected` (a program has the files of its own command).
- **`algorithms`**: `HeapIsDispatchQueue` (the binary heap does what
  `ServerDispatch` assumes of the queue, and equals leave in order as long as
  three wait); `UnzipReadsBack` (when `wzip` ends with 0, files come back as each
  does alone, whatever the variables held, and whole when the runs are short);
  `PipedOrNamedAlike` (of files whose last lines end: `wcat` writes the exact
  contents, `wgrep` finds the same lines in files and in the output of `wcat`, and
  both end with 1 and their message if and only if a file does not open);
  `AverageOfBatch` (between the distances from the first reception, whenever the
  batch came); `ConfigInAnyOrder` (each call finds the first line with its name,
  also after calls that found none, and the program ends at the first that finds
  no number); `StartedAsGiven` (the options in any order, the last value of each); `TypedAndBatchAgree` (which lines mean the same in the two modes:
  one blank before every `&`, every word between two blanks, a word and no `&`
  at the end); `OnlyEmptyCommandsAbort` (which typed lines end the shell);
  `RedirectionsAsWritten` (a redirection takes the word behind its symbol
  wherever it stands, and all other words stay in order);
  `CdAndDirFollowThePath` (and what `PWD` then says).

Each module has a type invariant, `TypeOK` or `SessionTypeOK`, which the proofs
below establish; no run spends its time on them. The inductive invariants of the
proofs were first checked by TLC on these instances.

Violation runs, one per finding below: `logger_lost_entry`,
`signals_lost_sigterm`, `shell_twice`.

### Bounds, and why they are enough

- *Workers and descriptors.* The dispatch needs a worker that is woken, one that
  takes its client, and one that sleeps: three. Four descriptors fill the queue,
  leave `main` waiting and still have a client with a worker. In
  `dispatch_service` the queue holds three, so that a pop leaves two of different
  priority. The proofs remove these bounds.
- *Answers and slots.* Each worker's emplace is four steps; two overlap within one
  answer each, which is all `logger_lost_entry` needs. In `server_session` the
  six bytes make up to six answers, so the logger falls behind, catches up and
  misses signals. A buffer of three bytes holds a word with its newline, a word
  that fills it, and two messages read as one. Two clients show what the first
  leaves to the second. `Slots` is as many as the answers, so the bound is never
  what stops the logger. Nodes of two entries and a map of five places make six
  answers fill the map behind its middle, so that it is moved while the logger is
  at the end of a node or elsewhere; the code's sizes, 6 and 8, are in
  `logger_lost_entry`.
- *Signals.* A batch of 2 instead of 16 with up to four signals and three
  receivers fills the queue, has receivers wait for room and drains it twice. Two
  receivers share a counter and one has its own: the cases the counter locks
  distinguish. `CountLimit` is 3: four signals can reach it, stay below it or,
  with two receivers past the test, step over it, and the program then goes on
  as in time mode.
- *Processes and receivers.* The numbers are the code's own.
- *Simulator.* Five units of time hold several jobs, waiting jobs at the CPU
  and at the devices, ties between components, and free and busy components of
  each kind. Which branch a draw takes is open; the probabilities only say which
  branches exist. Leftovers of 0 and 2 are below and above the sizes the queues
  reach.
- *Shell.* Four processes: a shell, a background child, its program, and one more
  for the second shell or for the first. A fork with no process left fails, as it
  may anyway. A first command redirects in each way that can go on or fail; the
  second shows what is left over; the second line is what a second shell reads.
- *Inputs of `Algorithms`.* Nine operations on a heap give it three levels, with
  a hole that has two children and one, and equals on every level. Six letters,
  with a byte of four values in place of 256, have runs below, at and above the
  half and the whole of it, in up to six files. Six parts of a line, each of up
  to three characters, hold two commands and a redirection with words around it,
  or three redirections, and blanks anywhere between them; its
  names are one letter, because no definition looks inside a name. Four commands
  of a session leave a directory, remove it and come back.

`CHECK_DEADLOCK FALSE` is given where the program really stops: the signaling
program's threads and processes end, the simulation reaches `FIN_TIME`, the
shell quits or waits for a line.

### Fairness, and why the code justifies it

- `ServerDispatch`: threads that can run do (weak fairness of `MainRuns` and of
  each `WorkerStep`). Clients hang up in the end: a worker serves one client for
  as long as it stays, so without this no waiting client could ever be served.
  No new client need come. Weak fairness is enough for the mutex because
  finitely many descriptors let `main` and the workers contend only so often.
- `ServerSession`: the logger and a worker that can go on do. A `write` does not
  block: answers are a few bytes. A client need not send anything nor leave.
- `SignalLogger`: receivers, logger and the end of the SIGTERM handler; nobody
  need send anything. Strong fairness of `LoggerLock` says that a mutex that is
  released again and again is not kept from the logger for ever. Only an endless
  run of spurious wakeups could do that.
- `ProcessTree`: processes run, a pending SIGTERM arrives and the 30 seconds pass.
  Nothing is assumed of the limit, which may never be reached or be stepped over
  (see below), nor of the logger, which may never end: `ProgramEnds` says what
  follows when they do not.
- `EventSim` and `EventSimStats`: the loop goes on. `SimulationEnds` needs gaps between arrivals of
  at least 1, which the instance has.

## Proofs

TLAPS checks eight modules: one beside each state machine, except that
`ServerLogger` has its part in `ServerSessionProofs` and `EventSimStats` in
`EventSimProofs`; and one beside `Algorithms`. All constants are arbitrary up to the
named assumptions of the modules, which TLC evaluates in the runs:

- `ServerDispatch`: finite sets of workers and descriptors, a queue size above 0;
  `Main`, `Nobody`, workers and sockets are distinct.
- `ServerLogger` and `ServerSession`: finitely many workers, at least one; bounds
  are naturals, a node has at least one slot and the map at least three places, the
  buffer has at least one byte, NUL is not a removable letter, and the garbage a
  buffer starts with is told apart from letters.
- `SignalLogger`: receivers are finitely many and at least one, each has one of
  the two signals; a batch has at least one entry.
- `ReceiverSetup`, `ProcessTree`: the names of threads, processes and signals are
  distinct. Their number is the code's.
- `EventSim`: `INIT_TIME < FIN_TIME`, the ranges of the draws are naturals in
  order; `EventSimStats`: the counters hold naturals at first.
- `Shell`: any set of processes, and any set of lines.
- `Algorithms` and its parts: priorities are naturals, times integers, lines are
  put together from sequences of strings (one string is one character), the
  steps of a session are calls of `cd` and removals; the names in `ConfigVars`
  are strings, and what stands for a value that is no number is not -1; `Names` has
  no `.` or `..`, and with a directory its parent is
  there; a byte has an even number of values and NUL is skipped; `Stoi` gives
  naturals and an `int` holds every port. Inputs have any length.

A module's inductive invariant is a conjunction of named parts, shown by a lemma
per action or per part; the theorems about its properties follow from it.

**`ServerDispatchProofs`**

- `Invariance`: the inductive invariant `IInv` is `TypeOK`, `HandsInv`,
  `MutexInv`, `FrontInv`, `TakeIsDefined` and `ClientPlacedOnce`. Neither of the
  last two is inductive alone. `TakeIsDefined` needs `MutexInv` (nobody changes
  the heap between `top` and `pop`) and `FrontInv` (a heap that is not empty has
  an entry in front); `ClientPlacedOnce` needs `TakeIsDefined` (what is popped is
  what is in the worker's hand) and `HandsInv`. There is one lemma per conjunct,
  with a case per action.
- `TypeCorrect`, `MutualExclusion`, `TakesAreDefined`, `ClientsPlacedOnce` follow.
- `QueueBounded` (assuming `~SpuriousWakeups`) and `MainSleepsWhenFull`: `RoomInv`
  strengthens the bound by "between its wakeup and `emplace`, `main` has room".
  Only a worker that has just popped wakes `main`, and only `main` adds. With
  spurious wakeups the bound is false (see below), hence the assumption. The
  cardinality steps are lemmas of their own (`PopShrinks`, `EmplaceGrows`).
- `NoSleepingWorker`: each `AddClient` puts a sleeping worker on its way if there
  is one; a worker leaves the way only with a client or when the queue is empty.
- `Refinement`: `Spec` implements `ClientService` under the mapping in
  `ServerDispatch`, when no wakeup is spurious. `Pop` maps to `Begin`: `FrontInv`
  gives the rank, and a worker that pops serves nobody else (`FreeServer`).

**`EventSimProofs`**

- `TypeCorrect`, `EventsNeverPast` and `TimeNeverBack`, from
  `TypeOK /\ EventsAhead`. The pulled event is the earliest, so setting the clock
  to its time passes nobody; all new events are due at that time or later, or, in
  `CpuArrival`, at `sim_time` plus a service, which is not before `sim_time`.
- `ComponentsServe`, `OrderedButForTheCpu`, `JobsAreConserved`, from `JobsInv`. A
  step does one of six things to the jobs whatever it draws (`Announces`, `Quits`,
  `Waits`, `Served`, `Frees`, `Follows`); `Shapes` shows that, and everything else
  is shown of the six. `NumbersInv` says that no number is in two events, or in an
  event and a queue, or twice in the queues; it is what makes the first job of a
  queue a job without an event. `ServersInv` ties `occupied` to the one finish
  event: without it a free component might be freed again. `OrderInv` is what
  `OnlyCpuRunsLate` says of the pending events.

Of the statistics, in the same module: `StatisticsOnlyObserve` (`StatSpec => Spec`) brings
`JobsInv` to the runs with counters; `StatInvariance` adds what they count.

- `MaximaAreRight`: the maximum may lag only while the queue has its greatest
  size, for a component's own event brings it up to date (`MaxInv`).
- `BusyTimesAreRight`: a step adds to the busy time of a component the time of
  one job exactly when it adds one to the jobs it has served or serves, or, at
  a free CPU, leaves it out. That `AddServiceTime` adds the draw rests on
  `JobsInv`: the finish that was not pending before the step is the one the step
  has scheduled (`OneStarted`).
- `ThroughputsAreRight`: `Flow(d)` is what device `d` has counted and what is
  there; a step moves one job at most, to a device, out or to the CPU (`Moves`),
  and only a `JOB_QUIT` makes one leave (`GoneStays`, `QuitterIsGone`). The
  events a step pushes are new because of `NumbersInv`, so they count once.

**`SignalLoggerProofs`**: the invariant is `TypeOK`, `CountLockInv`,
`LoggerLockInv`, `EverySignalAccounted`, `BatchesAreFull`, `RoomInv` and
`AwakeInv`. `NoSignalLost` needs `CountLockInv`: between its load and its store
the count a receiver has read is still the count. `WholeBatches` needs
`LoggerLockInv` and `RoomInv`: a receiver that has tested for room keeps the lock
until it pushes. `SomeoneIsAwake`: when the last receiver goes to sleep the batch
is full, and it has signalled the logger before. SIGTERM at any moment, spurious
wakeups and receivers that pass the limit are among the steps.

**`ServerSessionProofs`**

- `NoRemnants`, from `BufferInv`: once a worker has answered, its buffer is zero
  between messages and holds one message over zeros in between, unless a message
  was skipped. So the word is the message, cut at a NUL, less its line break.
- `PatientClientsKeepServer`, from `ClosedInv`: a client that has closed with
  nothing unanswered has no more message in its stream, so at most one more write,
  the line break, goes to it, and that write does not raise SIGPIPE.
- `SessionSchedulesLogger`: the session is a `ServerLogger`, so it needs only
  that one's refinement. `OneWorkerUntilTheyMeet`: with one worker, and slots enough
  for its messages, the session implements `AnswerLog`. Until the two meet the
  worker is the only one to move `finish` and the logger the only one to move
  `start`; the entry being constructed lies at `finish`, where the logger does not
  read. With two workers it is false, see `logger_lost_entry`.
- `RaceTakesManyAnswers`: while no more answers are given than the first map takes
  behind its middle, `map_end` follows from `finish` (`FirstMapInv`) and has a place behind it,
  so `LoadFinish` does not go to `MoveMap`.

**`ReceiverSetupProofs`**: `EndsInTheWindows` and `ReceiversHandleTheirs`, both for
sets that happen to be empty. `MaskInv` has each thread's mask at each of its
places, `HandledInv` remembers that who ran the handler had unblocked the signal,
and `HandlerInv` that no handler is installed before a receiver is in its loop. A
thread that takes a signal without a handler is therefore `main` before it blocks,
or a receiver in a window: one in its loop with a signal of its own has installed
the handler, and installed it stays.

**`ProcessTreeProofs`**: `AllClosedPeacefully`. `CatchInv` is the reason why
nobody is killed: `main` has its handler before the first fork, and children
inherit it. `WaitInv` has what each `waitpid` has made certain; `ForkInv` is
needed because `waitpid` of a fork that failed waits for nobody.

**`ShellProofs`**: `CommandsEnd` and `ProgramsRedirected`. `FilesInv` says of each
process which descriptors it has at its place, given its command and what it has
saved, so that a child gets it with its copy of the record; `WaitsInv` says that
a process has waited for the foreground program it started. The second shell of
`shell_twice` is covered: what it inherits it restores.

**`AlgorithmsProofs`**: one theorem for each invariant of `algorithms`. The
operators its lemmas speak of are in a module before it, `AlgorithmsTerms`. The input
of such a run only grows, so the invariant of the state machine is `InputType`
(what an input is made of), and each property is shown of every input of that
type, by induction over its length.

- *Induction.* The library's induction theorems have an operator as parameter, so
  they cannot be used here; its theorem about the minimal elements of a
  well-founded relation has none. `SmallestElement` gets from it the least element
  of a set of naturals, and `SetInductionUpTo` the induction: the statement is
  given as the set of numbers it holds for.
- *Loops.* A loop of the code is a `FoldLeft` whose body the proofs must unfold.
  `Turn` names the loops, `After(path, base, s, n)` is the state after `n` turns:
  `AfterNone` and `AfterNext` say where it starts and how it goes on, and one lemma
  per loop (`GetValueLoop`, `SplitSteps`, `RedirectLoop`, ...) ties it to the
  model's operator. For a loop whose turns append, `AddsFlatten` and `AddsEach`
  say that the whole is the parts one behind the other. The two recursive
  functions of the heap are defined on their way by a rank (`WayExists`).
- `FirstLineWins`: `SearchIs` says where the `getline` loop is left and with what.
  Found or not, with the stream failed or not, a call that returns leaves it at its
  beginning and cleared, so the next one sees all lines; one that throws is the
  last, and the values before it are those of the first lines (`CallsAre`).
- `CdAndDirGoTogether`: `SessionInv` says that the shell is in a directory of the
  tree, or in one that was removed, and what `PWD` is. `ResolveFromRoot`
  has the reason: the path `cd` puts together leads from the root where the
  given one leads from the shell's directory.
- `HeapServesDispatch`: `SiftUpIs` and `PopIsSift` say which entries a sift moves,
  `SiftUpKeepsHeap` and `SunkenHeap` that the result is a heap again; hence its
  front is maximal (`FirstIsMaximal`). Who is there is counted with the hole left
  out (`SiftUpHolds`, `SunkenHolds`). `PopEquals` has the three equals.
- `AveragesAreBounded`: the sum of the distances lies between their number times
  the smallest and the greatest. The rest is division that rounds towards zero, for
  negative sums as well (`QuotientIs`).
- `StartsAsAsked`: `ParsedIs` (the map holds the last value of each key), so an
  exchange of neighbours with different keys leaves the map (`ParsedInAnyOrder`).
- `PipedIsNamed`: `SplitIsText` (the lines read so far and the text read so far)
  gives `LinesWrittenAreWhole`. Texts of whole lines put together are one whose
  lines are theirs (`WholeBoth`), so `CatWrites` has `wcat`'s loop over the files
  and `GrepWrites` `wgrep`'s, each up to a file that does not open.
- `ZippedIsReadBack`: in the middle of a file, what is written reads back as the
  file up to the run at hand, which the two variables hold (`TakeFirst`,
  `TakeNext`); at its end that run is written too and the counter is 0, so the
  next file starts afresh whatever the letter is (`ZipFileIs`). A code of 0 means
  that all files were opened, so that no message stands behind the entries.
- `EmptyCommandsAbort`: `OutcomeOfPiece` for one command, `OutcomesAre` for the
  loop that an unusable command ends.
- `RedirectionsStandAnywhere`: `Handled` says what the tokens are when some of the
  symbols have been dealt with: the words but those symbols' and the ones behind
  them. `HandledNext` is one symbol more; it rests on `TakePair` and `OnlyPair`,
  which say that the pair taken out of the tokens is the same pair of words as
  in the command, whatever has been taken out before.
- `TypedAndBatchGoTogether`: with one blank before every `&` each piece but the
  last ends in one blank (`SpacedSplit`). In a batch file its `&` is put behind
  that blank, not behind the word (`CleanClosed`), so that its tokens have an
  empty one at the end. That one passes all redirections (`TrailingNext`) and is
  dropped at the end as the last argument.

The proof of `TypedAndBatchAgree` failed at first, for a good reason: the
condition on lines was too weak. It said nothing of the words of a piece. In
`x > < y & z`, `<` takes `y`; typed, `>` then has nothing behind it and the command
is malformed, while in a batch file it takes the empty word that ` &` leaves. In
`x  > y & z` the batch file keeps an empty argument. TLC had not seen either,
because they took more parts than a line of the instance had. The condition now
asks for tidy words, and a part of a line may begin with a blank, so that six
parts are enough for both.

Only model-checked: liveness, everywhere, for the provers have no means for
fairness. Every safety invariant, action property and refinement of the passing
runs is stated by a theorem. `NoAnswerLost`, `LoggerIsReleased` and
`BackgroundChildExits` are false.

## What the models found

With a run each (`findings` in `PROJECT.json` quotes the text that is contradicted):

1. `logger_lost_entry`: `logger_queue->emplace` runs without `logger_mutex`
   (`server.cpp` 117). Two workers write to the same slot and one entry is lost.
2. `signals_lost_sigterm`: SIGTERM between the logger's test and its wait
   (`initialize.cpp` 44-51, `logger.cpp` 41-42). Its signals wake nobody, and with
   the receivers gone nobody signals again.
3. `shell_twice`: `RunCommand` uses one `pid` for the background child and for
   the program that child forks (P2 `main.cpp` 34, 63, 97). The child does not
   exit: it runs the rest of the line a second time and then reads commands.

Seen while modelling, without a run of their own:

- A spurious wakeup of `main` lets the queue grow past `MAX_WORKER_QUEUE_SIZE`
  (`server.cpp` 366, `if` for `while`).
- The worker does not close a client's descriptor (`server.cpp` 124): a server
  that has had as many clients as it has descriptors accepts no more.
- SIGPIPE: a client that leaves before its answers are written can end the server
  with every other client's session (`server.cpp` 106; writeup 37 says the
  service goes on "until the server is closed"). `OnlyLeavingEarlyKills` bounds
  it: only such a client can.
- `buff` is zeroed after an answer only (`server.cpp` 120-121). The first message
  of a worker may run into what the stack held, one that fills the buffer may run
  past its end, and the bytes behind a message that began with a NUL stay: the
  exceptions of `WordIsTheMessage`. Of `\r\n` only the `\n` is stripped.
- `-max_msg_length` alone, as readme 48-52 has it, ends the server with an uncaught
  exception: it is read as `-msg_length` (`server.cpp` 269-270). `StartedAsGiven`
  claims nothing of this option.
- One worker is enough for a race on the log queue: when its entry is the last of a
  node and the map of the deque has no place for another one, `emplace`
  (`server.cpp` 117) moves the map and writes the pointers that `pop` (183) reads
  and writes. The first time is about the 30th answer.
- When both the log file and the socket fail, either exit code may be returned
  (`server.cpp` 167, 346).
- Mode 0, "a standard FIFO queue" in the readme, lets a fourth waiting client
  overtake: a binary heap does not keep the order of equals.
- With two workers the log may also hold an entry nobody made, and a signal sent
  between the logger's test and wait leaves an entry queued until the next.
- After a drain one receiver is woken of several that wait (`logger.cpp` 84); the
  others go on only when later drains reach them.
- A full batch is logged when a seventeenth signal comes, or on SIGTERM
  (`receiver.cpp` 51-62).
- Signals merged while pending are not in the count that the report calls
  generated (`receiver.cpp` 47, `logger.cpp` 96).
- The loop gives three of four receivers SIGUSR1, and the address of its local:
  any split may result, SIGUSR1 on all four included (`initialize.cpp` 70-74).
- The handler process waits for no generator (`initialize.cpp` 84-85).
- After a failed fork of a generator, `main` sends SIGTERM to pid -1, every
  process it may signal (`main.cpp` 43, `generator.cpp` 58).
- The limit is tested by `==` without the locks (`receiver.cpp` 32). Two
  receivers that both pass the test step over it and the program goes on.
- The sets used to unblock are not initialised (`initialize.cpp` 61,
  `receiver.cpp` 23-27). The handler of SIGUSR1 or SIGUSR2 may run on the
  logger's thread.
- A receiver unblocks its signal up to 300 ms before it installs the handler
  (`receiver.cpp` 70-75): a signal in between ends the handler process by its
  default action. In standard mode nobody then ends the program, for the
  generators have no limit of their own.
- The average in the signal log is that of the distances from the first reception
  of the batch (`logger.cpp` 19-24); notes 24 ask for the "Average time between
  reception". `AverageOfBatch` claims what holds of both.
- In a batch file the blank before an `&` says that it was there: `a&b` loses its
  `&`, and a line that ends in a blank runs in the background
  (`vector_manipulation.cpp` 28). Two adjacent `&` there, an exception, end the
  shell before its first command.
- `a >> f > g` writes to `g` only: `>` is looked for first, and a second output is
  dropped but its words are taken out (P2 `main.cpp` 189-192, 215-218). Two blanks
  in a row make an empty argument, or an empty file name.
- After `cd ..` the text of `PWD` is `..` (`cd.cpp` 38, 54; readme 33 says it
  reflects the new directory). More than one argument is an error (`cd.cpp` 16;
  readme 31 says the first one is taken). In a directory that has been removed
  `cd` fails for every path, `..` and absolute ones included.
- `help` opens `readme_doc`, which is not there (`help.cpp` 12); the file is
  `readme`.
- `pause` does not notice the end of its input (`pause.cpp` 7).
- A typed line with one command and an `&` runs it in the foreground, although
  readme 150-159 has `CMD [...] &` for the background: only the commands before
  the last get their `&` back (P2 `main.cpp` 304-311). `RedirectionsAsWritten`
  leaves open where such a command runs. When a
  blank follows that `&`, the last command is empty and `at(0)` ends the shell.
- Nobody waits for a background child, which stays a zombie; at the end of its
  input `GetInput` asks for ever (P2 `main.cpp` 36-41, 265-287).
- An event at `FIN_TIME` or later is still handled, if it is the first
  (`main.cpp` 91).
- `sim_time` is not set at a CPU arrival nor when a component becomes free
  (`main.cpp` 128, 175, 304), although README 17 lets time advance "as the
  processes cycle through the devices". A CPU service may be scheduled from an
  older time than its arrival's and end before events already handled, and a
  device may start a service before its last one was due to end, so that its busy
  time exceeds the time that has passed.
- The service of a job that finds the CPU free is not in the CPU's busy time
  (`main.cpp` 124), so that a CPU nobody had to wait for is reported as idle,
  while README 109 defines the utilization by the time the server is busy; the
  maximum of a queue is taken before the job is added (117, 253), and a job taken
  off a device's queue is logged as the one that has just finished (295).
- `wzip` and `wunzip` end with code 0 when no file is named (`wzip.cpp` 16,
  `wunzip.cpp` 11; README 128 wants 1). `wzip` writes its usage and its message to
  the stream of the coded entries (15, 29).
- `wunzip` prints nothing for a run of 128 to 255 letters, and a multiple of 256
  less for longer ones (`wunzip.cpp` 30), although it "does the reverse"
  (README 130): `UnzipReadsBack` claims whole files of short runs only.
- `wcat` and `wgrep` add a newline to a last line that has none (README 71: "Just
  print the exact contents"), so `PipedOrNamedAlike` is about files whose last
  lines end.

## Not modelled

- Server: `SpellCheck` itself, times in the log, `printers.cpp` (unused). A
  message is looked up in a dictionary that no longer changes.
- Signals: times of entries, random numbers; the race on the one `mt19937`;
  a log file that cannot be opened.
- Simulator: the format of the log and of the statistics, the division of the
  counters by the running time; the wrap of an unsigned counter.
- Shell: `execvp`'s search in `PATH`, the output of `clr`, `echo`, `environ` and
  `help`, and `path`, which sets a variable that only programs read; characters
  waiting in the buffer of `stdin` when it is redirected.
- File tools: the bytes of letters, and lines as anything but sequences of
  letters.
