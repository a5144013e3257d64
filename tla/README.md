# A verification of the ts-2016b-mth homework programs

The repository is a collection of small systems programs, one per directory
(`src/p1` ... `src/p11`). This directory holds TLA+ models of their logic, TLC
configurations that check them on small instances, and TLAPS proofs of what
matters most for every instance.

    tlc -config KvStore_safety.cfg MCKvStore     # any run of PROJECT.json
    tlapm KvStoreProofs.tla                      # any module with proofs

## 1. Inventory

| Part | State | Operations | What is hard |
|---|---|---|---|
| **p6** POSIX key-value server, storage | `elements_count` and `kv_elements` in a shared memory segment, one named semaphore | `run_command` (set, get, delete) in the workers, `clean_old_entries` in the master | several processes, loops of many steps under the semaphore, entries that expire while indices are in use |
| **p6** server, processes | master: `workers_list` with a `free` flag each, `needs_exit`; worker: `client_socket`, `needs_exit`; socket pairs, listen queue, pending signals | `client_accept`, passing of descriptors, `notify_free`, signal descriptors, `wait_for_workers` | edge-triggered epoll with one blocking read per event; half of "this worker is free" is known to either side; shutdown |
| **p1** defragmenting allocator | `memory_table`, a list of areas that tile the arena; `Pointer`s that are iterators into it | `alloc`, `realloc`, `free`, `defrag` | areas move while pointers refer to them; loops that change the list under their own iterator; copies over themselves |
| **p9** OpenMP merge sort | two buffers, the size of the parts | `merge`, rounds of merges in parallel | cut and missing parts, races, what is left of a part |
| **p3** TCP proxy | sessions (two sockets, two buffers, three flags), a list of sessions per listener | asio completion handlers for accept, connect, receive, send; `terminate` | callbacks of the two directions of a session against its termination |
| **p5** System V key-value server, storage | table in a shared segment, a System V semaphore with undo | `run_command` in one process per client, `init_storage_main`, `destroy_storage_main` | a process killed at any write; a second server on the same keys |
| **p5** server, processes | master: `children_pids`, `needs_exit`; a worker per connection | `client_accept` with fork, `waitpid`, signal descriptors | a signal overwritten by a client's event, failed forks in the list, zombies |
| **p7** words server | `_words_dict`, `_last_words_check_time`, a thread per request | prefix queries, `update_dict_if_necessary`, the event loop | an answer to a descriptor that may be closed and reused; a change within one second; a look past the end of the list |
| **p4** shell lexer | the line, positions in it, `result_tokens` | lexer, words, redirections, removal of empty commands, syntax check | quotation marks, runs of signs, redirections at the edge of a command |
| **p11** CUDA sine, **p10** MPI exponent | arrays or terms split among threads or ranks | index computations, reduction | every index exactly once |

The parts are separate programs; they interact only within a directory. In p6
the two halves meet in one place: the master's loop calls `clean_old_entries`
once per turn and a worker's loop calls `run_command` once per command.
`WorkerPool` therefore has a command as one step, and `KvStore` shows that this
is allowed (`Linearizable`): between them nothing else is shared.

Correctness of each part, in short: p6 storage - mutual exclusion, unique keys,
atomic commands, entries leave only when they may; p6 processes - one client per
worker, no lost wakeup, no hanging read, all end on Ctrl-C; p1 - the areas tile
the arena, pointers and areas match, bytes are kept; p9 - no race, no index out of
bounds, sorted output; p3 - bytes are forwarded in order, a session ends once and
leaves nothing behind, one session does not harm the others; p5 - like p6, and a
crash frees the lock and loses no other key; p7 - a client gets its own answer,
from one dictionary, which is the file's; p4 - the parser accepts its grammar and
makes its tokens; p10, p11 - exact cover.

## 2. Plan

In this order, most important first; all of it is done.

1. `KvMap` (abstract), `KvStore`, `KvStoreProofs` - the storage of p6.
2. `SlotPool` (abstract), `WorkerPool`, `WorkerPoolProofs` - the processes of p6.
3. `Heap` (abstract), `Allocator`, `AllocatorProofs` - p1.
4. `MergeSort` - p9; its theorems are in `AlgorithmProofs`, with those of 8 and 9.
5. `Pipes` (abstract), `Proxy`, `ProxyProofs` - p3.
6. `SysvStore` (implements `KvMap` too), `SysvServer` - p5, and their proofs.
7. `WordsQuery` (functions and their reference), `WordsServer` - p7, and its proofs.
8. `ShellTokens` with a reference grammar - p4.
9. `IndexCover` - the index arithmetic of p10 and p11.
10. The refinements as theorems: `Linearizable` of both storages, `Forwards`, `KeepsBytes`;
    and the query of p7, `QueryExact`.
11. That main's sort is right for every number of elements (`MainSorts`), and that the
    lexer's scan is sound for lines of every length (`LineScanned`).
12. That the shell's parser does what the reference grammar says, for lines of every
    length (`LineParsed`).

## 3. Modules and how they follow the code

**KvStore.** The memory is `count` (`*elements_count`) and `slot`
(`kv_elements`); `sem` is the value of the semaphore. Each process has a program
counter `pc` and an index `pos` (`entry_index`, then `i`, or `current_element`).
A step runs from one point where another process could look to the next: taking
the semaphore (`SemWait`), the search (`Search`), the update (`SetOld`,
`SetNew`, `SetFull`, `Get`, `DeleteMiss`), one turn of the loop of delete
(`DeleteShift`, `DeleteDrop`), one turn of the scan of the master
(`CleanBegin`, `CleanScan`), posting (`SemPost`). The fields of an entry are
written in one step: only `MutualExclusion` makes that right, and it is checked
on this model, where every loop turn can be interleaved. `Tick` is
`time(NULL)`. `last` and `moved` are history variables that no guard reads:
they say what the last set of a key asked for, and which entries a delete has
shifted - the code shifts key and value but leaves `ttl` and `created`, so those
entries carry the expiry of their predecessor, and `TtlExact` and `EntriesLeave`
have to except them.

**KvMap** is what a client sees: a bounded map on which each command is one
step. `KvStore` implements it with the point of effect at the update, for delete
at the search that finds the entry (from there on nobody else can see it).

**WorkerPool.** `medge`, `wedge` are the descriptors with an edge not yet
reported; `epoll_wait` reports those that are readable and clears all
(`MasterPoll`, `WorkerPoll`); events of a batch are handled in any order.
`down[w]` are the descriptors in the socket pair towards worker w, `up[w]` the
notifications back. One action per branch of the two loops: the signal
descriptor (`MasterSignal`, `WorkerSignal`), the listening socket
(`AcceptPass`, `AcceptRefuse`, `AcceptFails`, `AcceptPipe`), the socket of a worker
(`MasterNotified`), a passed connection (`WorkerReceive`, `WorkerReceiveFails`),
the client (`WorkerCommand`, `WorkerRelease`), the end of the batch
(`MasterTurn`, `WorkerTurn`), leaving (`WorkerExit`, `MasterReap`,
`MasterExit`). Clients and signals are the environment: `Connect`, `Send`,
`Close`, `Kill`. Since `read_client_data` takes everything that has arrived and
looks at the first command only, a connection is its first unread command
(`unread`) and whether its end has arrived (`fin`).

**SlotPool** is the promise: a worker has at most one client, a connection at
most one worker in its life.

**Allocator.** `table` is `memory_table`; an allocated area carries the pointer
that refers to its node, which stands for the iterator in `PointerImpl`. Each
call is one step with everything it does to list and bytes; `realloc` is one
action per branch (`Shrink`, `GrowInPlace`, `GrowBack`, `GrowElsewhere`; to zero is
`FreeIt`, of a null pointer is `Alloc`). `defrag` takes a step per turn of its
loop, so that its iterator can be reasoned about. `CopiedDown` copies piece by
piece as the code does, with a `Memcpy` that leaves junk where source and
destination overlap. Calls that throw change nothing and are the stuttering step.

**Heap** is the promise: a pointer holds a row of bytes that only calls on that
pointer change, and a reallocation keeps what fits.

**MergeSort.** `task[i]` is the merge of the two parts that begin at i, with the
three indices of `merge`; `Copy` moves one element, so that merges of a round
interleave at will. `Within`/`Intersect` are the check on addresses, with the
buffers anywhere in memory (`base`) as long as they do not overlap.
`AppendEnd2` is the bound of the last loop as the code has it.

**Proxy.** asio's two halves are `waiting`, the operations in the reactor, and
`ready`, the queue of handlers that `io_service.run` goes through in one thread.
What the kernel and the far ends do moves an operation from one to the other
(`Received`, `Sent`, ...); what runs is one action per handler (`HandleAccept`,
`HandleServerConnect`, `HandleReceive`, `HandleSend`), and one for each of the
ways in which the handlers treat errors alike: `HandleEnd` (with
`termination_routine`), `HandleAborted`, `HandleUnexpected`. The handlers of the two
directions are the same code with the sides exchanged, and so are their actions.
`connected` holds the two flags of a session, `opened` what asio knows: an
operation on a socket without a descriptor completes at once with
`bad_descriptor`, and closing aborts what waits. `shutdown` of a connection that
was reset fails, as on Linux. The bytes of a side are numbered, so that `got`
shows their order; `cut` counts those that partial sends have lost. A handler that throws ends the process (`alive`), with the
sessions of all clients; the state stays as it was, to show the handler.
Several listeners would share nothing but that. A listener's list is a set, since
nobody reads its order.

**Pipes** is the promise: two pipes per session, opened and cut together.

**SysvStore.** The p5 storage, with a step per *write*: a new entry is `SetKey`,
`SetValue`, `SetCount`; a turn of the loop that closes a gap is `ShiftKey` and
`ShiftValue`. This is needed because `Kill` takes a worker at any step, and the
kernel then gives back what it holds (`undo` is `semadj`). `MasterKilled`,
`ServerInit`, `ServerFails` and `ServerListens` are the rest of the life of the
segment: `init_storage_main` uses a segment that it finds, sets the count to 0
without the semaphore and *before* the server knows whether it gets the port; when
it does not, `destroy_storage_main` removes segment and semaphore of the server
that runs, whose workers then die of `semop` (`SemFails`). What happens in a table
that was emptied under its users is not followed (`spoilt`, `Blind`): the loop of
delete may run off the segment. `hurt` counts the workers killed within a gap.
Both are history; `spoilt` is a guard only where the model ceases to follow the
contents. The model reports two weaknesses. Each worker killed in a gap leaves one
entry twice, which costs one place until the next start and no key (`RoomLost`,
`NothingLost`), and perhaps a key with its neighbour's value, which no property
follows (`Linearizable` stops at such a death); and a second start by mistake ends the first server's storage.

**KvMap** has one action for this, `Vanish`, outside its `Next`: a worker that dies
takes its request along.

**SysvServer.** As `WorkerPool`, with a fork per connection: `AcceptFork`, and the
ways it fails (`AcceptFails`, `AcceptNoFork` with its -1 in `children_pids`,
`AcceptStillborn`). `Reap` and `SweepEnd` are the `waitpid` loop after each
`epoll_wait`, `ReapUnborn` the entries of -1 at the end. `WorkerCommand` assigns
needs_exit as the code does, over what the signal said; `QuietEnd` therefore
promises an end only in silence. A message is a whole command or is none; a
worker's first event is what its connection held when it was forked.

**WordsQuery** holds what a query computes, `Answer`, as the code walks the sorted
list, and what a client expects, `Expected`, by counting occurrences. `PastTheEnd`
is the look at the element behind the last one, which the second loop takes when
the list ends before the answer is full: undefined, and in the model either
harmless or the end of the process (`ThreadCrashes`). **WordsServer** is the server
around it: the loop (`Poll`, `AcceptClient`, `ReceiveRequest`, `ReceiveEnd`), the wait for
all threads (`JoinThreads`), the look at the file (`StatOld`, `StatNew`, `ReadFile`,
`Noted`), and a thread per request, which answers on a *number*: `Holders` says
whose connection that is by then. The lowest free descriptor is given to the next
connection, as the system does. A client sends lines when it likes (`Ask`), or the
beginning of one (`AskInPart`), whether it has its answers or not; what has come is
counted (`lines`, `part`, `fin`), since `recv` does not keep lines apart. One `recv`
takes what fits into the buffer, `MaxMessage` lines (`Taken`); the server answers the
first and drops the others, and what did not fit waits until the client sends again.
The history variables `asked` and `answers` count, `mixed` has the clients of whom a
`recv` took more or less than one line. A `recv` without an end of line may or may not
close the connection and starts a thread all the same, since the code looks for the
end of line in stack memory it has not filled; `OwnAnswers` excepts its client
(`unended`). `Answered` is what is left of "every request is answered": it holds for a
client until it is `mixed`, so nothing but what shares a `recv` costs an answer - no
batch of events, no descriptor used again, no update. Time is in seconds and the
comparison strict, hence `StaleForAReason`. The file is there when the server starts,
and was read a second before it listens. The read-write lock needs no state: the main
thread has joined all the threads before it takes it (`QueriesBetweenUpdates`).

**ShellTokens.** A word is the set of the places of its characters in the line, so
that equal words at different places stay apart. One action per turn of the
lexer's loop (`Quote`, `QuotedSign`, `Sign`, `BadSign`), one for its end (`RestOfLine`), one per
pass behind it (`Clean`, `Check`); `Words` and `CommandOf` are the two loops that cut a
command. Double quotation marks stand for a character of their own; the code does
not tell the two kinds apart. The reference (`GoodLine`, `RefTokens`) reads the line
without loops: what is outside an even number of quotation marks, runs of signs,
words between separators. It includes what the parser accepts oddly: `a <` and
`a > < f` pass, `a < > f` does not, and a command that begins with a redirection is
dropped without a word.

**IndexCover** is arithmetic only: the blocks and the part of a GPU thread, and the terms
of an MPI rank, as operators; the theorems of `AlgorithmProofs` say that each index belongs to one
of them.

## 4. Runs

An invariant of a run is mostly a conjunction of named parts, each with its comment
in its module.

| Run | Bounds | Shows |
|---|---|---|
| `kv_safety` | fair, 2 workers, 2 keys, 1 value, ttl 1, room for 2, clock 0..2 | `IInv` (`TypeOK`, `MutualExclusion`, `Located`, `KeysUnique`, `TtlExact`), `EntriesLeave`, `Linearizable`, `CommandsEnd`, `OldEntriesGo` |
| `kv_limit` | 1 worker, 4 keys for 3 entries, 2 values, no ttl | `Linearizable` at the limit and with gaps of several turns |
| `pool_io` | 2 workers, 2 connections, system calls may fail, SIGINT to single processes | `PoolSound` (`TypeOK`, `ReadsDoNotBlock`, `NoLostWakeup`, `NoOrphans`), `FreeMeansIdle`, `OneToOne` |
| `pool_end` | fair, 1 worker, 2 connections, SIGINT and SIGQUIT to all | `BusyHasReason`, `PlaceReturns`, `AllEnd` |
| `alloc_safety` | 4 pointers, 10 bytes | `ListSound` (`Tiling`, `OneAreaEach`, `CursorSafe`), `DefragPacks`, `DefragEnds`, `KeepsBytes` |
| `proxy_session` | fair, 1 session and the one that waits behind it, 3 bytes per side, buffer of 2, everything may fail | `SessionsSound` (`TypeOK`, `OneOperation`, `NoLeak`), `DiesForAReason`, `Forwards`, `BytesArrive`, `EndIsHeard` |
| `sort_main` | fair, 9 elements, the program's input | `RoundsSound` (`Types`, `NeverThrows`, `InBounds`, `NoRace`), `NumbersSorted` (`PartsInOrder`, `MergesInOrder`, `RightAtTheEnd`), `Sorts` |
| `sort_merge` | 4 elements, any input over two values | **violated**: `MergesSorted` |
| `sysv_store` | fair, 2 workers, 3 keys for 3 entries, 1 value, one more server | `LockSound` (`TypeOK`, `MutualExclusion`), `RoomLost`, `NothingLost`, `Linearizable`, `LockIsFreed` |
| `sysv_server` | fair, 2 connections that may queue up, SIGINT, accept, fork and set-up may fail | `ServerSound` (`TypeOK`, `ChildrenListed`, `NoOrphans`, `ReadsDoNotBlock`), `ZombiesReaped`, `EdgeAccepts`, `QuietEnd` |
| `words` | fair, a client with 2 lines and one with none, a recv of 2 lines, 2 descriptors, 2 contents of the file, answers of 2 words, words of 2 letters, 2 seconds after the start | `ThreadsSound` (`TypeOK`, `OwnAnswers`, `QueriesBetweenUpdates`), `StaleForAReason`, `QueryExact`, `ChangesAreRead`, `Answered` |
| `shell` | all lines of up to 6 characters of 9 kinds | `LexerSound` (`TypeOK`, `ScanSound`), `ParsesExactly` |

Why the bounds are enough. In p6 a conflict needs two processes and the
semaphore, so two workers and the master show every kind of interleaving; an
entry needs one neighbour before and one after it to be shifted wrongly (room
for 3 in `kv_limit`, where the workers' exclusion, proved for all sizes, makes one
worker enough); expiry is strict, so with a ttl of 1 the clock has to reach
2. In the pool, a connection can follow another on the same worker, and is
refused when the other worker is busy, has left, or has lost its place; the
liveness run has one worker so that two connections compete for it. Ten bytes and
four pointers give the allocator every arrangement of four allocated areas with
gaps before, between and after, and runs of up to several free areas. In the proxy
three bytes over a buffer of two make a direction go round twice, with a full and a
partly filled buffer; sessions meet only in the queue of handlers and in the
listener, where the next session waits while this one lives. Nine elements give
rounds with a cut second part, a missing one, and one that begins outside of the
array. In `sysv_store` a table of three has a gap that takes two turns to close, two
workers are one killed and one that finds its table, and every worker may be killed
once, so that two are hurt in one run; one more server is enough for a start by
mistake and for a restart, and what follows them is a state that a start also gives.
In `sysv_server` two connections may stand behind one event, and one be served
while the other waits or dies; SIGQUIT is read and forgotten there, and left out for
the size of the state space. In `words` two clients have a descriptor after each
other, an answer is full with two words and not full with one, and two contents of the
file can change within one second or between two. One of the clients sends: a recv
takes a line, two, a line and the beginning of another, or only a beginning; the other
comes, goes, and is who a late answer could reach by mistake. So TLC sees one thread
at a time; `AnswersAndUpdates` is for any number of clients and lines. What does not
fit into a recv needs a third line, and only makes its client `mixed`. Six characters
hold two commands with an operator and a redirection, a quoted operator, and three
signs in a row with something on both sides.

Fairness. `KvStore`: a process that is inside goes on (`RunCommand`,
`CleanScan`, `SemPost`), the master goes round its loop because its
`epoll_wait` has a timeout, and a process for which the semaphore stays free
takes it - weak fairness only, so a worker may starve the master, and
`OldEntriesGo` speaks of a time when the clients are quiet. `WorkerPool`: each
process with something to do does it; nothing is assumed of clients or signals.
`MergeSort`: code that runs goes on running. `Proxy`: the queue is
run, and an operation whose result is there completes; that a send completes at
all is a wish to the far end, which must read, and a connect must be answered.
Clients need not come, write or close. `SysvStore`: a worker inside goes on, and
takes the semaphore when it stays free; nothing is assumed of kills and servers.
`WordsServer`: that a thread ends is a wish to the clients again, since `send` blocks
when one does not take its answers, and then the main thread, which joins it, stands
still for all: `Answered` and `ChangesAreRead` are about clients that take them.
`SysvServer`, `WordsServer`: every process or thread that can go on does, and the loop
of the main one has a timeout in `epoll_wait`, without which zombies would stay and a
changed file would wait for a client.

`CHECK_DEADLOCK FALSE` stands where the program stops: after shutdown (p6), at
the end of the sort (p9), where the proxy has died or its bounded clients
have nothing more to do (p3), where all workers and servers of the bounded number
are gone (p5), and where the words server has died (p7).

Finding. `MergesSorted` is what the comment of `merge` says. The loop for the
rest of the second part has the bound of the first (`openmp_sort.cpp:106`), so
that rest is dropped. The numbers `main` sorts are descending, the second part
always runs out first, and `Sorts` holds for them.

What the runs of the proxy say of its weakness: `DiesForAReason` lists the ways
in which one session ends all of them. They are real behaviours of the model,
each reached in `proxy_session`: the end of one side while bytes of the other are
between two handlers (`bad_descriptor`; the property asks for less, that the other
side has sent some by then), any reset (`shutdown` throws where the connection is
gone), a server that cannot be reached or a failed accept. No document of the program
says otherwise, so there is no finding. And a partial send loses its rest: `Forwards`
maps to pipes that may skip bytes when `partial` is among the faults, and to pipes
that do not otherwise. `BytesArrive` counts what comes out at the other end (`got`)
and what partial sends have left (the history variable `cut`): nothing is lost in
another way while the session lives.

Some properties except what the code does wrong, by name, so that the rest of it can
be checked. They would not tell if the code did it in more ways: entries that a delete
has moved (`moved`; p6), places lost to a failed `epoll_ctl` (`BusyHasReason` where no
call fails), an end of stream that comes with data (`PlaceReturns`), a table emptied
under its users (`spoilt`; p5), a signal overwritten by a client's event (`QuietEnd` in
silence only), a second connection behind one event (`EdgeAccepts` speaks of the
first), a file written in the second in which it was read (`StaleForAReason`), and
requests of p7 without an end of line (`unended`) or together in one recv (`mixed`).

## 5. Proofs

All are for every value of the constants that the named `ASSUME`s allow.

* `KvStoreProofs`: `IInv` = `TypeOK`, `MutualExclusion`, `Located`, `KeysUnique`
  and `TtlExact` together. None is inductive alone: uniqueness of an append needs
  that the search's result is still true (`Located`), that needs that nobody else
  is inside (`MutualExclusion`), and `EntriesLeave` needs all of them and
  `TtlExact`. One lemma per action; frame lemmas for the steps that touch only one
  process. Theorems `TypeCorrect`, `Exclusive`, `ReadsStayTrue`, `Unique`,
  `TtlKept`, `NothingLost`. `Linearized` is `Linearizable`, the refinement of `KvMap`: the
  update is the point of effect, for delete the search that finds the entry, and all
  other steps are stutters. It needs one invariant more, `HasAnswer`: after its point of
  effect a worker carries the answer that the map gave it.
* `WorkerPoolProofs`: `PInv` = `TypeOK`, `Token`, `QueueOK`. `Token` says that
  of four things at most one holds for a living worker: it is free in the master's
  list, a connection is on its way to it, it has a client, a notification is on its
  way back. `QueueOK`: the queue holds distinct connections that nobody has yet.
  `FreeMeansIdle` follows, and with it the step simulation of `SlotPool`
  (`Refinement`): each step of the pool is one of its steps or a stutter.
  `EventsSound` (`PoolSound`) adds `SInv`: what a process is about to handle is there, and
  what is there is in its edges or its batch. One read per edge is enough because of
  `Token` - never two connections or two notifications are on their way - and a
  connection is not closed under another worker because of `OneWorker`, an invariant of
  `SlotPool`. `NoPlaceLost` is `BusyHasReason`, when no system call fails.
* `AllocatorProofs`: `IInv` says that the areas tile the arena (`Tiles`), that each valid
  pointer owns one area and nobody else any (`Owned`), and that in defrag's loop nothing
  free lies before the iterator but the end of the list (`InLoop`): this is what the loop
  has done so far, and without it the iterator could stand behind a free area and be
  erased by the next turn. `Tiles` and `Owned` speak of any list and any part of the arena,
  because each call replaces a part of the list: the new part has the extent of the old
  one (`SpliceTiles`) and, for each pointer, as many areas (`SameOwners`). That the sizes of
  a run of free areas add up to its extent (`Amount`) is shown of the recursive sum by its
  least counterexample, since the naturals are well-founded. A reallocation that moves is
  taken as giving up the old area first (`GivenUp`), so that no list with two areas of one
  pointer comes in between. `Sound` is `ListSound`; `Ends` is `DefragEnds`; `Packs` is
  `DefragPacks`, where a turn maps the allocated areas, in order, to places of their own
  (`OrderIs`), and at the end of the loop `InLoop` speaks of the whole list.
  `Kept` is `KeepsBytes`, the refinement of `Heap`: a call is a `Resize` of its own pointer,
  a turn of defrag a stutter. Each call leaves areas alone that are in its new list too, and
  `Bears` says that an area has the bytes of an earlier one. `CopiedIs` shows that moving an
  area down piece by piece never overwrites what is still to be copied; the fold over the
  pieces is a function on sets of them, which exists (`FoldExists`: take the least set
  without one). `Full` (the memory has exactly the bytes of the arena) is invariant. That
  the bytes held fit into the arena is a sum over the owned areas, which up to
  an index is at most the address of that index (`SumFits`); hence `FiniteAssumption`.
* `AlgorithmProofs`, of `MergeSort`: `IInv` = `Types`, `NeverThrows`, `InBounds`. The arithmetic
  of the parts is in `Sizes`, that of the addresses in `NotRefused`; `RaceFree`
  rests on `Multiples` (multiples of a step are a step apart); `RoundsAlwaysSound` is both.
  `MainSorts` is about the numbers of main, N down to 1 (`Inputs = {OwnInput}`), for every N. `PartsInOrder` says which
  numbers lie in a part: those of its cells, in ascending order; so the numbers of a second
  part are less than those of the first. `MergesInOrder` says that a merge takes its second
  part first and has put what it has taken into the cells where it belongs. A merge that
  ends has therefore an empty second part, and the loop with the wrong bound has nothing to
  do; the end of the last round is `RightAtTheEnd`. That the merges of a round leave the
  output of each other alone is `Disjoint`.
* `AlgorithmProofs`, of `ShellTokens`: `LineScanned` is `LexerSound`, for any letters and lines of
  any length. A fold over the places of a part of the line is a function on sets of numbers
  (`FoldUpExists`: the least number without one), and what holds of its start and is kept by a
  turn holds of its end (`FoldKeeps`): so words are sets of places (`WordsTyped`), commands have
  their parts (`CommandTyped`) and removing empty ones makes no others (`KeptTyped`). From one
  place to the next only a quotation mark changes `Inside` (`InsideTurns`), and between
  `at` and the next special character there is none (`NextIs`, `InsideStays`, `Scans`).
* `AlgorithmProofs`, of `ShellTokens`, the parser: `LineParsed` is `ParsesExactly`. A fold is also
  a run from one member of its row to the next (`FoldRuns`), and what holds at its start and
  is kept by each turn holds all along (`StepByStep`); so each loop has its own invariant.
  `CommandsExact`: behind the first words of a command the loop knows which redirection
  stands open, the last operands and the arguments so far (`CommandIs`), and has given up
  just when these words break the rule of `GoodWords` (`GoodTurns`). `WordsExact`: behind the
  first characters of a part the words are disjoint, in order, with a separator between any two
  (`CutAt`); rows of this kind that cover all the characters are what the reference numbers
  from left to right (`Numbered`, `PartedPieces`). The runs of signs are words of this kind
  too (`RunsAre`), so the line is runs and the parts between them (`PartIs`, `NextRun`).
  `Parsing` is the invariant of the actions: either the first parts and operators are
  tokens, in the reference's form, and the lexer stands behind them (`Aligned`); or the
  line is no shell line and has an operator that follows another (`Astray`), as after the
  first two signs of `&&&`, which the code reads as an operator and the beginning of the
  next. The second pass may remove the unnamed command between two such operators, but they
  stay (`StrayKept`), so that the third pass finds them (`AdjoiningInvalid`); in the first
  case it removes only a last command (`CutUpKept`), and what the third pass then checks is
  what is left of `GoodLine` (`RefValid`).
* `SysvStoreProofs`: `IInv` = `LockSound`, `Holds`, `HasRequest`, and `Knows` while no
  table was emptied under its users. `Holds` ties the semaphore and each worker's undo
  value to being inside, which a kill keeps true because of `SEM_UNDO`; `Knows` bounds
  the index a worker has found by the count, and an append by the capacity.
  `LockAlwaysSound` is `LockSound`. `KeysStay` (`NothingLost`) needs more, `LInv`:
  `KeysKnown` (a delete still stands at its own key, and half way through a turn of its
  loop the key is there twice) and `Fresh` (a server that finds a storage nobody uses
  has it empty and to itself). `Linearized` and `RoomBounded` (`RoomLost`) rest on `WInv`:
  while no table was emptied under its users, each worker's place in its command says
  what the table holds around its index (`Sound`), so that the map that the table
  stands for (without the entry a delete is about to close over) changes at one step of
  a command; and as long as no worker was killed in a gap, keys are unique. `RoomLost`
  counts: a step adds at most as many entries as keys, but for a kill, which `hurt` counts.
* `SysvServerProofs`: `ServerSound`, strengthened by `Queue` (who waits is in the queue
  once and has no worker) and `Batches` (only a worker in its batch has events). With
  them a connection that is accepted gets a new child with no events, and the list of
  children and `ReadsDoNotBlock` are inductive.
* `WordsServerProofs`: `Threads` (a thread lives only in the batch that started it, which
  has no second event for its client) and `Descriptors` (no two connections share one)
  give `AnswersAndUpdates` (`ThreadsSound`). That a new connection finds a free
  descriptor is a pigeonhole argument; that it gets the lowest needs that the naturals
  are well-founded. `Ages` relates the times of the file, of the reading and of the
  noting; `StaleOnce` (`StaleForAReason`) is a part of it.
  `Queries` is `QueryExact`, for any files, prefixes and limits, and is about the operators of
  `WordsQuery` only. `AtLeast` is a total order (`Total`, `Antisymmetric`, `Transitive`), so the
  places of the kept lines are the numbers up to their count, each once (`Places`), and
  the dictionary is the kept lines in another order (`DictFrom`). What lies between a prefix
  and a word with it has the prefix (`Between`), so the words with a prefix stand together
  (`StartIs`) and the answer is where they begin (`AnswerIs`). "As often as in the file" is
  an injection of places (`AsOften`), not a count.
* `ProxyProofs`: `IInv` says what each operation means for its session, whether it waits in
  the reactor or its handler in the queue. `Single`: no two operations under way are of
  the same kind (`Alike`); `Going`: none that a session needs is missing; `Stands`: how the
  flags, the descriptors and the far ends of a session go together; `Placed`: where an
  operation may be under way at all; `Waits` and `Says`: what an operation, and its result,
  tells of buffer and bytes. `Loaded` is the heart: the bytes received last are in the
  buffer and have not gone on, until the send that takes them. One lemma per step; steps
  with the same effect on the queues share one (`Reacts`, `GoesAhead`, `Ends`, `Thrown`).
  `Sound` is `SessionsSound`, where the two counts of `Pending` come from `Single` and
  `Going`; `DiesOnlyThen` is `DiesForAReason`; `Piped` is `Forwards`, the refinement of
  `Pipes`, where a session is opened by the handler of the connect, and cut by
  `termination_routine`.
* `AlgorithmProofs`, of `IndexCover`: `TermsOnce` (p10), `IndicesOnce` and `NoIndexWraps` (p11), by division
  with remainder. There is no run of it: the statements are about numbers, not states.

Only model-checked: all that rests on fairness (`CommandsEnd`, `OldEntriesGo`,
`PlaceReturns`, `AllEnd`, `Sorts`, `BytesArrive`, `EndIsHeard`, `LockIsFreed`,
`ZombiesReaped`, `EdgeAccepts`, `QuietEnd`, `ChangesAreRead`, `Answered`), which is out
of the prover's reach. Every safety property of the passing runs is a theorem.

## 6. Not modelled

* Of p6: failures while the server sets itself up; descriptors that the master
  never closes (its copy of every connection it has passed on); a worker killed
  inside `run_command`, which leaves the semaphore down for ever; the text of the
  protocol, beyond "a command, or not one".
* Of p1: copies of a `Pointer` used after the original was freed, and `dump`.
* Of p9: the command line, the timing, a failed allocation.
* Of p3: the parser of the config file and the choice of a destination;
  `stop_listening` and `terminate_sessions`, which `main` only reaches when
  `io_service.run` returns, which it does not while an acceptor waits; errors like a
  timeout, which end as `HandleUnexpected` does; what becomes of bytes that the
  kernel has taken when the sockets are closed.
* Of p5: failures of the master's own set-up, a full descriptor table (the master
  never closes its copy of a connection), a command that arrives in pieces or is
  longer than the buffer, numbers that do not parse.
* Of p7: failing system calls, a `send` that blocks (above), one line longer than the
  buffer (it is as a line without its end, and another), an answer longer than the
  buffer of the thread, the read-write lock (above), a dictionary that is missing at the
  start.
* Of p4: `shell.cpp` only hands the lines of a file to the parser, and does not catch
  what it throws; `runlist.cpp` is empty; printing of tokens.
* Of p10 and p11: all but the index arithmetic. The sums and sines are floating point, which
  TLA+ does not have; `main` of p11 is a sequence of library calls with a check of each.
