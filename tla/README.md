# A verification of my_hws in TLA+

The repository is a collection of programs: kernel modules, multi-process and
multi-threaded C programs, network servers, architecture simulators, a
word-counting service in Go and a number of exercises. They share no code.
This directory holds TLA+ modules of the programs whose behaviour is hard to
test, the TLC runs that check them on small instances, and TLAPS proofs of the
properties for every value of the constants. `PROJECT.json` lists the runs, the
source lines behind every definition, the hazards and the theorems.

Paths below are relative to the repository.

## 1. Inventory

| Component | State | Operations | What makes it correct | Here |
|---|---|---|---|---|
| List line pipe, `operating_systems/proj3/linepipe.c` | a linked list, `list_size`, a mutex, two wait queues | open, release, read, write, init, exit; called by any number of processes, interrupted by signals | mutual exclusion, counter = length, no lost wake-up, first in first out | modelled, proved |
| Ring line pipe, `operating_systems/assignment2/test.c` | a table of slots, two pointers, a count, a mutex, two wait queues | the same | the same, and pointers that span the count | modelled, proved |
| MOESI simulator, `computer_arch/third_project/Moesi/main.c` | a state per cache and line | local reads and writes, bus probes | coherence: one owner, no stale copy, no lost write | modelled, proved |
| Barrier, `systems_program/proj3` | mutex, condition variable, two counters | init, wait, destroy; called by threads and main | a one-shot gate, nobody blocked for ever, safe destruction | modelled, proved |
| MapReduce, `systems_program/proj2` | processes, pending signal, intermediate files | split, fork, map, signal, reduce, wait | the result is that of the whole file; the parent ends | modelled, proved |
| Memory manager, `systems_program/proj1` | a chain of lists of batches, bitmaps | init, alloc, free, leave | no slot handed out twice; chains, counters and bitmaps agree | modelled, proved |
| Conference server with threads, `computer_networks/proj1/ledward6-project1-part2` | the table of open sockets and its mutex, the acceptor's `clientsock`, a thread per client; socket buffers and descriptors of the kernel | accept, add, create a thread, receive, forward, remove, close; clients connect, type, read, leave | the table names open sockets only and each once; members hear everything, once, in one order; a forward ends | modelled, proved |
| Conference server with select, `computer_networks/proj1/template` | `masterset`, `livesdset`, `livesdmax` | select, receive, forward, disconnect, accept | the same | modelled, proved |
| Caching proxy, `computer_networks/proj2` | a linked list of pages without a lock, `open_sockets`, a thread per request | accept, read, look up, fetch, append, send, print, remove | a browser gets a page of its url; a hit is reported as a hit; the list ends | modelled, proved |
| Word-counting map (Go), `programming_models/assignment1` | one goroutine's map, channels | add, count, reduce, stop | as many answers as callers, every word counted once, everybody stops | modelled, proved |
| Scoreboard (Java), `computer_arch/second_project` | four units with their stages, busy registers, the queue, a status per instruction | advance the clock, issue (in order or not), dispatch | an instruction reads what the program says; the simulator ends and never fails a test of its own | modelled |
| Branch predictor, `computer_arch/first_project` | counters of two bits, a history, a selector | predict, update | two equal outcomes are learnt, the history is spelt, the tournament lies between its predictors | modelled |
| Merge sort with threads, `systems_program/homework_3_part_2` | the pieces, the threads of a round | split, sort a piece, join, merge two pieces | the result is in order and has the same numbers | modelled |
| Process list device, `operating_systems/proj2` | a snapshot per open file, one global cursor | open, walk, read, print, release; processes start and end | a snapshot lists every lasting process once, with its own state | modelled, proved |
| Process creation, `operating_systems/proj1` | the tree of processes, the loop counter of each | fork, exec, wait, abort | nobody returns before its children | modelled, proved |
| Knapsack and shortest paths, `algorithms/proj3` | tables, distances | read a file, compute, print | the best choice, the shortest path | modelled |
| Strassen and tromino, `algorithms/proj2` | matrices, a board | recurse | the product; a covering with L-shaped tiles | modelled |
| Phone directory, `algorithms/proj1` | an array of contacts | create, sort, search, delete, insert | in order after every sort, nobody lost or doubled, a search finds who is there | modelled |
| The rest: jprobe, CUDA, Android, language exercises, utilities | | | | not modelled (see section 7) |

Several directories hold a second copy of a program (`computer_networks/ledward6-project2`,
`algorithms/proj2/ledward6_project2`, `operating_systems/algos`). The modules are
about the copy named in `PROJECT.json`.

Nothing is persistent except files written once, so there is no crash recovery
apart from the kernel modules, which can be unloaded and loaded again, and the
memory manager, which can be left and initialised again.

The hard behaviours, which the hazards of `PROJECT.json` name line by line, are
the interleavings of processes and threads between an unlock and the next lock
(both pipes, the barrier) or without any lock (the proxy's list, the cursor of
the process list), the error paths that return in the middle of a critical
section (both pipes), a failed call after which the code goes on as if it had
succeeded (process creation, the proxy), a variable of one thread that another
reads by its address (conference server, proxy), library functions that keep
what they know in one place for all threads (`strtok` and `gethostbyname` in the
proxy), a module that is unloaded under its users (ring), a write that blocks
under a lock (conference server), descriptors that are closed and given to
somebody else, a destruction that races its users (barrier), a signal that may
come before its handler (MapReduce), answers that carry no address and channels
that are closed under their senders (word-counting map), positions computed from
counters that several functions keep apart (memory manager, ring), instructions
that overtake each other (scoreboard), and long histories that must not leave an
illegal combination of states (MOESI, memory manager, phone directory).

## 2. Modules

| Abstract specification | Detailed module | TLC | Proofs |
|---|---|---|---|
| `LineFifo` | `LinePipe` | `MCLinePipe`, `LinePipeMany.cfg`, `LinePipeSingle.cfg` | `LinePipeProofs` |
| `LineFifo` | `PipeRing` | `MCPipeRing`, `PipeRing.cfg` | `PipeRingProofs` |
| `CoherentLines` | `Moesi` | `MCMoesi`, `Moesi.cfg` | `SimulatorProofs` |
| `OneShotGate` | `MyBarrier` | `MCMyBarrier`, `MyBarrier.cfg` | `BarrierAndSortProofs` |
| (reference operators in `UserFunctions`) | `UserFunctions`, `MapReduce` | `MCMapReduce`, `MapReduce.cfg` | `MapReduceProofs` |
| `BlockAllocator` | `MemMngr` | `MCMemMngr`, `MemMngr.cfg`, `MemMngrLookup.cfg` | `MemMngrAndAlgorithmProofs` |
| `WordCounter` | `Cmap` | `MCCmap`, `Cmap.cfg` | `CmapProofs` |
| (what a member is owed: `Owed` in `ConfClients`) | `Conference`: `ConfClients` with `ConfServer` or `SelectServer` | `MCConference`, `Conference.cfg` | `HostProofs` |
| | `ProcessTree`, `Proxy`, `ProcessList` | `MCPrograms`, `Programs.cfg` | `HostProofs` |
| | `ThreadedSort` | `MCPrograms`, `Programs.cfg` | `BarrierAndSortProofs` |
| (reference definitions in each) | `Algorithms`: `Knapsack`, `Dijkstra`, `Strassen`, `Tromino` | `MCPrograms`, `Programs.cfg` | `MemMngrAndAlgorithmProofs` |
| | `PhoneBook` | `MCPrograms`, `Programs.cfg` | `BarrierAndSortProofs` |
| | `BranchPredictor` | `MCPrograms`, `Programs.cfg` | `SimulatorProofs` |
| (the order of the program: `Producer`) | `Scoreboard` | `MCPrograms`, `Programs.cfg`, `ScoreboardOrder.cfg` | `SimulatorProofs` |

Every detailed module keeps the names of the source. A `\* Mistaken variant` is
a definition with a plausible bug; it is not part of the specification and
stands before the definition it is a variant of, so that a reader can see, and
repeat, that the properties notice it.

**LinePipe.** `list`, `list_size`, `mutex` are the globals of `linepipe.c`; `pc`
is where each process is in `dev_read` or `dev_write`. A step is what happens
between two points at which another process may run: taking the mutex, testing
`list_size` under it (`ReadBlocks`, `WriteBlocks`), testing the condition of
`wait_event_interruptible` without it (`CheckCondition`), and the rest of the
critical section (`Take`, `Add` and their failures). After a wait the code does
not test `list_size` again, and neither does the model (step `second`). A reader
that finds the list empty follows NULL and is killed with the mutex held
(`TakeNull`). `wait_event_interruptible` tests again after it has queued itself,
so "not true, sleep" is one step; a wake-up sends sleepers back to the test.

**PipeRing.** The same protocol over slots. The model keeps the pointer
arithmetic of the code, in particular where it leaves the table (`read_ptr =
-1`, `write_ptr = max_table_size`): what follows such a pointer is a
nondeterministic choice (`WildRead`, `WildWrite`). `active` is the set of
processes that exist in a run, so that one instance covers one reader and one
writer as well as more. Unlike those of `linepipe.c` (line 41), the file
operations of `test.c` have no `.owner`, so that nothing keeps rmmod from
unloading the module while processes have the device open, sleep in it or are
inside a call: `Unload` waits for nobody, and those it finds are `stale`. The
next step of a stale process kills it (`Fault`) or goes on, in what is left of
the module or in the next one, which is loaded where the old one was; it has
then `strayed`. Taking, releasing or testing works on the new variables
(`Runs`). A reload makes the wait queues anew, so that a stale sleeper is
`forgotten`: no wake-up reaches it. If a signal gets it out, it takes itself off
a list that is no longer the queue, and whom that queue then has is a choice
(`Rouse`).

**Moesi.** The simulator is sequential: one line of input, with all its probes,
is one step. Bus probes are the operator `AfterProbeRead` applied to every other
cache.

**MyBarrier.** Threads and main interleave at the pthread calls. The mutex of a
destroyed barrier leads to the step `undefined`. `joins` says whether the client
joins its threads before it destroys the barrier: `barrier1.c` does not.

**MapReduce.** The parent's loops, the children and the signal. `LoopHead` is
the head of the parent's last loop with its `kill`; `Deliver` is the arrival of
the signal at child 0, which dies if it has not installed the handler, and whose
sleep it does not shorten if it comes just before the call. A map or
a reduce is one step: `ReduceAfterMaps` shows that they never overlap, which is
what makes this sound although the descriptors are shared. `UserFunctions`
gives what both tasks compute from bytes.

**MemMngr.** Pointers are pairs of batch memory and slot, because the code
compares addresses only within a batch. The end of a batch is a pointer of its
own, since `check_mem_in_batch` takes it for a part of the batch. A request that
hangs (`find_mem_list_by_size`) or divides by zero ends the behaviour.

**Cmap.** Each goroutine has a step and its locals: `listener` for `Listen`,
`main`, `reader`, `asker`, `reducer`. A buffered channel is a sequence, and a send
or a receive on it is a step; on an unbuffered channel (`reduce_chan`,
`reduce_out_chan`, `stop_chan` and the kill channels) the two ends move in one
step. `closed` stands for the three channels that `Listen` closes together: a
send on one of them panics, a receive gives what is left and then the empty
word. `Reductions` are all results that a `range` over the map in some order may
give. `ListenPanics` is the second reading of the closed `stop_chan`, which
comes about because the `break` leaves the select only. Since `main` returns
soon after, it races `Exit`.

**ConfClients, ConfServer, SelectServer, Conference.** `ConfClients` is a client of the
conference together with the kernel: the backlog of `listen`, the table of
descriptors with the lowest free number first, and two socket buffers per
connection. The k-th message of a client is `<<c, k>>`, so a buffer is a number.
`ConfServer` is the server with threads: a step is a call that may block or one
access to shared data. A thread reads its socket from the acceptor's variable
(`Start`), and `clean` remembers whether it always found there what it should.
The loop over the table holds the mutex while it writes (`Send`).
`SelectServer` is the server with one thread: `livesdset` is what select
reported, and the smallest descriptor comes first. It does not mask SIGPIPE, so a
write to a client that has gone may end it (`Sigpipe`). `Conference` runs
either, with the same clients. What a member is owed (`Owed`) is a set of places of
the log, and `HasHeard` says that what it was sent is the messages there, each at
its rank.

**Proxy.** A page is a node, numbered by the thread that fetched it. The lookup
and the append follow one pointer per step, because no lock protects them. Nor
does one protect the position of `strtok` (`strtokLeft`: the thread whose Host
line comes next) and the result of `gethostbyname` (`resolved`), of which the
process has one each. Each call of these is a step: of `strtok` in
`parse_request` (`ParseFirst` to `ParsePort`) and `get_content_size`
(`SizeFirst`, `SizeNext`), of `gethostbyname` in `hooktoserver` (`Resolve`),
which reads the result in a later step (`HookToServer`). So a thread may get
another's Host line, or too few or too many tokens, and drop a good request, or
connect to the host another has looked up. A page carries the host it came from;
`crossed` remembers the threads that were between two such calls at the same
time as another. A fetch succeeds, fails, or ends the program, as `make_request`
does when it cannot connect. A `write` that fails makes `sendn` loop for ever
(step `spin`), since it keeps the result in a `size_t`.

**ProcessList.** `next_task` is the kernel's list, which changes under the
reader; a process that ends keeps its own link, as RCU has it. `task_list` is the
global cursor of the module. `sprintf` loads its arguments from it one by one,
two of which are in the model.

**ProcessTree.** A process is numbered when it is forked. The step `ForkCopy` is
a failed `execvp`: the child is a copy of its parent in the middle of the loop.

**ThreadedSort.** One step per thread. `cmpfunc` subtracts in a machine integer;
where its answers are no order, `qsort` returns any arrangement.

**Scoreboard.** A step is an advance of the clock, an attempt to issue, or the
dispatch at the end of a cycle. The simulator computes no values; `writer` and
`producers` remember which instruction wrote what an instruction reads.

**Knapsack, Dijkstra, Strassen, Tromino, PhoneBook, BranchPredictor.** The
sequential programs: what the code computes is an operator or a step of its loop,
and the property compares it with a definition that knows nothing of the
algorithm. A loop is a function of the rounds that are over (`Total`, `Table`,
`Sums`) and a recursion on halves a function of the number of halvings
(`_do_recur_strassen`, `do_tromino`). `Algorithms` puts the first four together. `PhoneBook` draws a number for each part of the array that a sort comes to:
the code seeds `rand` with the time before each draw, so calls within a second draw
the same number and the next second brings another. `BranchPredictor` starts from any contents of the
selector table, which the code never fills.

**MCPrograms.** These programs share nothing; one of them (`program`) runs and
the others stay where they begin, so that they need only one run.

## 3. Runs

| Run | Instance | What it shows |
|---|---|---|
| `linepipe_many` | 2 readers, 2 writers, N = 2, at most 4 lines, all failures | counter, wake-ups and order hold whatever fails |
| `linepipe_single` | 1 reader, 1 writer, N = 3, signals | capacity and no NULL read; with fairness every call ends |
| `pipe_ring` | up to 2 readers and 2 writers, 3 slots, all failures, rmmod under open files | only rmmod makes a sleeper forgotten; one reader and one writer have a FIFO |
| `moesi` | 3 caches, 4 lines (as in the program) | coherence for the program's own size |
| `barrier` | 4 threads, count 3, joined or not | gate, no blocked thread, safe joining, everybody returns |
| `mapreduce` | all files of up to 4 bytes and 4 longer, 0 to 4 splits, both tasks | reducer last, right result, clean return, termination |
| `memmngr` | requests 0, 5, 8, 12, 20; 4 batches of 2 slots | the pool is consistent and is an allocator |
| `cmap` | 2 readers of a word, up to 2 askers, 2 reducers, 2 words | answers match askers, exact reductions, a counter; the program ends |
| `conference` | 3 clients, buffers of one message, three parties | the table is right, members hear all in order, forwards end, with threads and with select |
| `programs` | eleven programs, each on its inputs | see below |
| `scoreboard_order` | the scoreboard of `programs` | a violation: out of order a true dependence is lost |
| `memmngr_lookup` | requests 8, 12, 20 | a violation: the lookup by size need not return |

Bounds. Two readers and two writers are the smallest sets with two processes
woken by one event, which is where the pipes behave differently; more processes
of a kind only repeat the same steps. `MaxList`, `MaxDebt` and `MaxCount` keep a
pipe that grows without bound, or whose count goes negative, finite: no *new*
call starts beyond them, and calls under way finish. `MaxInside` (4) says how
many processes of the ring there may be together with those rmmod leaves stale:
two of each kind when nobody is left inside, one of each with both inside. Once
a stale process has strayed no call starts (`straycall` is not among the events
of the run; it is in the proofs), since nothing is claimed of that module any
more. N = 2 and three slots make full, empty and partly filled different and let
the ring wrap. Three waiters of four threads leave one that is late. Four
batches are enough for two lists with two batches each, and two slots per batch
for a batch that is partly free (the program has eight, which changes only how
often a batch fills). Files of four bytes in four splits include empty splits,
leading and trailing newlines and files that cannot be split; the longer ones
have lines with two matches. In `cmap` every buffer has one place, so that all
of them are full and empty; one asker is where its answers are its own, and two
are where they may swap them. `MaxEmpty` limits how often the empty word is
counted after the channels are closed. Symmetry is used for processes, lines,
caches and batches in the runs without liveness; nothing in those modules
distinguishes them.

The conference has three parties (`MCParties`): a speaker between two clients
that leave, so that `remove_socket` moves entries and descriptors are used again;
two clients that type more than both buffers hold (`Room` is one message), so that
client and server may hang in writes to each other; and two that come and go while
one call of the server fails. With a full buffer of one message and two messages
in flight every blocking write occurs.

In `programs`: three browsers at the proxy, two of them with the same url, and
two crowds in which a browser gives up and a call fails, with two connections at
a time (`Sockets`), which is enough for two threads to meet in `strtok` or
`gethostbyname`; three threads that do are left to the theorem; two readers of
the process list over three processes, one of which may end (`Mortal`), with
room for `MaxLines` lines; trees of height up to 3 with up to two children,
seven processes and one failed exec (`MaxProcesses`, `Misfortunes`); sorts of up
to five numbers in up to five pieces with integers from -4 to 3 (`IntMax`), so
that differences overflow; every knapsack of two items and many of three; every
graph of three nodes and two of five; pairs of matrices with a single 1, up to
size 5, which decide a bilinear product and need padding; boards of up to 8 by 8
(`MaxK`), every hole; directories of up to four contacts (`MaxSize`), with
namesakes; every sequence of five branches over two ids and a history of two
bits (`HistoryBits`, `MaxBranches`); and for the scoreboard (`Boards`) all
programs of three instructions over two registers and of four over five kinds
that use every unit, the example of the repository and a longer one. Three
instructions are the fewest in which a third one overtakes a second that waits
for a first.

Deadlock is checked in the three pipe runs. The others may stop for good: a bad
input ends the simulator, the word count ends, every thread of the barrier
returns, MapReduce ends, a call of the memory manager may hang or crash, a
conference may hang in its writes, and the programs of `programs` end.

Fairness. `LinePipe`: processes in a call go on (weak fairness of each step) and
a process that asks for the mutex again and again gets it (strong fairness of
`Lock`; the kernel's mutex queues its waiters). The clients call in a loop, so
`Call` is weakly fair. No failure, signal or close is fair. `MyBarrier`: the
same for threads, whose `pthread_mutex_lock` is assumed not to starve; main and
spurious wake-ups are not fair. `MapReduce`: processes run, signals arrive,
sleeps end; each group of steps is weakly fair. `Cmap`: some reader goes on
(weak), and Go's select chooses at random between the branches that are ready
and its channels serve waiting goroutines in turn, so each kind of receive of
`Listen`, the sends and receives of askers and reducers, and `main` are strongly
fair. Tickers need not fire. `Conference`: each thread that can run runs, the select
server runs, and a client reads what has arrived and finishes what it is sending;
users need not type or leave. Weak fairness is enough, because a forward that
holds the mutex is never disabled by another thread. Nothing else needs fairness.

What the runs do not say is as important. Of the ring, `NoLostWakeup` does not
speak of the sleepers that rmmod left, which are forgotten, and nothing is
claimed of a module into which a stale process has strayed. The host in
`AnswersAreRight` is that of pages whose thread `crossed` no other; a page of
one that did may be of any host, and stays in the cache under its url.
`TableIsLive`, `MembersHearAll` and `AnswersAreRight` are about behaviours in
which every thread reads its socket from the acceptor's variable before the next
accept overwrites it, which nothing in the code ensures; `ForwardingEnds` admits
the one way in which a forward does hang, a client that itself hangs in a write
to the server; `CacheEnds` says that the proxy's list is a list, not that it
keeps every page; `SnapshotIsWhole` is about snapshots that overlap no other,
since a second open moves the cursor of the first; `BitmapMatchesHeld` and
`IsAllocator` claim nothing after a free of the address at the end of a batch or
once a size rounds to 0; `SortIsRight` gives an order to numbers no further
apart than an int; `NothingLeftBehind` admits the empty result of a reducer
killed by the early signal; `OrderIsKept` speaks of true dependences only for
the issue in order. `CapacityRespected` and `NoNullRead` are run with one writer
and one reader because they are false with two, and `SafeIfJoined` speaks of
clients that join.

## 4. Proofs

Each proof module has the same shape: an inductive invariant `Invariant` (or
`IInv`), a lemma for the initial states, one lemma per conjunct of the invariant
with one step per action, and the theorems that follow from it. The invariants
were checked with TLC on the instances above before they were proved.

- `LinePipeProofs`. The mutex has at most one holder and a process in a critical
  section is the holder; with that, `list_size = Len(list)` is preserved by each
  step, and so are the wake-up conditions: list_size moves by one at a time, so
  it cannot pass 0 or N - 1 without the step that wakes. With one writer the
  invariant adds that a writer past its wait still finds room, because only
  readers change the list meanwhile (`OneWriterFits`); the same for one reader.
  `ImplementsFifo` is the refinement of `LineFifo`.
- `PipeRingProofs`. The wake-up argument is the same but over a count that may
  leave its range. For one reader and one writer the invariant says that the
  pointers span the count, or that the lock is held for ever by a handler that
  failed; lemmas on the slots (`SlotOf`) show that a read removes the first
  line and a write adds one at the end, whichever way the pointers wrap. All of
this is kept through any number of reloads: a load under stale processes puts the count to 0 and leaves nobody
asleep on the new queues (`UnloadedIsQuiet`: whoever is inside a module that is out of the kernel is stale; `OthersRemembered`: no
other is forgotten), and as long as nobody has strayed a stale process is outside of the
new lock and changes nothing. From the moment one strays until the next reload nothing
is claimed but exclusion (`NothingClaimed`).
- `SimulatorProofs`, about the simulators of a processor's parts.
  `Ownership`, `SharingIsReal`, `ImplementsCoherence` (`Moesi`): `SoleOwner`,
  `OneOwner` and `SharedIsShared` together are inductive, for any number of caches
  and lines.
  `ProgramOrderIsKept` (`Scoreboard`), for any program. The invariant (`BoardInv`) says
  where an instruction is: the units hold exactly what is issued and not
  completed, each once, with as many cycles left as its stage allows (`StagesHold`,
  `UnitsHold`); the busy registers are the destinations of these, no two the same
  (`BusyIsRight`); instructions leave the program in its order, and the
  queue of the issue out of order holds the dispatched ones from the oldest on
  (`TakenInOrder`, `QueueIsRight`). In order, what is in a unit is younger than every
  completed writer of its destination (`WritesInOrder`), although a load that misses
  completes after an addition that was issued later: the two never write the same
  register. So the writer a register is from is the latest one before the reader, and
  at the end the last of the program. Out of order, none that is left behind reads what a
  younger one wrote. The bound on the cycles needs a measure: the cycle
  plus the cycles all instructions have ahead (`AllAhead`) never exceeds what they
  take one after the other, because a cycle in which no unit moves and nothing is
  issued has nothing in flight, and then the first of the queue can be issued or the
  next of the program can be dispatched (`CyclesArePaid`, `NoneStalls`). The exception is an
  operation that no unit knows, on which `main` exits in the next cycle (`Lost`). The sums over
  a program of any length are a recursive function, whose equations come from the least
  number for which they fail (`PartialSums`, `LeastIsMember`).
  `PredictorsKeepLearning` (`BranchPredictor`), for any number of branches and of
  bits of history. Two equal outcomes say what a counter predicts only because one outcome
  already leaves it leaning to its side (`CountersLean`), from wherever it was. The index of the
  global table is below the table's size and spells the latest outcomes; a shift
  modulo a power of two keeps that (`IndexShifts`, from the quotients of `Halves` and
  from `PowersDivide`). The count of the tournament stays between the two histories whatever
  the selectors, which the code never initialises, hold.
- `BarrierAndSortProofs`. Of the barrier: `executed_count` is the number of arrived threads, the
  mutex belongs to whoever is in a critical section, and nobody is blocked once
  the event occurred.
  `SortStaysRight` (`ThreadedSort`), for every file, split size and order of the
  threads. The invariant (`SortInv`) says that in every phase the pieces hold the numbers of
  the file, each once (`Hold`: a bijection from the places in the pieces to those in the file), and
  that the pieces that are through are in order. The cut (`CutHolds`), a sorted piece (`PieceSorted`) and a
  round of merges, with or without an odd piece (`RoundHolds`), are bijections of places too.
  `merge_sort` is written as the number of elements `Taken` from the first piece
  after k steps: each step takes one element from one piece and none is passed over
  (`MergeSteps`, `MergeTurns`), and what is taken is not greater than what is next in the
  other piece, so the result is in order (`MergeAscends`). That the
  pieces come out of `qsort` in order needs that no difference of two numbers wraps
  (`QSortedIs`): then `cmpfunc` is the order of the integers. With one piece left the
  bijection is one of the positions of the file (`OnePieceIsAnOrder`).
  `DirectoryStaysKept` (`PhoneBook`), for any contacts and any numbers that `rand` returns.
  The loop of `_do_partition` keeps what it has compared on either side of `pIndex`
  (`CompareKeeps`, `PartitionIs`). `_quick_sort` calls itself twice, so first there has to be a
  function that satisfies its equation: after k rounds of unfolding, the calls on parts of at most k
  contacts return what they always will (`RoundSettles`, `QuickExists`). By the size of the
  part each call puts its part in order and moves contacts inside it only (`PartsSorted`,
  `CallSorts`), so each contact is there as often as before (`ShuffleKeeps`, a bijection
  of places). A round of `_binary_search` leaves out no place of the name if the array is in order
  (`HalveSearches`), and after as many rounds as there are contacts nothing is left.
- `MapReduceProofs`. The number of waits is the number of reaped children; the
  signal comes when at most one child is not reaped, and child 0 cannot be
  reaped before it: so all others are dead when it reduces, and the result is the
  reduction of what the workers made of the splits (`ResultComposed`). That this is
  the right answer, `ResultStaysExact`, is proved from the bytes: start_offset never
  decreases, and each split but the first begins with the newline at which the one before it
  ends (`OffsetSteps`, `Cuts`). `letter_counter_map` reads one byte more than its split, but
  that byte is a newline and no letter (`LettersOfPart`), so the counts of the splits add
  up (`LettersReduced`). Newlines are counted along the file (`UptoSteps`): a line of the
  file up to a split stays where it is, and one of the split moves as a whole (`EndsLeft`,
  `EndsRight`, `ConcatLines`); the first line of a later split is empty and adds nothing
  (`FirstLineIsEmpty`). So the lines found in two parts are those found in the first, then
  those in the second (`MatchingConcat`), and the reducer's loop puts together those of the
  file (`LinesReduced`).
- `MemMngrAndAlgorithmProofs`. The memory manager: the pool's shape and the agreement of bitmaps and client need
  each other: a bit names one pointer only because no memory is in two batches,
  and a new batch is nobody's only because the client's pointers are all into
  the pool (`ClientInPool`). The three ways to allocate are brought to one form,
  a list that `Continues` the one in the pool and one of its free bits, so that
  `HandOutEffect` is proved once. That `bitmap_find_first_bit` finds a bit
  (`FirstOfIsOne`) rests on the well-foundedness of the natural numbers.
  The algorithms of `Algorithms`, for input files of any size. That a loop, or a recursion
  without a last level, has a value after each round is shown once (`LoopHasValues`,
  `EndlessLoopHasValues`), from a chain of finite attempts; what is left is one induction each.
  `KnapsackIsRight`: after each round of a greedy rule, an item that is neither left
  nor added does not fit into what remains, and will not later, since the rest only shrinks
  (`OneRoundTries`). Every choice of items is the combination of a number below 2 to the
  number of items, by doubling (`EveryChoiceIsCombination`), so the loop of Q1-1 meets it
  (`BruteForceIsBest`). In the table of Q1-3 a cell bounds what any choice of the first
  items of that weight is worth (`CellsBound`), and on the way back what is printed and the cell
  that is reached are together worth the last cell (`BackAccounts`). That an exact
  method leaves nothing out that fits and is worth something follows from its being exact.
  `ShortestPaths`: the nodes visited are those nearest to the source and have used their
  edges (`VisitedFirst`, `EdgesUsed`); after k rounds no distance is below the shortest walk
  of k edges (`NoneTooShort`). When one node is left, a walk of n - 1 edges can shorten
  nothing more, by the number of its edges (`DoneIsShortest`).
  `StrassenIsRight`: an entry of a product is a sum along a row and a column, and those of
  matrices of an even size fall into halves (`QuartersMultiply`). Strassen's identities hold
  for such sums because they hold term by term (`SevenTotals`), so that seven right products of
  quarters give the product (`SevenIsProduct`), and the recursion is right by the number of
  its halvings (`RecurIsProduct`). Zeros below and to the right change nothing (`ExtendedProduct`).
  `TrominoIsRight`: what a call leaves of a part, but for its hole, has numbers larger than
  those before the call and not larger than its own count after it, and each number is on
  one tile (`Covered`). Four such parts and the three cells of the new tile make up the whole
  (`FourCover`): the numbers of two parts are apart because the count only grows.

- `CmapProofs`. `AnswersMatchAskers` is kept because a question, its answer in
  `Listen` and its answer in `count_chan` are one asker's wait each. `MainOrder`
  (main has waited for readers and killed askers before it stops the map) gives
  `NoSendOnClosed`. For the refinement `ReportsInTime` says that with one asker
  everything under way is about its word and at most the count in the map;
  counts are the map plus what is still in `add_chan`, so that lemmas on
  occurrences in a sequence show that taking a word changes nothing.
  `ReducersGetTheBest`: the answer in `Listen` belongs to the only reducer that waits
  (`OneAwaits`), and the map does not change while `Listen` holds it. In whatever order range goes,
  the accumulator is the best of the words so far (`ReductionIsBest`, by induction on
  the order), once it has met one; the least frequent word is found because no
  count reaches the largest int (`CountsStaySmall`: the words counted, under way and
  still to be added are no more than the files have).

- `HostProofs`, about the processes, threads and sockets of one host.
  `TreeOutlives` (`ProcessTree`): that a process that returns has no child left needs three
  things together (`TreeInv`): the types, that a process not yet born has no parent
  (`UnbornHaveNoParent`), and that a process in its loop has at most as many
  children as its counter says (`ChildrenAreCounted`). A child that is a copy of
  its parent starts with the counter of the loop and without children, which is why
  the extra wait does no harm.
  `TableStaysLive` (`ConfServer`): `TableIsLive` says which descriptors are in the
  table. A step may break it only by taking out, or closing, what belongs to
  somebody else, so the invariant adds who answers for a descriptor
  (`UsersApart`): a thread for the one it has, until it has closed it, the acceptor
  for one it has not yet handed over, and no two of them for the same. Since
  `remove_socket` moves the last entry (`EntryRemoved`), it takes out the right one
  only because each is there once. All of this holds as long as no thread was late
  in reading its descriptor (`clean`).
  `CacheStaysFinite` (`Proxy`): before a thread has linked its page nobody else can
  have a pointer to it, and it has no next (`PagesArePrivate`). So a link may
  overwrite another and lose pages, but a ring through it would have to go on
  from a page that leads nowhere (`NewLink`), whichever pages others append
  meanwhile.
  `AnswersStayRight` (`Proxy`): a browser gets what its thread sends, so the invariant
  (`AnswerInv`) says that the page in a thread's hand has the url the thread has read
  (`PageIsFetched`), that this is the url its browser asked for, and that one
  thread only answers on a socket (`SocketsAreApart`). The last two
  hold as long as no thread was late in reading its socket (`onTime`). That the page is of the
  url's host needs an invariant of its own (`HostInv`): two threads inside `strtok` or between the
  two halves of a lookup are both `crossed` (`ThreadsMeet`), so that one that is not is alone there
  (`AloneInStrtok`) and what the next call has left is its own (`LeftIsRead`); then the host it has is that
  of its url at every step up to the page (`HostIsOwn`, `PagesOfTheirHost`).
  `MembersStayInformed` (`Conference`), for both servers. A member is always in one
  of two states: it has heard all it is owed, or all but the last message of the log,
  which is on its way to it (`EntriesHear`, `MastersHear`). To keep that, the invariant
  says which of the two it is: with threads, the one in the mutex
  sends the last message of the log, to the entries from `i` on
  (`LockIsHeld`, `Ahead`); with select, the `targets` are those left. And nobody may get a
  message twice or miss one because of another connection: a client has one
  connection (`ConnectionsApart`), a thread's `conn` is at the other end of its
  descriptor (`ThreadsOwn`), and one that waits for `accept` or for its place in the
  table has been sent nothing (`NotYetFed`, `WaitersUnfed`). The lemmas `LogGrows`,
  `OwnMessage`, `NextMessage` and `JustJoined` say what a step does to what is owed. For
  the server with threads the proof stands on the invariant of `TableStaysLive`.
  `SnapshotStaysWhole` (`ProcessList`): the walk follows links that change under it.
  The invariant (`PslistInv`) has an order in which the processes started, which is a
  witness of the proof and no variable: the links of the living lead from each to the
  next in that order (`LiveLinks`), and from the cursor, even from one that has ended
  meanwhile, no link passes by a process that lasts (`Reaches`). What comes before the
  cursor is in the snapshot (`WalkIsDone`).

The assumptions are those named in the modules: readers and writers are
different processes, N and the number of slots are positive, sets of threads are
finite, as are the clients of the conference, heights and numbers of children are integers and processes finitely many,
no process of the list is `init_task` and the first ones are different, a line of
the scoreboard's program is an operation with three operands and the miss penalty is a natural
number, `NoBrowser`
is not a browser and `Unparsable` is not a url, a newline is not a letter and the word to find is not empty, files are sequences of bytes, requests are natural numbers, and neither
the alignment nor the number of slots of a batch is zero, the number of history bits is a natural number, the empty word is
not a word of a file, the files have finitely many words, fewer than the largest int, and
a file to sort is a sequence of ints, its split size a natural number; the names and
numbers of contacts are natural numbers, which stand for strings in their order, and `rand` returns natural numbers.
The matrix of a graph has as many rows as columns (an entry of 0 or less is no edge), the two factors of a product are of one
size, and `MaxK`, the largest board, is any natural number. In a knapsack file the weights are positive and the profits
not negative (`FilesAssumption`): one rule divides by the weight, `find_maximum` takes no
value below zero, and the table of Q1-3 has 0 in its first column even where an item weighs nothing.
Integers are unbounded in these proofs: sums in C must stay below `INT_MAX`, and Q1-1 counts its combinations in
an int. For `Dijkstra` only what is stored is bounded: a node whose every walk is as long as `INT_MAX` counts as unreached.

Only model-checked: the liveness properties (`CallsComplete`,
`EveryoneReturns`, `ParentEnds`, `MainEnds`, `ForwardingEnds`), which need fairness and ENABLED, and the
two properties that are expected to be violated. Only proved, and no longer part
of a run, are the types, the exclusion of the pipes and the barrier's critical
sections, and that the pool never has a third list (`TwoListsAtMost`).

## 5. Findings

- `find_mem_list_by_size` loops for ever when the pool has two lists and neither
  has the requested size (run `memmngr_lookup`).
- `barrier1.c` frees the barrier while threads are in it or have not reached it,
  and says that all of them have completed.
- MapReduce's parent may send SIGUSR1 before child 0 has a handler for it; the
  reducer is killed and the result file stays empty, without an error.

- Issued out of order, the scoreboard asks only which registers are busy, and a
  register becomes busy when its writer is issued. An older writer that still waits
  in the queue is not noticed, and a younger instruction reads the register before
  it is written (run `scoreboard_order`).

The proxy and the threaded conference server hand each thread the address of the
acceptor's variable; the proxy may lose a page when two threads append at once,
and since its threads share `strtok` and `gethostbyname` it may fetch a page
from another request's host and keep it. The ring pipe can be unloaded while
processes sleep in it; after a reload they are forgotten. The pipes also have
states outside their specification with more than one reader or writer; they are
listed as hazards.

## 6. Plan

Done: first the programs in which several actors share state (the pipes, MOESI,
the barrier, MapReduce, the memory manager, the word-counting map), then the
servers with their clients, the proxy, the process list and the process tree, the
merge sort, and last the sequential programs and the scoreboard.

Proved: every safety property of the runs and every refinement: what the
programs with several actors promise, that MapReduce, the word-counting map and
the merge sort compute what they should, that the scoreboard keeps the order of the
program, that the branch predictor learns, that the phone directory stays in order,
and that the knapsacks, the shortest paths, Strassen's product and the tiling are right.

What is left is liveness, which this prover cannot do, and the components of the
next section.

## 7. Not modelled

The jprobe exercise (it only logs), CUDA (floating-point geometry), the Android
app (callbacks of a framework without logic between them), the
programming-language exercises (separate small programs), the macros of the memory
manager's interposition, and the text utilities (single-pass input and output).

Within the modelled programs: the text of messages, requests and pages; the
bytes of a line (`test.c:193` writes behind a slot of the ring when a line is
longer); the 51st client of the conference server
(`multi-threaded-confserver.c:33` has 50 places places and does not test); the
second destruction of a class in the ring's `exit_device` and an open while that
runs; what two calls of `strtok` at the very same moment do to each other's
memory, beyond the position they leave, and its writes into frames that are
gone; the ports of the proxy's origins; failing `open`, `read` and `write` calls
of MapReduce, negative numbers typed into the MOESI simulator, the statistics
the word count prints, calls of the memory manager after `mem_mngr_leave`,
rounding in the products of matrices, branch numbers outside of 0 to 9,
malformed lines, a number as a destination and an issue width of 0 in the
scoreboard's input (with a width of 0 it does not end), and more than 100
contacts.
