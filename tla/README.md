# Verification of the yecc server library

TLA+ models of the library under `src/` (the "yecc" C++11 library: threads and
locks, configuration variables, logging, fibers), the TLC configurations that
check them on small instances, and TLAPS proofs of what holds for every
instance. Every definition is translated from the code; `PROJECT.json` maps
each one to the lines it stands for. A line reference such as `fiber.cpp:92`
is to `src/src/` for `.cpp` files and to `src/include/` for `.hpp` files.

To check a module: `tlc -workers 2 -config X.cfg M`; to check proofs:
`tlapm MProofs.tla`.

## 1. The system and its parts

| Part | Code | State | Operations | Models |
|---|---|---|---|---|
| Locks and guards | `thread.hpp:19-192` | a pthread lock; the guard's `m_locked` flag | construct, `lock()`, `unlock()`, destroy | `Guards` |
| Thread, Semaphore | `thread.hpp/.cpp` | `m_thread`, `m_id`, `m_name`, `m_semaphore`; thread-local `t_thread`, `t_thread_name` | constructor, `run`, `join`, destructor, `SetName` | `Thread` |
| ConfigVar | `config.hpp:232-311` | `m_val`, `m_cbs`, `m_mutex`; per type a static `key` | `setValue`, `fromString`, `addListener`, `delListener`, `clearListener` | `ConfigVar` |
| Config | `config.hpp:313-382`, `config.cpp` | the map name -> variable and its lock | both `Lookup`s, `LookupBase`, `Visit`, `LoadFromYaml` | `Config`, `ConfigDoc` |
| Logger, LogAppender | `log.cpp:50-162` | level, formatter, list of appenders; the appender's level, formatter and `has_formatter` | `log`, `addAppender`, `delAppender`, `clearAppender`, `setFormatter`, `setLevel` | `Logger` |
| LoggerManager, LogIniter | `log.cpp:441-646` | map name -> logger, root logger; the ConfigVar "logs" | `getLogger`; the listener that rebuilds loggers | `LogConfig` |
| LogFormatter | `log.cpp:201-439` | pattern, items, error flag | `init`, `format` | `LogFormat` |
| FileAppender | `log.cpp:164-199` | stream, `m_last_time` | `log`, `reopen` | `FileAppender` |
| Fiber | `fiber.hpp/.cpp` | context, stack, `m_state`; thread-local `cur_fiber`, `last_s_fiber` | `GetThis`, constructor, `reset`, `swapIn`, `swapOut`, yields, `MainFunc`, destructor | `Fiber`, `Coroutine` |
| Text conversions | `config.hpp:43-223`, `log.cpp:487-587` | none of their own; the value of a ConfigVar | `LexicalCast` both ways, through `fromString` and `toString` | `Convert` |
| Scheduler | `scheduler.hpp/.cpp` | | a stub that does not compile | not modelled |
| Events, levels, macros, utilities | `log.hpp`, `util.cpp`, `macro.hpp`, `singleton.hpp` | immutable records | pure input and output | not modelled |

How they interact. A thread's code calls everything else; fibers run on threads
and may be resumed by another thread than the one that created them. `Config`
holds `ConfigVar`s by name; `LoadFromYaml` turns a document into `fromString`
calls, `setValue` calls listeners back *under the variable's read lock*, and
`Visit` calls its callback *under the registry's read lock*. The logging module
registers one such listener (on "logs"), which calls `getLogger`, `setLevel`,
`setFormatter`, `clearAppender` and `addAppender` while other threads log. A
`Logger` calls its appenders, or the root logger, *under its own mutex*; an
appender may be shared by loggers and has a mutex of its own.

What is hard, and where, is listed with line numbers under "hazards" in
`PROJECT.json`. The recurring patterns are: a lock given back between a test
and the action that relies on it (`config.hpp:280`, `log.cpp:100`,
`log.cpp:185`), a lock of one object that guards state shared by several
(`config.hpp:290`), callbacks under a lock, thread-local variables set by hand
around a context switch, and handles that are not reset after use.

What makes each part correct:

- guards: a writer is alone, the lock is released exactly as often as taken;
- Thread: the handshake of the constructor, one join or detach per thread, no use
  of an object that is gone;
- ConfigVar: iteration is undisturbed, listeners are told of every change;
- Config: one variable per name, loads are applied, no circle of locks;
- conversions: a text is taken as it is written or not at all, and what is saved
  brings the value back;
- Logger: a message meets a stable list of appenders, formatters are inherited
  unless set, calls do not block each other for good;
- LogConfig: loggers are as their definitions say, never a mixture of two;
- LogFormat: each character of a pattern ends up in exactly one item;
- FileAppender: what a fault or a race loses is bounded to its second;
- Fiber: a fiber is a coroutine that goes on where it stopped.

## 2. The modules

Mutants. A definition whose comment begins with "Mutant:" is a plausible bug in
the operation after it; no specification uses it. Each property of a run is
shown to be able to fail by putting one mutant in the place of the operation.

**Guards** (`thread.hpp:29-108`). One lock and one guard per thread, of one of
two kinds; the guards of `Mutex` and `SpinMutex` are write guards. `m_locked` of
the code is `locked`; the pthread calls are `Acquire` and `Release`. Its
variables, initial states and steps are `gvars`, `GInit`, `GNext` and `GSpec`, so
that ThreadProofs can extend it beside `Thread`, the other module of `thread.hpp`.

**ConfigVar**. `setValue` is `SetEnter` (read lock, comparison), `Notify` once
per listener, `SetLeave` (lock given back) and `SetStore` (write lock): the gap
between the last two is a step boundary as it is in the code. A listener in
`Throwing` may leave the loop by `ListenerThrows`. `addListener` is `AddEnter`,
`AddRead`, `AddReturn`: every access to the static `key` is a step, because the
lock held is that of one variable and the counter belongs to the type. History
variables: `told` (the last arguments of each listener) and `handles` (keys
returned and still in use). `torn` collects the types on whose variables two
`addListener` calls have overlapped: from then on their counter, which the lock of
no one variable guards, promises nothing. A reader waits for a writer only, as a glibc rwlock
prefers readers by default; so a stream of readers may starve a writer, which
`MaxOps`, the bound on calls per thread, keeps out of the liveness run. `events`
collects what disturbed a variable since its last undisturbed `setValue` began:
another `setValue` ("overlap"), an `addListener` in its course ("late"), a
listener that threw ("throw"). The two properties about notification name the
events they do not hold under, and `HandleFindsListener` the types that are not
`torn`, so they are checked and proved without any restriction on who calls what.

**Config** with **ConfigDoc**. A thread is in at most one `Visit` or
`LoadFromYaml` (`outer`); within it in a stack of `setValue`s (`set`, the
innermost first), as a listener may set another variable (`ListenerSets`); on top
of that in one `Lookup` (`look`). Each `setValue` of the stack holds its
variable's lock while it notifies, a listener that throws unwinds all of them.
`Sets` says which types' variables the listeners of a type set. `Create` takes
the registry's write lock, the following step inserts, finds, or rejects.
`ConfigDoc` holds the recursive `ListAllMember`, which turns the documents of
`MCConfig` into the lists `LoadFromYaml` goes through. A text converts to a type
if it is one of its values (`Fits`): all that this module takes of `LexicalCast`.
`goal` is what the last load has to leave in each variable; a listener that
throws and a `Visit` that sets a variable take it out.

**Convert**. A variable of one type, loaded from documents and from what
`toString` printed of it. A text stands for what yaml-cpp, which is external,
reads it as: a scalar, plain or quoted, a sequence, a list of pairs, null, or
nothing. That is also how the code treats the parts of a document: it prints them
and has them read again. `Read` and `Write` are the two directions of
`LexicalCast`; `Read` returns no value where the code throws. A type is a
sequence of words, `<<"map", "vector", "int">>`, containers from the outermost
inwards and then a base. The nested instances of a template are the entries of a
function over those words: `Parts` are the texts that each of them converts,
`Reads` what it makes of them, from the last word backwards, and likewise
`Values` and `Writes`. `vector` stands for `list` too, and the ordered containers for the
unordered ones, whose order of printing is left open. `Inserted` and `LastOf` say
what a set and a map make of duplicates. `Formed`, `Means` and `Broken` say
independently what a text of a type is, what value it denotes, and that an item
in it is none. `Formed` asks of a definition's `level` that it names one and of
its `formatter` that it is a plain scalar: of a list, the code throws. `Keeps` are
the types that `RoundTrip` is about: integers and strings, containers of
integers, vectors of plain strings. A definition is not among them, as its
appenders are printed as scalars.

**Logger**. A logger's mutex is held over several steps where the code reads
something it does not protect (levels, formatters of appenders); an appender's
own mutex is only held inside single steps. `outer` in a call is the logger
whose mutex is held while the root logger works. `own` is a history variable:
the formatter last given to an appender by `setFormatter(string)`. Two more say
of which appenders the documents are wrong: `raced` has those that were given one
while a logger's call had asked `HasFormatter()` and had still to set (`ToBeSet`),
`moved` those without one of their own that were added to a logger although
another had given them its formatter, or was about to. What an appender writes and
its own level test (`log.cpp:173`, `log.cpp:183`) are left out: `LogAppend` is the
walk over the list. `MCLogger` has the symmetry of the configuring threads for TLC
and the properties without the exceptions, which do not hold.

**LogConfig** extends `Logger`: each call the listener makes on a logger *is*
the action of `Logger`, joined with the listener's own program counter, while
the writers go on with `LStep`. `conf` is the value of the variable "logs".
What is taken of `setValue` is that the listener runs before the store. `todo`
is the set of definitions the listener's loop has still to come to; it takes them
in the order of their names (`Rank`, `First`), as `std::set` does.

**LogFormat**. One step per round of the scanning loop, indices counted from 1.
What is printed is a sequence of characters and of names of fields, which
`FieldsAssumption` keeps apart: so `Letters` can say what of it is text, and
`TextPrinted` that this is `Texts`, the texts of the pattern and nothing else.

**FileAppender**. The reading of the clock, the test of `m_last_time`, its
setting, `reopen()` and the write are separate steps. A message is the second
it was logged in; a buffer holds `Buffer` messages. The stream and the file
system are external and do what the code relies on: `close()` writes out, `open()`
fails on a stream that is open. `raced` collects the seconds in which a thread
passed the test while another's `reopen()` was still to come. `choked` says that a
write to the open file failed in this process: the stream is bad and open, so
`reopen()` neither closes nor opens it again; every second from then on counts as
one of a fault (`faulty`).

**Thread**. The object's life (`obj`) and the thread's (`run`, `kernel`) are
kept apart. `sem_wait` and `pthread_create` may fail, and `pthread_join` of a thread
that has been released or that another owner is joining. `stray` records what the
started thread did to its object after that was destroyed: `run` itself, or
`SetName` in a callback, through the thread-local `t_thread` that is never reset.

**Fiber**. What the program believes (`cur`, `state`) is kept apart from what
happens (`on`, the stack a thread executes on, and `saved`, the stack each
`m_ctx` leads back to). `Misuse` names calls that the code lets a program make and
the tests never make: `swapIn` from inside a fiber ("nested"), a yield of the main
fiber ("mainyield"), a fiber that drops its last pointer ("dropself"), `swapIn` or
`reset` of a fiber that says it stopped before its `swapOut` has saved it ("early"),
and `swapIn` of one that has ended ("ended"). Without them the guards of `SwapIn`
and `Reset` ask more than `fiber.cpp:73` and `fiber.cpp:88` do: that is the use of
fibers the run and the theorems are about. After a `swapIn` that resumes nothing
that can go on (`Resumed`) the model does not follow the thread any further. **Coroutine**
is the abstract specification: control is with a thread's own code or with one
coroutine. `Fiber` implements it under `active <- on` and `Status`, which reads
a coroutine's progress off `alive`, `on` and `state`.

Abstracted everywhere: formatting and wording of output, memory sizes, ids and
`g_fiber_count`; the library's own log messages.

## 3. The runs

| Run | Instance | States | Shows |
|---|---|---|---|
| `guards` | 4 threads, both kinds | 364 | `Exclusion`, `LockAccounted` |
| `configvar` | 3 threads, of which 2 set and add and 1 removes, 2 variables of one type, 2 values, 2 listeners (1 throws), 2 keys, 2 calls each; fair | 311,092 | `TypeOK`, `HandleFindsListener`, `ListenersUpToDate`, `IterationStable`, `ChangeIsAnnounced`, `CallsReturn` |
| `thread` | 2 owners, 2 objects, 2 names, 2 joins of each; fair | 13,561 | `TypeOK`, `HandshakeDone`, `ThreadReleased`, `NoUseAfterFree`, `CallsReturn` |
| `thread_drop_joined` | one owner that joins and then drops | | violates `HandleUsable` |
| `fiber` | 2 threads, 3 fibers, no misuse; fair | 32,323 | `TypeOK`, `CurIsRunning`, `ContextsInPlace`, `StackOutlivesUse`, `DestructorAsserts`, `ImplementsCoroutines`, `ControlReturns` |
| `logger` | 1 writer, 2 configurers, root and one logger, 2 appenders, all methods, lists up to 2; symmetry of the configurers | 3,358,112 | `SomeCallGoesOn`, `DeliveryStable`, `FormatterFollows`, `OwnFormatterKept` |
| `logconfig` | 1 writer, 1 loader, 2 names (one is "root"), 2 definitions | 1,415,903 | `RootUntouched`, `NoMixture`, `AppliedUpToUnchanged` |
| `logconfig_unchanged` | the same without the writer | | violates `ConfApplied` |
| `logformat` | all patterns up to 6 of 5 characters | 168,842 | `SubstrInRange`, `ParseCorrect`, `TextPrinted` |
| `fileappender` | 2 threads, 3 messages each, 4 seconds; file deleted, not creatable, disk full, crash | 2,344,406 | `LossBounded`, `ReopenRecovers` |
| `config` | 2 threads, one may load; 3 names (one invalid), 2 types, 3 documents, 2 calls each; listeners look up, throw, and those of maps set integers; fair | 175,308 | `OneVarPerName`, `VisitStable`, `LoadApplied`, `CallsReturn` |
| `convert` | 9 types, 3 of them with containers or definitions inside; every list of up to 2 items, every map of 2 entries over 2 keys, of items that fit or do not; 2 saves | 36,745 | `ReadsAsWritten`, `RoundTrip`, `NoHalfDocument` |

Why the bounds are enough to be of interest. Every race in this code is between
two calls, the third thread is there to see the effect of one race in another
call. Two listener keys suffice for a key to be given twice, and two variables of
one type for their shared counter to be contended. Two configuring threads are what
the gap between `HasFormatter()` and `setFormatter` takes. Two joins let an owner
join a thread that has been joined, and drop it then. Two names let a
load add one logger, change another and delete a third state; a name "root"
tests the root logger's separation. A pattern of six characters holds a code
with a detail, text before and after, and every malformed ending. Four seconds
let a fault, its repair and a later second follow each other twice. Two items
are a duplicate, or one that converts before one that does not; two saves are
one of a value that was read back from a save. `MaxPrints` is needed because a
string inside a container gains a level of quotes with each save that is read
back, without end. Bounds on counters are the constants named `Max...`; they
appear in guards only.

Deadlock is checked in `guards`, `logconfig` and `convert`, where there is
always something to do. In the other runs the system may stop, when all calls
allowed are made; "nobody waits for good" is then stated as a property
(`SomeCallGoesOn`, `CallsReturn`, `ControlReturns`).

Fairness. `FairSpec` assumes weak fairness of the steps *inside* calls, per
thread: the operating system runs every thread that can run. Nobody is assumed
to start a call. In `Thread`, callbacks are assumed to return, in `Fiber` to
yield or to end; both are needed, as a callback that never ends never gives
control back.

### Where the code and its documents disagree

Two of these are runs of the project; the others can be reproduced with the cfg
named, and each names the property TLC finds violated. In most of them the passing
run has the same behaviour in it, and its property says which threads, appenders,
types or seconds are excepted and why; the cfg checks the property without the
exception (`Always...`, `NoStray`). Only the cfgs of `Fiber` have calls that its run
does not make.

| cfg (module) | Property | What happens | Said otherwise by |
|---|---|---|---|
| `Thread_drop_joined` (Thread) | `HandleUsable` | the destructor detaches a thread that `join()` has joined, as `m_thread` is never reset | `thread.cpp:49` |
| `LogConfig_unchanged` (MCLogConfig) | `ConfApplied` | `return` at the first unchanged definition (`log.cpp:612`): later changes and all deletions are lost | `ReadMe.md:196` |
| `ConfigVar_two_setters` (MCConfigVar) | `AlwaysUpToDate` | two setters announce in one order and store in the other | `ReadMe.md:186` |
| `ConfigVar_late_listener` (MCConfigVar) | `AlwaysAnnounced` | a listener added between notification and store is not told | `ReadMe.md:186` |
| `ConfigVar_same_type` (MCConfigVar) | `AlwaysFound` | two variables of one type race on the static key; one listener replaces another | `config.hpp:286` |
| `Convert_nested` (MCConvert) | `RoundTripNested` | an item that is a container or a definition is printed as a scalar: read again, it is empty or does not convert | `ReadMe.md:139` |
| `Fiber_nested` (Fiber) | `CurIsRunning` | `swapIn` inside a fiber saves that fiber in the main fiber's context | `fiber.cpp:11` |
| `Fiber_main_yield` (Fiber) | `DestructorAsserts` | a yield in the main fiber leaves it HOLD or READY; its destructor asserts EXEC | `fiber.cpp:64` |
| `Fiber_drop_self` (Fiber) | `StackOutlivesUse` | the last pointer is dropped while the callback runs: `MainFunc` frees the stack it runs on | `fiber.cpp:156-157` |
| `Logger_add_again` (MCLogger) | `AlwaysFollows` | an appender that was in another logger keeps that one's formatter | `ReadMe.md:201` |
| `Logger_own_format` (MCLogger) | `AlwaysOwn` | `setFormatter(string)` between `HasFormatter()` and `setFormatter` is overwritten | `log.cpp:152` |
| `LogFormat_time` (LogFormat) | `DocumentedCodesPrint` | `%d` without braces gets an empty `strftime` format and prints nothing | `ReadMe.md:51` |
| `FileAppender_race` (FileAppender) | `FileKeptOpen` | a second thread writes before the first has opened the file | `log.cpp:185` |
| `FileAppender_full` (FileAppender) | `AlwaysRecovers` | after a failed write `reopen()` does not close, so `open()` fails for good | `log.cpp:185` |

Three cfgs show hazards that no document speaks of. In `Thread_stray` (Thread,
`NoStray`) a callback that outlives its object renames its thread and writes to
the destroyed `m_name` (`thread.cpp:72`), or a constructor whose wait is interrupted
throws under a thread that still initialises itself. In `Fiber_early` (Fiber,
`TypeOK` and `StacksExclusive`) a fiber is swapped in by a thread that has seen
HOLD or READY before the fiber's own thread has saved it (`fiber.cpp:125`). In
`Fiber_ended` (Fiber, `ControlReturns`) a fiber that has ended is swapped in, runs
off the end of `MainFunc`, and control never comes back.

Two more cfgs, `Config_own_variable` and `Config_each_other` (MCConfig,
`CallsReturn`), show what nothing in the repository rules out or promises: a
listener that sets its own variable waits for a lock its own thread holds, and
listeners that set each other's variables close a circle, in one thread or two.
For this reason the listeners of the `config` run set variables in one direction.

Two cfgs show why a run and a theorem have one thread that loads. In
`LogConfig_two_loaders` (MCLogConfig, `NoMixture` and, without that,
`AppliedUpToUnchanged`) two listeners rebuild one logger in turns, as the read
lock lets two `setValue`s notify at once. In `Config_two_loaders` (MCConfig,
`LoadApplied`) a second document's values stand where the first one's should. No
document promises anything of such loads.

Also left out of the `config` run: `Visit` callbacks that set a variable
together with listeners that create one. TLC finds the circle at once: the
listener waits for the registry's write lock while its own `Visit` holds the
read lock. No document promises that this combination works.

## 4. What is proved

TLAPS proves the following for every value of the constants that satisfies the
assumptions of the module and of the theorem; sets of threads, owners, fibers
and values may be of any size. Each module of proofs extends the module it is
about, so a proof and a run speak of the same definitions.

| Module | Theorem | Of | Assuming |
|---|---|---|---|
| ConfigVarProofs | `TypeCorrect`, `LockCorrect` | `TypeOK`, the lock records who is inside | |
| | `LoopUndisturbed` | `IterationStable` | |
| | `HandlesValid` | `HandleFindsListener` | |
| | `ChangesAnnounced` | `ChangeIsAnnounced` | |
| | `MirrorsUpToDate` | `ListenersUpToDate` | |
| ConfigProofs | `NamesUnique` | `OneVarPerName` | |
| | `VisitsUndisturbed` | `VisitStable` | |
| | `LoadsApplied` | `LoadApplied` | one thread loads |
| ConvertProofs | `NothingByHalves` | `NoHalfDocument` | |
| | `TakenAsWritten` | `ReadsAsWritten` | |
| | `PrintedComesBack` | `RoundTrip` | |
| LoggerProofs | `NoDeadlock` | `SomeCallGoesOn` | |
| | `ListsStable` | `DeliveryStable` | |
| | `OwnStays` | `OwnFormatterKept` | |
| | `Follows` | `FormatterFollows` | |
| | `RootStays` | `RootUntouched` (LogConfig) | |
| | `NeverMixed`, `AppliedUpTo` | `NoMixture`, `AppliedUpToUnchanged` (LogConfig) | one thread loads |
| LogFormatProofs | `IndicesInRange` | `SubstrInRange` | |
| | `CleanParsed`, `OnlyTextsPrinted` | `ParseCorrect`, `TextPrinted` | |
| FileAppenderProofs | `TypeCorrect` | `TypeOK` | |
| | `ReopenAlwaysRecovers`, `LossesAccounted` | `ReopenRecovers`, `LossBounded` | |
| ThreadProofs | `TypeCorrect`, `HandshakeHolds`, `ObjectOutlivesRun` | `TypeOK`, `HandshakeDone`, `NoUseAfterFree` | |
| | `NothingLeftBehind` | `ThreadReleased` | |
| | `GuardTypes`, `WriterAlone`, `LockBalanced` (Guards) | `GTypeOK`, `Exclusion`, `LockAccounted` | finitely many threads |
| FiberProofs | `TypeCorrect`, `CurCorrect`, `ContextsCorrect`, `StacksAlive` | `TypeOK`, `CurIsRunning`, `ContextsInPlace`, `StackOutlivesUse` | `Misuse = {}` |
| | `DestructorsHold` | `DestructorAsserts` | `Misuse = {}` |
| | `FibersAreCoroutines` | `ImplementsCoroutines` | `Misuse = {}` |

The assumptions of the theorems are not conveniences. Without each of them the
property is false, and a cfg of section 3 has the counterexample:
`LogConfig_two_loaders`, `Config_two_loaders` and the five of `Fiber`. Nor are the
exceptions that properties make by a history variable: `torn` in
`HandleFindsListener` (`ConfigVar_same_type`), `raced` in `OwnFormatterKept`
(`Logger_own_format`), `moved` in `FormatterFollows` (`Logger_add_again`), `choked` in
`ReopenRecovers` (`FileAppender_full`), "name" and "failed" in `NoUseAfterFree`
(`Thread_stray`), and the `events` in `ChangeIsAnnounced` and `ListenersUpToDate`:
`ConfigVar_late_listener` and `ConfigVar_two_setters`. (A listener that throws keeps what it was told, and
the variable the old value.)

*Guards* (in ThreadProofs). The invariant is `GTypeOK`, `Exclusion`, `LockAccounted` and
`LockedInScope`. `LockAccounted` counts the guards that are locked; that nobody
is inside when a writer gets in follows from the count only because a locked
guard is in scope and therefore counted. Steps change the count by one
(`OneMore`, `OneLess`, from the theorems about finite sets).

*ConfigVar.* `LockInv` ties the lock to the threads' positions: the readers are
the threads in the loop of `setValue`, the writer the one in `addListener`. From
it `IterationStable` follows step by step, as every step that changes a value or
a map of listeners needs the write lock. `KeyInv` says that the keys handed out
lie below the counter, and that an
`addListener` under way stores under the counter itself, for a type that is not
`torn`; it survives because there nobody else of the type is between the same two
accesses (`SoleAdder`, by the lemma `AddersAlone`). `SoleSetter` and
`OverlapSeen` say that two threads are in `setValue` of one variable only if
"overlap" is recorded. With them, `AnnounceInv` says of a `setValue` under way
that each listener is still to be called, or has been told of this very change,
or was added late; and `MirrorInv` that the listeners know the value once it is
stored.

*Config.* `LockInv` says who holds the registry's lock: the threads inside
`Visit` for reading, the one that inserts for writing. So what `Create` found is
still so when it inserts (`FoundInv`), which is what makes names unique; and
nobody inserts under a `Visit`. The proofs cover every nesting of callbacks, the
ones the run leaves out included.

`LoadApplied` is about a load that has ended; the invariant follows it on its
way. `goal` is what the document has to leave in each variable, and `GoalInv` says
that it is at any moment what the rest of the document makes of the value the
variable is about to have (`After`). That is the value the outermost `setValue` of
the loader's stack is going to store (`Bottom`), or the variable's own if that
call is on another variable. A listener that sets a further variable takes its
goal out. So each step either moves a member from the document to the stack, or
stores it, and the goal stays. `After` picks the last member that counts; that
there is one is `GreatestOf`, from the same theorem as `LeastOf` below. `Typed`
adds that the calls on the stacks are on variables that exist.

*Convert.* The module assumes what its inputs are: a type ends in its base
(`TypesAssumption`), the items of a text are a finite list (`DocsAssumption`), and
a default is a value of its type (`DefaultAssumption`). Types may be nested to
any depth, texts and values be of any size. What would be an induction over the
depth of a type goes by the word at which it fails: what passes from each word to
the one before it reaches the first (`Outwards`), as the greatest word without it
would have a neighbour without it; `Inwards` is the other direction. The equations of the
functions over the words hold by the same argument (`ReadsDef`, `WritesDef`, ...).

- `NothingByHalves`: a broken part returns no value (`BrokenBaseReads`), and so
  does every text around it (`ThrownThrough`), out to the document.
- `TakenAsWritten`: a part that is formed converts, and to what it means, if its
  items do (`ItemsMean`); so does the document (`FormedRead`). The inductive
  invariant is `LastRead`: if the last text converts, the value is what it was
  read as. That text may be one that `toString` printed.
- `PrintedComesBack`: reading a printed vector gives the vector back, as
  its items are printed in order. A set or a map is printed in an order that the
  code leaves open; any of them has each element once (`SetInOrder`, from the
  library's theorem about injections between sets of one size), so what is
  inserted is the set. The invariant `Restores` says so of `was` and `saved`, and
  that the variable's value is one that can be printed, whatever was loaded.

`ReadsAsWritten` and `RoundTrip` were false in their first form, in cases that the
run's documents did not have, and the proof attempts failed there: a definition
with a list for its `formatter` was "formed" but throws, and a bare definition was
said to survive printing, which loses its appenders.

*Logger.* `LockInv` says which mutexes a call holds: that of the logger it works
on, and that of the logger whose message it passes to the root logger. A thread
that waits for a mutex waits for a call that holds it; only a call on another
logger than the root holds one while it waits, and what it waits for is the
root's, whose holder waits for nothing. `OwnStays` needs that between
`HasFormatter()` and `setFormatter` nobody gives the appender a formatter of its
own, or that this puts the appender into `raced` (`OwnInv`). `FollowInv` for
`Follows` goes through `setFormatter` in its course: the appenders the loop has
passed have the new formatter, and an appender without a formatter of its own that
was not `moved` (`Spared` are the others) is in one list only and added by one call
at a time, so that what one logger does to it is no other's business. By `ListKeptFor`
the list that a call works on is changed by that call alone, whatever other threads
configure.

*LogConfig.* Its proofs are in LoggerProofs too, as its steps are those of
`Logger`, whose lemmas they use. `RootInv` says that no logger in `m_loggers`, no
call of the listener and no list of another logger is the root logger or has its
appender; it holds for any number of loaders. For one loader, four invariants
describe a load as it goes. `AppInv`: lists have no appender in common, and the
one that was just built is in none. `WorkInv`: what the logger at hand has of
its definition so far, down to the appender between its making and its joining
the list. `DoneInv`: the definitions that are no longer in `todo` are carried
over, and stay so as nobody else touches their loggers and appenders; after an
early `return`, those up to the first unchanged one. `ListInv`: every list is
empty, that of a definition, or the one at hand. The writers go on meanwhile, in
any number.

*LogFormat.* `RangeInv` bounds the two indices of the scanner, the second by the
first plus one: after "%%" it runs ahead. `LeastOf`, that a set of numbers has a
least one, is taken from the library's theorem that strict inclusion of finite
sets is well-founded, so the closing brace the scanner finds is in the pattern.
For `CleanParsed` the invariant is `CleanInv`: the entries of `parse_tab`, spelled
again, are what lies in front of `last_idx`, what lies between `last_idx` and the
loop's index has no '%' in it, and the last entry is a code, so that the text to
come is as long as it can be (`Spells`, `Ahead`). `OnlyTextsPrinted` needs what
`FlattenSeq` makes of a sequence of sequences, which the library defines by
recursion over its length: that it is a concatenation, piece by piece
(`FlattenCat`, `FlattenOne`), is proved by the least length at which it would not
be.

*FileAppender.* `StreamInv` says that a stream that is open is good, or has choked
and then this second is one of a fault. `LossInv`
follows a message: the file is ready for the second `m_last_time` unless a
`reopen()` is still to come (`OpenInv`), it is ready for every message about to
be written (`WriteInv`) and for those in the buffer (`BufInv`), or that message's
second is accounted for by a fault or a race.

*Thread.* None of the properties is inductive. `Handshake` brings in the
semaphore: while the new thread has not posted, the count is zero and the object
is at most half built, so a constructor that gets past `wait` finds everything
set. `Owned` says that an owner inside a constructor or destructor is alone with
its object. `Lifetimes` relates the object's life to the thread's: a detached thread
is one whose object is gone, one that has ended under it is released, and only
`SetName` comes after the destructor.

*Fiber.* `InPlace` describes the thread-local variables: a thread executes on its
own stack or on that of a fiber the program holds, `cur_fiber` is that fiber, and
`last_s_fiber` the thread's own main fiber. With `ContextsInPlace` this gives
where every `swapcontext` goes. `InStep` and `SelfHeld` (a fiber suspended inside
its callback is held by `MainFunc`) are needed for destruction, and for the
refinement: `Drop` deletes a coroutine only when it is new or done. Each step of
`Fiber` is then shown to be the step of `Coroutine` of the same meaning, or none.

Two habits in the modules guard against what tlapm 1.4.5 gets wrong, and must be
kept: it takes two `CASE ... OTHER` expressions for equal too easily, so `Status`
is written with `IF`; and it reads `EXCEPT` at two indices as if they differed, so
`SwapContext`, where they might be equal, defines the function anew. The
proofs were tried against the safety mutants of their modules: with a mutant in
the place of the operation a step fails (the first step for `Drop` needs `BY SMT`,
as Zenon is wrong about the nested set difference there).

Only model-checked: liveness (`CallsReturn`, `ControlReturns`), as the provers
know neither fairness nor ENABLED. Every other property of a passing run is a
theorem. Nothing is proved about `ListAllMember` of `ConfigDoc`, the one operator
that is recursive: it builds the documents of `MCConfig`, and the theorems about
`Config` hold for any list of members it may return. The library's induction
theorems cannot be used here, as they take an operator; what holds of `Without`,
of `FlattenSeq`, of the last member of a document and of the words of a type is
proved by the least or the greatest counterexample instead.

## 5. What is not modelled, and what could come next

Not modelled:

- **Scheduler.** A stub that does not compile, though the library target lists
  it: two templates `schedule` of one signature, a void `scheduleNoBlock` whose
  result is used, a member function bound by its bare name. `start`, `stop` and
  `run` are empty. There is no behaviour to translate.
- **Events, levels, macros, utilities.** Records that do not change, tables of
  strings, backtraces; an assertion is modelled where it is used.
- **`ToYamlStr`** of loggers and appenders copies their fields into a definition
  and prints it, as `Write` does; nothing reads the text.
- **Output of the format items** but for the empty `strftime` format.
- **What an appender does with a message**: its level test and its output. The
  models of `Logger` and `FileAppender` are not composed.
- **A yield seen by another thread before the context is saved**
  (`fiber.cpp:125`): `Fiber_early` has it, the run does not. It takes a scheduler
  that looks at the state of fibers of other threads.

What could come next:

1. A composition of `ConfigVar` and `LogConfig`: the listener of "logs" under
   several loaders, with `LogConfig`'s view of `setValue` as the abstract
   specification that `ConfigVar` implements. The product of the two is beyond
   the time a run may take; it needs a smaller `Logger`.
2. `Fiber` with a scheduler, once there is one.
3. `ToYamlStr` and the definitions of loggers in `Convert`, once they are printed
   in a form that can be read again.
