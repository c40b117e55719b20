# A TLA+ verification of the ChangeFlow Agent

The ChangeFlow Agent is a multi-threaded TCP server that evaluates business
rules for its clients and views, creates, deletes and searches files for them.
The server is written in C++ (`src/src_c`); its client is a Java library
(`src/src/com/gtone/cf`).
This directory holds TLA+ models of the server, the TLC configurations that
check them, and TLAPS proofs about them.

Paths below are relative to `src/src_c`, those of Java classes to
`src/src/com/gtone/cf/rt/connect/impl`. The models follow the build that
`Build/engine.mk` describes: `-D__GNUC__ -D_RUNNER -D_TRACE -D_USE_CTX
-D_ORACLE`, on Linux.

## 1. The system

### Threads

| thread | code | what it does |
|---|---|---|
| main | `Admin/BRMiner.cpp` main | builds everything, then `CMRCSQueue::Run` accepts clients; at the end `PreTerminate`, deletes the log and returns |
| workers | `Admin/MRCSThr.cpp` Run, `Admin/BRStart.cpp` ProcessRequest | take a client from the socket table and serve its requests |
| admin | `Admin/MRADMIN.cpp`, `Admin/BREXListen.cpp` | serves one administrator's connection at a time |
| log | `Admin/BREXLog.cpp` Run | writes log records to files |
| diagnosis | `Admin/BREXDiag.cpp` | never started: `ulDiagIntv` is always 0 |

### Components

**Socket table** (`Admin/MRCSQueu.cpp`, CMRCSQueue). *State*: an array of slots
(`use`: free, waiting, running; `soc`: the descriptor), the cursors `m_pFirst`
and `m_pLast`, the count `m_QueueCount`, the mutex `m_CSect_Q`, the flag
`m_bStop`. *Operations*: pushSocket (listener), popSocket (workers),
CloseChildSoc (workers and main), RemoveAllQueue (main), StopListen (admin and
listener), SocRead and SocWrite (workers). *Hard*: a slot is occupied from
accept to close, so waiting, running and free slots are mixed and the cursors
walk over all of them; the descriptor is closed outside the lock;
RemoveAllQueue closes slots that workers are still serving; a full table stops
the listener. *Correct when*: every accepted client is handed to exactly one
worker, none starves, none reads another's connection, the count is the number
of occupied slots, and no scan runs for ever with the lock held.

**Workers** (`Admin/MRCSThr.cpp`, `Admin/BRStart.cpp`, CCSThread). *State*:
`m_pChildSoc` (the slot served), `m_bUsing` (a request is under way), buffers.
*Operations*: Run, ProcessRequest, MainProcess, ReplyResultSet. *Hard*: a
request can end by break, return or exception; the flags of the manager are read
without a lock; `m_bUsing` is set only after the header has been read.
*Correct when*: the slot is given back once on every path, and `m_bUsing` says
whether a request is under way.

**Manager** (`Admin/MRCSMgr.cpp`, CCSManager, which is also the socket table).
*State*: `m_bTerminate`, `m_AdminRunning`, the lock `m_sectAdmin`, the workers.
*Operations*: NormalTerminate, SelfTerminate, PreTerminate, GetNextRequest,
StartAdminProcess, EndAdminProcess, Diagnose, and reports for administrators.
*Hard*: StartAdminProcess is a polled rendezvous over plain variables with a
give-up after about a second, and giving up terminates the agent. *Correct
when*: a rule change and a request that was under way do not meet, workers are
not held back for ever, and termination completes.

**Administration** (`Admin/MRADMIN.cpp`, `Admin/BREXListen.cpp`). *State*: one
session (`m_pChildSoc`, `m_Rc`, `m_Message`, a buffer). *Operations*: commands
below 100 report (1, 2, 20, 23), set the trace log (3), read a trace (11) or
terminate (99); commands from 100 on (101 deploy rules, 102 deploy programs,
103 delete rules, 105 trace, 106 password) run in an admin section. *Correct
when*: every section that starts ends, on every error path.

**Log** (`Admin/BREXLog.cpp`). *State*: a ring of records with `m_push` and
`m_pop`, the lock `m_LogCSect`. *Operations*: pushMessage (any thread),
WriteMessage (log thread, and main in the destructor). *Hard*: the reader takes
no lock, a full ring is not detected, two threads read at the end. *Correct
when*: the files hold every message once, whole and in order.

**Database agents** (`Admin/MRAgtMgr.cpp`) and **query execution**
(`Runner/MRQryRun.cpp`). *State*: an array of agents (`free`, `ruleId`, the
driver's functions), the position `m_stIdx`, the lock `m_CSectCtx`, which all
databases share. *Operations*: getAgent, freeAgent, CursorOpen, CursorFetch,
CursorClose, ExecCUD. *Hard*: getAgent sleeps with the lock held; freeAgent
takes no lock; a timeout returns -1, which one of two callers ignores. *Correct
when*: an agent is lent to one thread, none is lost, and none that is free is
missed; a cursor that was opened is closed before its agent goes back.

**Rule store and rule loading** (`Runner/MRGBLVAR.cpp`, `Runner/MRLODRUL.cpp`).
*State*: the array of rules sorted by id, the list of rules added later, a
`loaded` letter and the versions of each rule, the program list. *Operations*:
SearchById, getRuleNode, LoadRuleById, RemoveRule, ReloadRuleBody,
SaveStatistics. *Hard*: bodies are loaded by the first request that needs one,
with a double-checked flag; deployment resets a rule in place. The loading
functions themselves are stubs in this repository.

**Branch name index** (`Runner/MRSEARCH.cpp`): an array of rule names and, in
each rule, its position there. *Operations*: AddRuleNodeSearch, SearchByName,
DeleteNode. Only the debugger fills it in this repository. *Correct when*: no
name is there twice, every name is found, positions are right after each shift.

**Rule execution** (`Runner/MRRUNNER.cpp`). *State*: the rule that runs, its rows,
loop counters, the results of the rules it has called. *Operations*: MainProcess
(interpret, aggregate, sort, default result), getRuleResultValue and its kind
(call a rule, or take a kept result), RCLEAR, EXEC. *Hard*: rules call rules,
results are found by a text made of the arguments, and counters are kept by
place. *Correct when*: a call gets a result of the rule it names, for its own
arguments as far as their text tells them from others, and the rows are what the
rule says.

**Interpreters and expressions** (`Runner/MR?RINTR.cpp`, `MREXPRES.cpp`,
`MRCALC.cpp`, `MRARRFN.cpp`, `MRFUNCTN.cpp`, `MRSFUNC.cpp`): conditions, tables
and flows of nodes, with expressions computed by a stack machine while they are
read. *Correct when*: a rule means what its author drew.

**Data list** (`Runner/MRDTLIST.cpp`): the items of a request, the values rules
keep under a name, the results kept, and three memory pools. **Trace**
(`Runner/BRTrace.cpp`): orders to trace a program, added by the admin thread and
consumed by workers.

**File and search requests** (`CFAPI/CFAPI.cpp`, `Library/MTUtil.cpp`). *State*:
the file system, which all workers share, temporary files, the answer's buffer.
*Operations*: ping, view, create, delete, build, and five kinds of search. *Hard*:
every handler is a sequence of system calls on paths that other requests change in
between; answers are longer than the buffer and sent in pieces. *Correct when*:
a view is one state of the file, an answer "true" means it was done, a
listing has each path once, and nothing temporary stays.

**Wire format** (`Library/BRMObj.cpp`, `MTChiSoc.cpp`, `MTTcpCli.cpp`): a 50-byte
header with a length, then fields without names or types; a buffer that keeps
what was there before. **Java client** (`cagent/CFAPI5J.java`,
`CAgentConnector.java`): one connection per call, read with a timeout and closed
with a reset. *Correct when*: what one side writes the other reads, and
every call ends.

**Debugger** (`Debug/`): a Windows library (`_TESTER`) with which a graphical
tool single-steps a rule. *State*: the message `g_dbg_step`, `g_dbg_n1`,
`g_dbg_buf`, `m_bSuspended` of the worker thread, the rules loaded so far.
*Operations*: InitDebug, NextStep, TermDebug (tool), SuspendWork, DbgLoadRule,
Run (worker). *Hard*: two threads hand messages over in plain globals, and the
worker suspends itself after it has announced its step. *Correct when*: each call
returns the next step, whole, and the rule loaded is the one asked for.
**Database drivers** (`DBAgent/`): embedded SQL.

### How the components interact

* listener -> table -> workers: the table is the only hand-over;
* admin -> workers: the flags `m_AdminRunning`, `m_bTerminate`; workers -> admin:
  `m_bUsing`; admin -> listener: `m_bStop`. None is read or written under a lock;
* workers -> database agents: getAgent and freeAgent for each query rule;
* workers, admin -> rule store: shared memory, protected by the admin section;
* every thread -> log: pushMessage;
* rules -> rules: calls on the worker's stack and the list of results of a request;
* workers -> file system: system calls, with no lock among requests;
* clients -> workers: one request and one answer per connection, then a reset.

## 2. The modules

| module | kind | models |
|---|---|---|
| `WaitRoom` | abstract | what the socket table promises: a room of limited capacity, each client called once, bounded overtaking |
| `SocketQueue` | component | the socket table; implements `WaitRoom` |
| `AdminGate` | abstract | what an admin section promises: requests under way are drained, and a worker begins one request in it at most |
| `AgentServer` | composition | main, workers, admin thread and clients around the table; implements `AdminGate` |
| `LogRing` | component | the log ring, its pushers and its two writers |
| `DBAgentPool` | component | getAgent and freeAgent with both procedures that call them |
| `BranchIndex` | operators | the name index: insertion with its bisection, positions, lookup |
| `DebugSession` | composition | a debugger session: the tool, the worker, the rules it loads and their names in `BranchIndex` |
| `RuleValues` | operators | typed values, their texts, the operators on them |
| `Operands` | operators | the results of other rules and the items as operands |
| `ListCompare` | operators | IN, NIN, SUBSET, ARREQUAL and MATCH |
| `DateFunctions` | operators | dates, ages, rounding |
| `GlobalValues` | operators | the values kept under a name |
| `RuleFunctions` | operators | the functions of expressions |
| `Expression` | component | the stack machine: a token is a step |
| `RuleRows` | operators | rows of a result, aggregation, distinct, order |
| `TableCells` | operators | cells of a table and the bisection of a sorted one |
| `RuleText` | operators | the parser: from the text of an expression to its tokens |
| `RuleLoad` | operators | loading: parsed texts become the lines, rows and nodes of a rule |
| `RuleRun` | composition | one run of a rule of any kind, with `Expression` |
| `TableMeaning` | abstract | what tables mean |
| `RuleMeaning`, `FunctionMeaning` | abstract | what expressions, flows and functions mean |
| `RuleWire` | operators | requests and answers byte by byte, both sides |
| `RuleCalls` | component | calls between rules and the results a request keeps |
| `AgentFiles` | component | the file handlers, one system call at a time |
| `FileExchange` | composition | client threads and connections around `AgentFiles` |
| `DirectorySearch` | component | the five searches while the tree changes |
| `AgentServerProofs` | proofs | theorems about `SocketQueue`, and about `AgentServer` on top of them |
| `LogRingProofs` | proofs | theorems about `LogRing` |
| `DBAgentPoolProofs` | proofs | theorems about `DBAgentPool` |
| `DebugSessionProofs` | proofs | theorems about `DebugSession` and the bisection of `BranchIndex` |
| `RuleRunProofs` | proofs | theorems about the operators of `RuleRows` and `TableCells` and the steps of `RuleRun` |
| `RuleCallsProofs` | proofs | theorems about `RuleCalls` |
| `FileExchangeProofs` | proofs | theorems about `FileExchange` with `AgentFiles` |
| `DirectorySearchProofs` | proofs | theorems about `DirectorySearch` |
| `MC*` | model checking | the instances, and in `MCRules` the rules and the properties about them |

### SocketQueue

Each operation holds `m_CSect_Q` for the whole of its work on the table, so it
is one action. The two loops are modelled by what they find: `PushSlot(i)` holds
of the free slot nearest to `m_pLast`, `PopSlot(i)` of the waiting slot the
fewest increments after `m_pFirst`. popSocket's scan from -1 has no such result
when nothing waits: `PopNothing` is then disabled, and the invariant
`ScanTerminates` says this never happens. `soc` is not cleared when a slot is
freed, as in the code.

CloseChildSoc has two halves: closing the descriptor, outside the lock
(`CloseDescriptor` in `AgentServer`), and freeing the slot (`FreeSlot`).

### AgentServer

`proc`, `mainPc`, `workerPc`, `adminPc` say where the threads are; the other
variables have the code's names. Each read of a shared flag is a step.

| thread | actions | code |
|---|---|---|
| main | CheckStop, PollTimeout, Accept, Refuse | `CMRCSQueue::Run` |
| main | RemoveCheck, RemoveClose, RemoveFree, Exit | PreTerminate, RemoveAllQueue, return from main |
| worker | CheckFlags, GetNextRequest, CloseClient, FreeClientSlot | `CCSThread::Run` |
| worker | BeginLoop, Gate, Read, EndRequest | ProcessRequest: loop head, the test of `m_AdminRunning`, SocRead of the header with its three outcomes, the rest of the request with its three outcomes |
| admin | NormalTerminate | command 99 |
| admin | StartAdminProcess, SeenIdle, SelfTerminate, EnterSection, EndAdminProcess | commands from 100 on |
| clients | Connect, Send, HangUp | the environment |

Steps that are merged: the two flags an idle worker tests are read in one step
(the code sleeps between them, which adds no behaviour, because `take` is a
step of its own); reading the header and setting `m_bUsing` are one step (a
worker in `read` is not yet in use, so the window the code leaves open is all of
`gate` and `read`); the poll counter of StartAdminProcess is left out, so that
giving up on a worker in use is possible at every poll. What a request computes
is left out: only how it ends. The administrator's connection is left out:
commands come in any order, one at a time. ConnectLoadDatabase has no return
statement in this build, so whether the command is carried out is open; both ways
lead to EndAdminProcess.

The process may end while clients are connected (Exit), by an exception of the
listener (ListenFails), or by SIGPIPE (BrokenPipe); all state is then reset.

The history variables `early` and `begun` record which requests were under way
when the section was announced and which began after it. `GateOfServer` maps the
threads to `AdminGate`: a section is announced while the administrator's thread
drains the workers (`adminPc`), entered from EnterSection to EndAdminProcess, and a
worker is busy while its request runs.

### LogRing

pushMessage runs under a lock but is read without one, so it is three steps:
`PushGbn`, `PushMsg`, `Publish`. The readers do `++m_pop` without a lock: `Load`,
`Store`, `Wrap`. Messages are numbered in push order, and a record is the pair
of the message its kind and the message its text come from, so a torn record is
one with two different numbers. `file` is what has been written; it is kept only
until the two writers first meet at a record (`overlap`), because the code
promises nothing afterwards. A read outside the ring sets `wild` and ends the
model. The model takes memory accesses in program order.

### DBAgentPool

One database, with the lock it would share with others. `Lock`, `Look`,
`Sleep`, `TimeOut` and `Mark` are getAgent; `ForgetRule` and `FreeAgent` are the
two assignments of freeAgent in their order. Between them lie the calls of the driver,
each of which may take for ever, and each way out of a query is a path of its own:
a cursor that cannot be opened (`CursorOpen`), no more rows, enough rows or a
failed fetch (`CursorFetch`), a record that cannot be allocated (`CreateRecord`);
all but the first lead through `CursorClose`. An insert, update or delete is
`ExecCUD`. It goes on with -1 after a timeout: `ExecNone` sets `wild` and ends
the model. The constructor and initAgent
are stubs in the build; the initial state is that of the earlier version the
repository keeps (`Admin/MRAgtMgr_org.cpp`).

### DebugSession and BranchIndex

Each assignment of SuspendWork is a step of the worker (`SetStep`, `SetNumber`,
`SetText`, `MarkSuspended`, `SuspendThread`) and each statement of NextStep one
of the caller (`CallNextStep` to `Return`). `m_bSuspended` is what the thread
object says, `frozen` what Windows says: ResumeThread has no effect on a thread
that is not frozen yet. Resume's test and assignment of `m_bSuspended` are one
step, because the worker cannot set it in between once it is set. `g_dbg_n2` is
left out. Between two steps the worker needs a rule by id or by name, reports some
other step, or ends. `Load` is DbgLoadRule after it has been resumed: LoadRule
reads whatever file is there, its name goes into the index, and an error on the
way ends the run. The tool is the environment: it answers a LOAD with a file that
fits the message it got (`Answer`), and it stops calling after an end or an error.
The history variables `hasty` and `raced` record its two mistakes: calling before
the worker sleeps, and taking a message that is being written. The half second
InitDebug sleeps, and the tool's slowness, make them rare and are no guarantee.
A session that hangs stutters (`Hangs`). One session is modelled.

In `BranchIndex` names are numbers in strcmp's order. `InsertPosition` is the
bisection with its early exit at `nLast == 0`, and the array is a sequence.

### Rules: from RuleValues to RuleRun

A value is its type and its content. Characters are numbers in strcmp's order, a
DOUBLE is an exact fraction, a number's digits are one character, and so are
the parts of a date: what the code does to texts is said of these. `STR_VALUE_SIZE`
is where a STRING becomes an LSTRING.

`Expression` keeps the code's two stacks. Each token is one step
(`PushOperand`, `Function`, `LeftParenthesis`, `RightParenthesis`,
`CompareOperand`, `Operator`, `EndOfTokens`); AND and OR bind alike and may end the
computation, as written.
`RuleRun` has one action for each stage of MainProcess and of the three
interpreters, named after them; an expression is started and waited for. Functions
yield sets of results, since some depend on the clock or on memory nobody has
written.

`RuleMeaning` says the same things another way: an expression is a tree, a flow a
program of returns, choices and loops; in `TableMeaning` a table is the rows that admit
the values, a cell being a set of values (`Admits`).
Flows that are no such programs (a jump out of a loop) run in the model, and what
they return is left open.
`Written` and `Compile` are what an author would draw for a tree or a program, so
that `MCRules` can draw rules from meanings and compare. `FunctionMeaning` says
of functions what the calendar or the distance to the argument says.

`RuleText` is the scanner and the parser (`MRToken.cpp`, `MRPARSE.cpp`). A text is
a sequence of lexemes, each with a mark that says whether a blank stands before
it; keywords are looked for in the code's order, so that one that begins another
is found where the code finds it. What can fail yields a set of token lists,
empty when it fails. `RuleLoad` is what the debugger's loader (`Debug/BRMLoad.cpp`,
`Runner/MRLODDT.cpp`) makes of the parsed texts; the agent's own loading functions
are stubs in this repository. Every rule of the run Rules is written as a text,
parsed and loaded before it is run, so a slip of the parser shows as a rule that
does not mean what it was drawn from. Texts that the author cannot mean are left
out, see section 6.

Left out: the text of branch and query rules; statistics; the run list, which is
filled and never asked; functions whose arguments are expressions themselves
(theirs are single operands), LEN of fractions, TONUMBER of dates. Func_Extern's
call is commented out in the code.

### RuleCalls

What a rule does is left open: the innermost rule may call any rule in each of
the ways the code has (an expression, the text of a branch or query, a column of a
table, a branch by name), clear results, return or fail. A result is known
by what it came from: the rule, its arguments, and whether it was looked for by them
or by the rule alone (`Source`). `sKey` is the text made of arguments: doubles are
rounded as "%.0f" does, bools have no text, and an argument that is left out
(`NONE`) has no "||" either. A text is a sequence of characters, in which the digits
of a number are one; "|" is a character like others, so texts may contain it. The list shared by all requests (MRSTARES.cpp) is not there: the scope of
every rule is 0 (Debug/BRMLoad.cpp:169), so it is never filled.

### RuleWire

Three classes write and read bytes: the client's MTObjectOut and MTObjectIn, and
the agent's CBRMObj. Each operator is one of their methods; a buffer keeps
what earlier requests have left beyond its length. `BYTE` is the number of values
of a byte, so that lengths of two bytes overflow within reach of TLC.
Its properties are stated in `MCRules`, about requests of all kinds with
right and wrong counts, and about the rows that the rules of the run return.

### AgentFiles and FileExchange

`pc[w]` is the system call worker w comes to next; a handler's local variables
are `mem[w]`. A path names an inode, which lives while a path or an open file
refers to it, as on Linux. Answers are sequences of fields; a file's content
is a sequence of units, each of which says who wrote it. `Touch` and `Refuse` note
which calls a step disturbs: the properties are about calls that nobody
disturbed, or would be about nothing.

A client's call is `Call`, `Connect`, `ReadHeader` (each read asks for the whole
header again, as in the code), `ReadBody`, `ReadEnd`, `Timeout`, and `Return`, which
closes with a reset (SO_LINGER 0). The reset takes its time (`ResetArrives`).
Merged: connecting, the request's way and its reading by the
worker up to the dispatch; a client that waits for a worker is in phase
"connect". The pieces in which a body arrives are not told apart, because
the client puts them together; those of a header are.

### DirectorySearch

A search keeps its directories in a list and reads one after the other.
`ReadEntry` is readdir with stat, `WriteRow` the second stat of get_file_info,
`OpenDirectory` opendir. readdir has a fixed order; an entry made or removed
since the directory was opened may be missing. Every system call may fail. A row is
its path. Then come the temporary files' ways into the answer: `Contents`, or
`MakeZip`, `CopyToZip` and `SendZip` of SCANDIR. The collecting client is `Collect`.

## 3. What the runs check

| run | instance | properties | shows |
|---|---|---|---|
| SocketQueue | 4 slots, 5 descriptors | QueueTypeOK, CountIsExact, ScanTerminates, WaitersAdvance, ImplementsWaitRoom, EveryWaiterServed | the table is sound while slots are closed by those who were handed them, and the round robin starves nobody |
| ServerShutdown | 2 slots, 3 clients, 2 workers, command 99 | SlotOwnership, StreamsPrivate | ownership while serving, and what is left of the count during RemoveAllQueue |
| ServerAdmin | 2 slots, 2 clients, 2 workers, rule changes | OldRequestsDrained, ImplementsAdminGate | what the admin section excludes and what it does not (4,014,535 states) |
| ServerLive | 2 slots, 2 clients, 1 worker, both commands | ShutdownCompletes, AdminSectionEnds, WaitersServed | nothing keeps the agent from going down or the workers back for ever, and accepted clients are served |
| LogRing | 3 records, 4 messages | FileIsFaithful, FlushedAtExit, EveryMessageWritten | when the log is complete, whole and in order, and when a cursor can leave the ring |
| DBAgentPool | 3 threads, 2 agents, 1 rule, 2 sleeps | AgentsPrivate, RoundMissesNone, LockIsReturned | lending is exclusive, agents and cursors come back on every way out of a statement, and so does the lock |
| DebugSession | 4 rules, 3 names, 4 steps, an index of 3 | Lockstep, MessageIsWhole, RightRuleLoaded, IndexConsistent, NextStepReturns | what the handshake guarantees to any caller, and what only to a patient one |
| DebugNames | the same | NamesAreUnique | the duplicate check has gaps, see section 6 |
| Rules | 17,343 rules and requests, each rule given as a text | ExpressionIsTree, FlowIsProgram, TableAnswers, FunctionsAgree, SortIsStable, AggregateAnswers, ReplyIsRows | each rule, parsed, loaded and run step by step, means what it was drawn from, and rows and requests survive the wire |
| RuleCalls | 3 rules, 4 calls | AnswersMatch, RunsOnce | a call gets a result kept for its text, of arguments like its own, and none is computed again without a reason (4,333,030 states) |
| FileExchange | 2 clients, 2 workers, one file two directories deep | ViewIsSnapshot, TakesEffect, FailureHasCause, EveryCallEnds | views, creates and deletes against each other over connections that tear, time out and reset |
| Searches | 5 paths below a root, 3 changes by others | ListingIsExact, PagesTile, TempsAreRemoved | all five searches with failures of every system call |

Each property has a mutant in `PROJECT.json`: an operator with one plausible
slip, in the same module, under which TLC finds the property violated.

**Bounds.** Four slots put free, waiting and running slots in every mixture
around both cursors, and five descriptors keep one in reserve when the table is
full. In the server runs two slots and three clients reach the full table and a
reused descriptor, and two workers both reach each gate together. The log ring has at least 500
records in the code; with three records and four messages it wraps, fills up and is
lapped. Two agents with three threads leave one thread searching while both
agents are out, until it gives up (MaxRounds stands for
CTX_TIMEOUT / INCTIME). Bounds that the code does not have: `MaxMessages`, which
ends the pushes in LogRing; `MaxSteps`, which ends a debugger session (four
steps are enough to fill an index of three names and to be refused a fourth);
`MaxCalls` of RuleCalls and FileExchange; `MaxChanges` of DirectorySearch. In
Rules (173,873 states) the inputs are sets in `MCRules`: trees of up to three operators over every
operator, parentheses and every type, flows of choices, loops, loops in loops and kept values,
rows of numbers, fractions, truth values and texts under every order and aggregation, tables sorted and not, with ranges open at either end and without columns, dates around the ends of
months and leap years, numbers of both signs around halves. `GivenRules` are the
rules the run begins with. A STRING has four
characters with its end (`STR_VALUE_SIZE`), so that LSTRINGs occur; a byte has 8 values, an item 3, a request 4
items and a buffer 78 bytes, so that each limit is met and passed. Four calls reach
a call within a call whose results meet on the way back; of the argument lists of
RuleCalls two or more of each rule have one text (1.2 and 1.4, TRUE and FALSE, a
"|" at the end of one text or at the beginning of the next). In FileExchange each
client makes one call out of its set, so that every handler meets every other; a
file of two units is torn by any interleaving of its pieces. The tree of Searches has an empty
directory, a full one and a file too large for any page; three changes can
remove an entry, make it anew as another kind, and touch its parent. Its root is
not changed by others.

Some properties speak of undisturbed cases only, because the code keeps no
promise in the others: FileIsFaithful and EveryMessageWritten until the log ring is
lapped or its two writers meet, ViewIsSnapshot and TakesEffect of calls that no
other request disturbs, and FailureHasCause counts a directory made at the same time
as a cause. The hazards of `PROJECT.json` name no property for what is excused.

Descriptors are interchangeable, so the server runs without liveness use
symmetry.

**Deadlock** is checked in every run but Rules, RuleCalls and Searches, where a
rule, a request or a search simply ends. The end of the process, the end of all
calls and the two `wild` states stutter explicitly.

**Types.** Each module with variables of many kinds has a `TypeOK`, which holds in
its runs. Only `QueueTypeOK` is a property of a run: the other runs are kept for
properties that more than one step can break.

**Fairness.** The main thread, every worker, and an admin thread inside a
section are weakly fair: they are operating-system threads whose waits are
timed (sleep, select with a timeout), except that SocRead blocks in recv after
the first byte of a header, where the model leaves the worker disabled. A
request under way comes to an end. Clients and administrators owe nothing, and
neither does the database. `WaitersServed` therefore assumes
in its own formula that connected clients hang up in the end, and that admin
sections stop being started.
SocketQueue assumes only that somebody keeps calling popSocket. In LogRing
the log thread is fair. In DebugSession the worker and a call of NextStep under
way are fair; the tool owes nothing, not even the next call. In FileExchange
no step can be repeated and calls are bounded, so weak fairness of the next-state
relation is all that is needed: a thread or a timer that can do something does
it in the end. `EveryCallEnds` then says that no call can get stuck or turn in a
circle while the agent lives.

## 4. What is proved

TLAPS checks the theorems of eight modules, for all values of the constants that
the named assumption of each module allows. Each rests on an inductive
invariant, which TLC has also checked on the instance of the run.
Of the invariants and safety action properties the passing runs check, only four
invariants of `MCRules` have no theorem (see the end of this section).

| component | inductive invariant | theorems |
|---|---|---|
| socket table | `QueueInv` | QueueTypeOK, CountIsExact, ScanTerminates, WaitersAdvance, ImplementsWaitRoom |
| server | `ServerInv` | SlotOwnership, StreamsPrivate, OldRequestsDrained, OneIntruder, ImplementsAdminGate; ScanTerminates and WaitersAdvance in the server |
| log | `LogInv` | FileIsFaithful, FlushedAtExit, the types |
| database agents | `PoolInv` | AgentsPrivate, RoundMissesNone, the marks, the types |
| debugger | `SessionInv`, `IndexInv` | Lockstep, MessageIsWhole, RightRuleLoaded, IndexConsistent, the types |
| rows of a rule | `RunIInv`, `TableIInv` | SortIsStable, AggregateAnswers, TableAnswers |
| calls of rules | `RunInv`, `AnswerInv` | RunsOnce, AnswersMatch |
| file requests | `ExchangeInv` | ViewIsSnapshot, TakesEffect, FailureHasCause |
| searches | `SearchInv`, `PageInv` | ListingIsExact, PagesTile, TempsAreRemoved |

### The socket table

The first part of `AgentServerProofs` proves, for every table size `MaxQueue > 0` and every set of
descriptors (`SocketQueueAssumption`), theorems of `QueueSpec`:

* `QueueTypeCorrect`: `[]QueueTypeOK`;
* `CountCorrect`: `[]CountIsExact`;
* `ScanEnds`: `[]ScanTerminates`;
* `WaitersAlwaysAdvance`: `WaitersAdvance`, the action property that bounds
  overtaking;
* `TableImplementsRoom`: `ImplementsWaitRoom`, the refinement of `WaitRoom`.

All follow from one inductive invariant, `QueueInv` (`QueueInvariance`). It
strengthens the checked invariants by what they need to be inductive: that a
table never popped from (`m_pFirst = -1`) has no running slot, so that a positive
count then means a waiting one; and that occupied slots hold distinct
descriptors, so that the mapping to `WaitRoom`, which names clients by
descriptors, is well defined. The arithmetic of the cursors is in lemmas of its
own: `CursorAdvances` says that moving the cursor to the nearest waiting slot
brings every other waiting slot nearer, whichever side of the wrap they are on.
`TableImplementsRoom` maps each operation to one step of the room (`PushEnters`,
`PopCalls`, `CloseLeaves`) and needs the capacity lemma `RoomLeft`: a free slot
means fewer clients than slots.

### The server

The rest of `AgentServerProofs` proves the safety properties of `AgentServer` and its
refinement of `AdminGate`, for every
number of slots, workers, clients and descriptors (`AgentServerAssumption`).
`ServerInv` (TLC: 924,689 states of ServerShutdown and 4,369,160 of ServerAdmin) says:

* a worker has a slot exactly from popSocket to the end of CloseChildSoc, and no
  two workers have one slot (`SlotAtHand`, `SlotsApart`);
* while main serves, the running slots are those in the workers' hands
  (`OwnedRuns`). RemoveAllQueue breaks this: it frees slots under the workers, who
  free them again. `CountLags` counts those slots by the place `rmIdx` that
  RemoveAllQueue has come to, and gives the bound of `SlotOwnership`;
* waiting and attended slots have open descriptors, all different (`StreamsOpen`):
  a descriptor is closed before its slot is freed, and a new client may get its
  number in between, so the slot that is about to be freed is not among them;
* `OldRequestsSeen` and `IntruderStops` follow StartAdminProcess over the workers:
  those it has passed have no old request, or the agent is to go down; a worker that
  began a request in the section waits for its end.

`ServerImplementsGate` maps each step to a step of `AdminGate` or to a stutter. Most
steps touch nothing the gate sees. What a step of the gate needs comes from the invariant:
that a worker which sets `m_bUsing` in a section has not done so in it before
(`IntruderStops`, whence also `IntrudersAreSingle`), and that StartAdminProcess,
once it has passed all workers, leaves no request that was under way unless the agent
is to go down (`OldRequestsSeen`). The gate is as weak as the code: it does not promise
the section to be free of requests, because it is not (section 6).

The server does not literally implement `QueueSpec`: the table alone assumes that
accept returns no descriptor an occupied slot has, and between the closing of
a descriptor and the freeing of its slot it does. Therefore the scan's end and
the bounded overtaking are proved once more, for the server (`ServerScanEnds`,
`WaitersAdvanceInServer`).

### The log

`LogRingProofs`: for every size of the ring and number of messages
(`LogRingAssumption`). The heart of `LogInv` is `RingHolds`: as long as the ring did
not fill up and the writers did not meet, m_push is ahead of the cursor by
the number of messages that wait, and each of them is whole in its place.
The code computes this number nowhere, and FileIsFaithful is not inductive
without it (TLC: 646,205 states). `LogTypeCorrect` needs no such condition: `CursorIsNear` shows that two
writers racing for the cursor take it at most two records beyond the ring.

### Database agents

`DBAgentPoolProofs`: for every set of threads and number of agents, rounds and
rules (`DBAgentPoolAssumption`). Agents that are not free and the threads that
use one correspond one to one (`BusyIsUsed`), and the agent getAgent has found stays free
until it is marked (`FoundStaysFree`), because one thread at a time searches and
freeAgent, which takes no lock, only ever adds free agents. A cursor is open exactly for a thread that fetches
(`OpenIsFetching`), whatever ends the fetching. `IdleIsAhead`
measures how long ago an agent was looked at: one that was free all the time is
still ahead. `MarkIsRule` relates ruleId, which freeAgent clears before `free`, to the
rule evaluated (TLC: 117,126 states).

### The debugger

`DebugSessionProofs` proves, for every set of rules, names and session length
(`DebugAssumption`):

* `LockstepCorrect`: `[]Lockstep`, however hasty the caller;
* `MessageCorrect`: `[]MessageIsWhole`;
* `LoadCorrect`: `[]RightRuleLoaded`.

Their inductive invariant `SessionInv` follows both program counters. `Turn` is
the heart: a worker that is awake between two steps, or may wake up, implies a
caller that polls with no step set, so a second message never meets an unread one.
`Fields`, `Taken` and `Filed` say which parts of the message, of the caller's copy
and of the file are in place at each counter.

For the name index (`SessionTypeCorrect`, `IndexCorrect`) the bisection of
AddRuleNodeSearch had to be reasoned about first. It is a recursive
function; that it exists, and that it ends with a place inside the
index or refuses the name, is proved for an index of any length by the argument of the least
counterexample (`LeastNumber`), because the library's induction
theorems take an operator as a parameter. `Indexed` then survives the insertion
with its shift of all later positions: every entry's rule has the position of
the entry. `IndexInv` adds the types and the bound on announced steps (TLC:
1,161,461 states).

### The rows of a rule

`RuleRunProofs`: for every rule that is one of the three kinds, whatever its expressions
yield. The operators are proved first, for lists of any length:

* The code's comparisons of two rows, sortCompare and resultCompare, are the order that
  `Precedes` describes without them: the first column that differs decides
  (`SortCompares`, `ResultCompares`). Of each type's values, texts included, `Below` is a strict order
  in which values that neither precede are interchangeable (`ValueOrder`, `ValueBetween`,
  `RowsBetween`); fractions are compared crosswise.
* Sorting: an insertion before the first row that comes later keeps a list
  ordered, with the new row behind those it does not differ from
  (`InsertKeepsOrder`, `SortingOrders`).
* SUM: each row is in the group of one row of the result, whose values outside the group are
  totals of what was merged so far (`MergeGroups`, `SumResultGroups`). DISTINCT: `Kept` says which of
  the first rows are linked so far. MIN and MAX: the row so far is the first of
  those nothing beats (`BestOfMore`).

The loops are recursive functions. That they exist, and have the value the code computes
row by row, is shown by the argument of the least counterexample, as for the
bisection of the debugger's index.

These facts become theorems of `RunSpec` by `RunIInv`: an expression is computed only where
its value is waited for, so that nothing else changes the rows at the step that
sorts or aggregates them. The properties are about rows whose sorted or grouped columns hold
values of one type each (`Comparable`), or are told apart by strcmp (`Legible`). That
is a hypothesis and no invariant, because the code does not see to it: a column of
another rule's rows goes into the result as it is, without conversion
(ConstantPlusOtherRuleResult), and DISTINCT reads raw bytes. Rows that are not comparable
are left open.

### The rows of a table

The last part of `RuleRunProofs` proves `TablesAnswer`: for every table, whatever its
columns, rows, cells, operators and values, each of the three searches takes the
rows that admit the values. Two hypotheses limit it. `IsTable`, a part of the
property itself, says which tables are meant: cells that have values of their
column's type, rows that ascend where the table says it is sorted. `Tabulated`
says that results are constants and no cell asks for a condition, because what an
expression computes is out of reach (below); tables that compute are checked by
TLC only. The argument:

* A cell's comparison is its meaning: `CompareReads` and `CompareMeans` for a text read as a
  value, `OrderAdmits` for constants and ranges, `OperatorPicks` for the operators,
  `CellAdmits` for all of them. NULL and IN compare texts instead of values, so
  `NoDataIsEmpty` and `ReadAlike` ask which values have the same text.
* Bisection: in a table that ascends, the order of the values and the rows falls
  from row to row and is 0 at most once (`RowsFall`, from `CellsAscend`, column by
  column). A window of the search that is halved keeps the row it looks for and gets
  smaller (`HalvedIsNarrower`), so after as many turns as there are rows it is
  empty or that row (`SearchFinds`).
* The rows returned are sequences put together one after the other (`ChainGrows`).

`TableIInv` says of the search row by row that the rows so far are those of the lines before
this one, and that the cells compared so far admit the values; of the search
by halves that nothing has been returned yet, except without breakFlag, where
such a table never comes to its end (section 6) and nothing is claimed.

### Calls of rules

`RuleCallsProofs`: for every set of rules with their arguments and every number of
calls (`CallsAssumption`). What is proved of the list of results, whatever is
unlinked, cleared or added, is which result of a rule comes first (`Leads`).
`RunInv` says that a result that was added stays the first of its
rule until the rule is cleared or met with another key, so a search finds it;
`RulesRunOnce` needs no more.

`CallsAreAnswered` has no condition on the rules or their arguments: texts may
coincide, and the theorem says what that can lead to. `AnswerInv` says that what is kept,
and what each running rule will leave, is kept under the text of what it came from (rules without
data excepted, whose result does not depend on it); so an answer has the text of the
call. What remains is a fact about `sKey`: two plain argument lists (none left out,
no "|" in a text) with one text are alike (`SameTextAlike`). The last "|"
of a text is the end of its last "||" (`LastBar`), because no argument's text has
one; what follows is the text of the last argument, what precedes that of
the others, and so on down to the shorter list (`SameText`, by the argument of the least
counterexample). Two arguments with one text are alike (`OneTextAlike`): "%.0f" moves a number by a half
at most (`RoundedNear`), so two doubles lie at most 1.0 apart. (TLC, `RunInv` and `AnswerInv`: 4,333,030 states.)

The recursive function of DelRuleResultAll is shown to exist in the same way as the bisection.

### File requests

`FileExchangeProofs`: for any clients, workers, paths, file lengths and depth of the
directory (`FilesAssumption`). A call that nobody disturbs has its files for itself.
So `Progress` can say, for every step of a handler, what has been done to them and
what the handler has noted; `Sending` says which fields a view has sent (it sends
them twice); `OnTheWay` says that what the client has read and what is under
way make up what was announced, wherever the bytes are cut; and
`Right` that the announced fields, once they are there, tell the truth about the
files. `ExchangeInv` joins these for all clients (TLC: 236,511
states, with the quantifiers over Nat and Seq replaced by what has been sent).
That a new file has an inode to use (`FreeInode`) is a counting argument: there are more inodes
than paths and workers can hold. TypeOK of the module is a part of it and no
property of its own.

### Searches

`DirectorySearchProofs`: for every tree, order of readdir, matching set and limit
(`SearchAssumption`). `SearchInv` (TLC: 101,743 states) says of every stream what it is past
(`Passed`): no directory is read twice and no row written twice, since both are
behind the streams; what stayed and is passed is settled (`NoneMissed`), and a
directory that has been read was read to its end (`NoneLeft`). `Reached` is what
every set closed under the walk's steps holds, so the last step of `ListingsAreExact`
takes such a set: what lies in directories the walk has read.

`PageInv` is about the directory of a collecting client that nobody
changes: at each place of the stream the entries counted, the rows of earlier
pages and those of this page tile the directory up to there (`Paging`).
PagesTile is stated by the places of entries (`Nth`, `Tiles`) rather than by
a filtered sequence, since the provers know nothing of SelectSeq.

### Only model-checked

* **Liveness** (EveryWaiterServed, ShutdownCompletes, AdminSectionEnds, WaitersServed,
  EveryMessageWritten, LockIsReturned, NextStepReturns, EveryCallEnds): temporal
  reasoning about fairness and ENABLED is beyond the prover's backends.
* **ExpressionIsTree, FlowIsProgram, FunctionsAgree, ReplyIsRows** of the run
  Rules: they say what recursive operators on trees, flows, texts and buffers compute.
  That needs recursive operators, which take the prover its
  main backend, and induction over data, which no backend can instantiate. For the same
  reason **TableAnswers** is only model-checked of tables that compute results or conditions.
* **The finding** NamesAreUnique, which is violated.

## 5. Not modelled

* The rule store, the memory pools and trace: planned, section 7.
* Branch and query rules' texts, statistics, EXTERN (its call is commented out), JSON texts, character
  conversion, commands of the client that the agent does not answer.
* The parsing of DATA.dat and PARM.dat by the debugger; DeleteNode of the name
  index, which only runs in the agent and returns at once there.
* The agent's own rule loading: `Runner/MRLODRUL.cpp:454-944` are stubs here, and
  what loads and parses rules is in the debugger's build (`RuleLoad`, `RuleText`).
* Diagnose, ReplyTimeOut: unreachable, because `ulDiagIntv` is 0.
* Signal handlers: they run after undefined behaviour. They do log, and may lock
  `m_LogCSect` a second time in the thread that holds it.
* The C++ runtime's treatment of the cancelled log thread, whose `catch (...)`
  throws instead of rethrowing.
* Configuration files, thread and lock wrappers: the values are constants, the
  locks are part of the actions.
* Database drivers: generated code and calls into database libraries.

## 6. Observations

Server:

* **A request that fails in the middle leaves its worker in use**
  (`Admin/BRStart.cpp:241`). The exception passes the last line of
  ProcessRequest, `m_bUsing = 0`, and Run does not reset it, although its
  comments (`Admin/MRCSThr.cpp:206-207`) say the reset has moved into
  ProcessRequest. The worker looks used until it takes another client. An admin
  section that starts before then waits for it in vain, and terminates the agent.
* **The admin section does not exclude requests**: one per worker can begin in
  it (`OneIntruder` and `AdminGate` give the exact bound: zero is violated). A request passes the
  test of `m_AdminRunning` before the section is announced and sets `m_bUsing`
  after it has been looked at.
* **A full table ends the agent**: the client that finds no slot stops the
  listener (`Admin/MRCSQueu.cpp:212`), and main then terminates.
* **RemoveAllQueue and a worker can close one slot twice**, so the count ends
  below the number of occupied slots (the last conjuncts of `SlotOwnership` are the bound).
* **A full log ring loses messages without notice**, and two writers at exit can
  leave the ring.
* **The name index accepts duplicates** (run DebugNames, `Runner/MRSEARCH.cpp:56`).
  The message "Duplicate branch name" (line 13) is thrown only for names the
  bisection meets: the second name is appended unseen, and element 0 is not
  compared when the upper end reaches it. A rule loaded by name and then by id is
  in the index twice, or is refused, depending on what came in between.
* **NextStep can hang** when it is called before the worker has suspended itself:
  Resume finds nothing to resume, and the worker then sleeps for good. Without
  `hasty` in `NextStepReturns` the property is violated.
* **NextStep can return a torn message**, because the step is set before the rest;
  without `raced`, `RightRuleLoaded` is violated.
* **A timeout in getAgent** makes an insert, update or delete rule use the
  agent at index -1 (`Runner/MRQryRun.cpp:323`).
* `ConnectLoadDatabase` (`Runner/MRLODRUL.cpp:454`) has no return statement, so an
  admin command fails or not by accident.
* Cancelling the log thread unwinds it through `catch (...)`, which throws a new
  exception (`Admin/BREXLog.cpp:109`).

Rules (in `Runner/`):

* A DOUBLE goes into the text of the arguments as "%.0f" (`MREXPSUB.cpp:533`), a
  BOOL not at all, and "||" joins ambiguously: R(1.4) is answered by what R(1.2)
  returned. Branch and query texts keep their results under no text at all,
  though they run with the caller's arguments (`MRBRINTR.cpp:309`).
  `AnswersMatch` bounds this: a call by plain arguments gets a result for arguments
  that differ in BOOLs, in DOUBLEs by at most 1.0, or in their types where the text is
  the same, and in nothing else.
* The expressions of a CASE (`MRFRINTR.cpp:378`) and of a COND (`MRTRINTR.cpp:771`) are
  built without the interpreter they belong to, so the index of a loop in one
  would be read through a null pointer. `ChoiceValue` and `Cell` compute it; the
  rules of the run have none.
* The loop over a table's rows ends at the number of rows of the rule's first
  version (`MRTRINTR.cpp:211`), whichever version runs. Rules have one version in
  `RuleRun`.
* AND and OR have the same precedence and may end a computation early
  (`ExpressionIsTree` is about expressions that do not mix them side by side). LESS
  compares two LSTRINGs by their addresses.
* Leaving a loop early leaves its counter set; CONTINUE ends a condition rule
  as BREAK does; a CASE with link 0 falls through to an earlier "*".
* DISTINCT compares a DOUBLE's raw bytes as a text; a sorted table without
  breakFlag returns the same row until the memory pool is exhausted; a rule
  without versions adds its empty result twice; two rules of many rows in one
  result line give the first rows only.
* isIncludeList rewrites the constants of the shared rule (`MRARRFN.cpp:211`).
* ROUND(-1.2, 0) is -2 and TRUNC(1.9999, 2) is 2.00; MONTH of two equal
  dates can be -1; ages take two-digit years above 10 as 19xx for every century
  digit from 3 on; makeDate leaves `tm_isdst` unset, so a duration can be one day
  off; MIN of BOOLs is the last, MAX the first; MAX and MIN of a rule called with
  arguments give the initial value.
* MATCH does not try again after a `_` behind `%`, and does not cut blanks as IN
  does; an empty list is a subset of everything in one place and of nothing in
  the other.
* A value kept under a new name goes to place 1, whatever place was asked for.
* The parser decides whether "-" is a sign by the token before it. After an item with
  an index, as in `[11](2) -5`, after IN(...) and BETWEEN(...), that token is
  "(", so a "-" that touches its number is read as the number's sign. A parenthesis
  inside a quoted text ends a function's argument (getParenExpression). A constant that is no
  number is loaded as 0 into a LONG column; a number in a STRING column is
  undefined, and left out of the model.

Wire:

* The name of the program is read twice (`Admin/BRStart.cpp`, MainProcess reads
  it to compare it with the file commands first), so rule requests as CFAPI5J
  writes them are answered "program not found". `RuleWire` therefore models
  requests that have both texts.
* A text of 65,536 bytes or more wraps its length; a text that does not fit in
  the buffer is left out of a "true" answer.
* ReadInt of the client turns every error into 0; its ReadLongString throws on an
  empty text; an empty array is sent as one initial value.

Files and searches:

* **The agent dies** when a file is deleted between the open and the second
  look-up of a view (a null text is logged, `CFAPI/CFAPI.cpp:244`); when a command
  of BUILD prints nothing; and when an answer meets a reset connection, because
  SIGPIPE is handled under OS/390 only. A view writes to its connection once more
  after its answer, when the client may have closed it.
* **The client reads for ever** when the agent dies in the middle of an answer: the end
  of the stream counts as no progress.
* A search whose temporary file cannot be read goes on without its text and closes
  it a second time (`CFAPI/CFAPI.cpp:1013` and `:1031`). `Contents` allows the answer
  "true" without text, or none, as of an agent that has died.
* **A write cut short is answered "true"** (`Library/MTUtil.cpp`, createFile).
* A header that arrives in two pieces takes the beginning of the body with it.
* Two creates in a new directory can fail with "Error creating directory".
* The client casts a JSONObject to String in three search commands, so that a
  search that finds something is reported as failed; searchOnlyFileCollector
  with a filter uses command 27, which has no pages.
* A row limit ends the current directory only, so each directory queued adds up
  to one row; a file above 50,000,000 bytes ends the paging with the rest unread;
  one path removed between its two looks makes the whole listing fail.
* SCANDIR of a directory that is not there answers "true" with an empty file; a
  failure of gzdopen or of send leaves its zip file behind.
* A search has about 103 MB of local variables (`Library/MTUtil.cpp:228`).

## 7. Plan

Done: every module above with its runs, and the theorems of section 4. Next:

1. Proofs: the operators of the wire format that are not recursive (`RuleWire`: a
   field that is written is read as the same field), in a module of their own.
2. `RuleStore`: LoadRuleById, RemoveRule, SearchById, getRuleNode and
   ReloadRuleBody against running requests, composed with the section through
   `AdminGate`.
3. `MemoryPools` of the data list; the trace orders.
