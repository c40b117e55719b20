---------------------------- MODULE AgentServer ----------------------------
(***************************************************************************)
(* The threads of the agent and the flags they share:                      *)
(*                                                                         *)
(*   main      CMRCSQueue::Run accepts clients into the socket table, then *)
(*             CCSManager::PreTerminate empties it and main returns;       *)
(*   workers   CCSThread::Run takes a slot and serves its client in        *)
(*             ProcessRequest until the client leaves or a request fails;  *)
(*   admin     CMRAdmin serves one administrator at a time; a command that *)
(*             changes the rules runs between StartAdminProcess and        *)
(*             EndAdminProcess, which hold the workers back by flags.      *)
(*                                                                         *)
(* The flags m_bStop, m_bTerminate, m_AdminRunning and m_bUsing are plain  *)
(* variables read and written without a lock, so every read of one is a    *)
(* step of its own.  The clients are the environment.                      *)
(***************************************************************************)
EXTENDS SocketQueue

CONSTANTS
  NoWThreads,   (* m_ulNoWThreads, the number of worker threads             *)
  Commands      (* what administrators ask for: "terminate" is command 99,  *)
                (*   "change" one of the commands from 100 on               *)

ASSUME AgentServerAssumption ==
  /\ NoWThreads \in Nat \ {0}
  /\ Commands \subseteq {"terminate", "change"}

Workers == 0 .. NoWThreads - 1

(* The clients are named by their descriptors. *)
Clients == Sockets

VARIABLES
  proc,            (* "up", "exited" (main returned) or "killed" (SIGPIPE)  *)
  m_bStop,         (* CMRCSQueue::m_bStop: the listener shall stop          *)
  m_bTerminate,    (* CCSManager::m_bTerminate: the workers shall stop      *)
  m_AdminRunning,  (* an admin section has been announced to the workers    *)
  mainPc,          (* where main is, and the slot RemoveAllQueue is at      *)
  rmIdx,
  workerPc,        (* where each worker is                                  *)
  m_pChildSoc,     (* the slot each worker serves, -1 for none              *)
  m_bUsing,        (* what CCSThread::IsUsing answers                       *)
  adminPc,         (* where the admin thread is, and the worker it waits    *)
  adminIdx,        (*   for in StartAdminProcess                            *)
  peer,            (* the client's side of each connection                  *)
  inbox,           (* what of a request header has arrived for the agent    *)
  early,           (* history: workers whose request was under way when the *)
                   (*   admin section was announced, and still is           *)
  begun            (* history: requests each worker has begun since then    *)

flagVars   == <<m_bStop, m_bTerminate, m_AdminRunning>>
mainVars   == <<mainPc, rmIdx>>
workerVars == <<workerPc, m_pChildSoc, m_bUsing>>
adminVars  == <<adminPc, adminIdx>>
clientVars == <<peer, inbox>>
histVars   == <<early, begun>>
vars == <<queueVars, proc, flagVars, mainVars, workerVars, adminVars, clientVars, histVars>>

MainPcs   == {"check", "poll", "remove", "rmclose", "rmfree"}
WorkerPcs == {"idle", "take", "top", "gate", "read", "work", "close", "free", "done"}
AdminPcs  == {"ready", "drain", "section"}

TypeOK ==
  /\ QueueTypeOK
  /\ proc \in {"up", "exited", "killed"}
  /\ m_bStop \in BOOLEAN /\ m_bTerminate \in BOOLEAN /\ m_AdminRunning \in BOOLEAN
  /\ mainPc \in MainPcs /\ rmIdx \in 0 .. MaxQueue
  /\ workerPc \in [Workers -> WorkerPcs]
  /\ m_pChildSoc \in [Workers -> Slots \cup {-1}]
  /\ m_bUsing \in [Workers -> BOOLEAN]
  /\ adminPc \in AdminPcs /\ adminIdx \in 0 .. NoWThreads
  /\ peer \in [Clients -> {"out", "backlog", "open", "gone"}]
  /\ inbox \in [Clients -> {"empty", "part", "full"}]
  /\ early \in SUBSET Workers
  /\ begun \in [Workers -> Nat]

Init ==
  /\ proc = "up"
  /\ QueueInit
  /\ m_bStop = FALSE /\ m_bTerminate = FALSE /\ m_AdminRunning = FALSE
  /\ mainPc = "check" /\ rmIdx = 0
  /\ workerPc = [w \in Workers |-> "idle"]
  /\ m_pChildSoc = [w \in Workers |-> -1]
  /\ m_bUsing = [w \in Workers |-> FALSE]
  /\ adminPc = "ready" /\ adminIdx = 0
  /\ peer = [c \in Clients |-> "out"]
  /\ inbox = [c \in Clients |-> "empty"]
  /\ early = {}
  /\ begun = [w \in Workers |-> 0]

(* shutdown + close of client c's descriptor by the agent; closing one     *)
(* that is closed already changes nothing.                                 *)
CloseDescriptor(c) ==
  /\ peer' = [peer EXCEPT ![c] = IF @ \in {"open", "gone"} THEN "out" ELSE @]
  /\ inbox' = [inbox EXCEPT ![c] = "empty"]

-----------------------------------------------------------------------------
(* The clients.  A header may arrive in two parts; a client may leave at   *)
(* any time, and what it sent before leaving can still be read.            *)
Connect(c) ==
  /\ peer[c] = "out"
  /\ mainPc \in {"check", "poll"}
  /\ peer' = [peer EXCEPT ![c] = "backlog"]
  /\ UNCHANGED <<inbox>>

Send(c) ==
  /\ peer[c] = "open"
  /\ \/ inbox[c] = "empty" /\ \E h \in {"part", "full"} : inbox' = [inbox EXCEPT ![c] = h]
     \/ inbox[c] = "part" /\ inbox' = [inbox EXCEPT ![c] = "full"]
  /\ UNCHANGED peer

HangUp(c) ==
  /\ peer[c] = "open"
  /\ peer' = [peer EXCEPT ![c] = "gone"]
  /\ inbox' = [inbox EXCEPT ![c] = IF @ = "full" THEN "full" ELSE "empty"]

ClientStep(c) ==
  /\ proc = "up"
  /\ Connect(c) \/ Send(c) \/ HangUp(c)
  /\ UNCHANGED <<queueVars, proc, flagVars, mainVars, workerVars, adminVars, histVars>>

-----------------------------------------------------------------------------
(* The main thread. *)

(* while (!m_bStop) of Run; past it, PreTerminate starts RemoveAllQueue. *)
CheckStop ==
  /\ mainPc = "check"
  /\ mainPc' = IF m_bStop THEN "remove" ELSE "poll"
  /\ UNCHANGED <<queueVars, proc, flagVars, rmIdx, clientVars>>

PollTimeout ==
  /\ mainPc = "poll"
  /\ \A c \in Clients : peer[c] # "backlog"
  /\ mainPc' = "check"
  /\ UNCHANGED <<queueVars, proc, flagVars, rmIdx, clientVars>>

Accept(c) ==
  /\ mainPc = "poll"
  /\ peer[c] = "backlog"
  /\ \E i \in Slots : pushSocket(c, i)
  /\ peer' = [peer EXCEPT ![c] = "open"]
  /\ mainPc' = "check"
  /\ UNCHANGED <<proc, flagVars, rmIdx, inbox>>

(* No slot left: the listener closes the client AND stops itself. *)
Refuse(c) ==
  /\ mainPc = "poll"
  /\ peer[c] = "backlog"
  /\ TableFull
  /\ peer' = [peer EXCEPT ![c] = "out"]
  /\ m_bStop' = TRUE
  /\ mainPc' = "check"
  /\ UNCHANGED <<queueVars, proc, m_bTerminate, m_AdminRunning, rmIdx, inbox>>

RemoveCheck_Stuck ==
  /\ mainPc = "remove"
  /\ rmIdx < MaxQueue
  /\ mainPc' = IF use[rmIdx] # Free THEN "rmclose" ELSE "remove"
  /\ UNCHANGED <<queueVars, proc, flagVars, rmIdx, clientVars>>

(* One turn of the loop of RemoveAllQueue: use is read without the lock.   *)
RemoveCheck ==
  /\ mainPc = "remove"
  /\ rmIdx < MaxQueue
  /\ IF use[rmIdx] # Free
       THEN mainPc' = "rmclose" /\ UNCHANGED rmIdx
       ELSE rmIdx' = rmIdx + 1 /\ UNCHANGED mainPc
  /\ UNCHANGED <<queueVars, proc, flagVars, clientVars>>

RemoveClose ==
  /\ mainPc = "rmclose"
  /\ CloseDescriptor(soc[rmIdx])
  /\ mainPc' = "rmfree"
  /\ UNCHANGED <<queueVars, proc, flagVars, rmIdx>>

RemoveFree ==
  /\ mainPc = "rmfree"
  /\ FreeSlot(rmIdx)
  /\ rmIdx' = rmIdx + 1
  /\ mainPc' = "remove"
  /\ UNCHANGED <<proc, flagVars, clientVars>>

MainStep ==
  /\ proc = "up"
  /\ \/ CheckStop \/ PollTimeout
     \/ \E c \in Clients : Accept(c) \/ Refuse(c)
     \/ RemoveCheck \/ RemoveClose \/ RemoveFree
  /\ UNCHANGED <<workerVars, adminVars, histVars>>

-----------------------------------------------------------------------------
(* A worker thread. *)
Goto(w, pc) == workerPc' = [workerPc EXCEPT ![w] = pc]
SetUsing(w, b) == m_bUsing' = [m_bUsing EXCEPT ![w] = b]

(* The client of the slot worker w serves, and whether it is still there.  *)
Client(w) == soc[m_pChildSoc[w]]
Closed(c) == peer[c] \in {"out", "backlog"}   (* the descriptor is closed *)

(* CCSThread::Run without a client: the two flags are read before each     *)
(* call of GetNextRequest.                                                 *)
CheckFlags(w) ==
  /\ workerPc[w] = "idle"
  /\ Goto(w, IF m_bTerminate THEN "done" ELSE IF m_AdminRunning THEN "idle" ELSE "take")
  /\ UNCHANGED <<queueVars, m_pChildSoc, m_bUsing, clientVars, proc, histVars>>

GetNextRequest(w) ==
  /\ workerPc[w] = "take"
  /\ \/ \E i \in Slots :
          /\ popSocket(i)
          /\ m_pChildSoc' = [m_pChildSoc EXCEPT ![w] = i]
          /\ Goto(w, "top")
     \/ PopNothing /\ Goto(w, "idle") /\ UNCHANGED <<queueVars, m_pChildSoc>>
  /\ UNCHANGED <<m_bUsing, clientVars, proc, histVars>>

(* The head of the loop of ProcessRequest: not busy, shall I stop? *)
BeginLoop(w) ==
  /\ workerPc[w] = "top"
  /\ SetUsing(w, FALSE)
  /\ Goto(w, IF m_bTerminate THEN "close" ELSE "gate")
  /\ UNCHANGED <<queueVars, m_pChildSoc, clientVars, proc, histVars>>

Gate_Open(w) ==
  /\ workerPc[w] = "gate"
  /\ Goto(w, "read")
  /\ UNCHANGED <<queueVars, m_pChildSoc, m_bUsing, clientVars, proc, histVars>>

Gate(w) ==
  /\ workerPc[w] = "gate"
  /\ Goto(w, IF m_AdminRunning THEN "top" ELSE "read")
  /\ UNCHANGED <<queueVars, m_pChildSoc, m_bUsing, clientVars, proc, histVars>>

(* SocRead of the 50-byte header.  A part of it blocks in recv until the   *)
(* rest arrives or the connection ends.  m_bUsing is set once the header   *)
(* is there: only now can StartAdminProcess see the request.               *)
ReadTimeout(w) ==
  /\ peer[Client(w)] = "open" /\ inbox[Client(w)] = "empty"
  /\ Goto(w, "top")
  /\ UNCHANGED <<m_bUsing, inbox, begun>>

ReadHeader(w) ==
  /\ inbox[Client(w)] = "full" /\ ~Closed(Client(w))
  /\ inbox' = [inbox EXCEPT ![Client(w)] = "empty"]
  /\ SetUsing(w, TRUE)
  /\ Goto(w, "work")
  /\ begun' = IF m_AdminRunning THEN [begun EXCEPT ![w] = @ + 1] ELSE begun

ReadClosed_Retries(w) ==
  /\ Closed(Client(w)) \/ peer[Client(w)] = "gone"
  /\ inbox[Client(w)] = "empty"
  /\ Goto(w, "top")
  /\ UNCHANGED <<m_bUsing, inbox, begun>>

ReadClosed(w) ==
  /\ \/ Closed(Client(w))
     \/ peer[Client(w)] = "gone" /\ inbox[Client(w)] = "empty"
  /\ Goto(w, "close")
  /\ UNCHANGED <<m_bUsing, inbox, begun>>

Read(w) ==
  /\ workerPc[w] = "read"
  /\ ReadTimeout(w) \/ ReadHeader(w) \/ ReadClosed(w)
  /\ UNCHANGED <<queueVars, m_pChildSoc, peer, proc, early>>

(* The rest of the request.  It is answered and its client kept, because   *)
(* configRec.ulKeepFlag is 1 and nothing sets it (MRConfig.cpp:77); or its *)
(* header is refused with an answer that ends the connection; or the body  *)
(* cannot be read or the answer not sent, and the exception leaves         *)
(* ProcessRequest with m_bUsing still 1.                                   *)
Answered(w) ==
  /\ ~Closed(Client(w))
  /\ Goto(w, "top")
  /\ UNCHANGED m_bUsing

HeaderRefused(w) ==
  /\ ~Closed(Client(w))
  /\ Goto(w, "close")
  /\ SetUsing(w, FALSE)

RequestThrows(w) ==
  /\ Goto(w, "close")
  /\ UNCHANGED m_bUsing

EndRequest(w) ==
  /\ workerPc[w] = "work"
  /\ Answered(w) \/ HeaderRefused(w) \/ RequestThrows(w)
  /\ early' = early \ {w}
  /\ UNCHANGED <<queueVars, m_pChildSoc, clientVars, proc, begun>>

(* CloseChildSoc(m_pChildSoc) in its two halves, then m_pChildSoc = -1. *)
CloseClient(w) ==
  /\ workerPc[w] = "close"
  /\ CloseDescriptor(Client(w))
  /\ Goto(w, "free")
  /\ UNCHANGED <<queueVars, m_pChildSoc, m_bUsing, proc, histVars>>

FreeClientSlot(w) ==
  /\ workerPc[w] = "free"
  /\ FreeSlot(m_pChildSoc[w])
  /\ m_pChildSoc' = [m_pChildSoc EXCEPT ![w] = -1]
  /\ Goto(w, "idle")
  /\ UNCHANGED <<m_bUsing, clientVars, proc, histVars>>

Worker(w) ==
  /\ proc = "up"
  /\ \/ CheckFlags(w) \/ GetNextRequest(w)
     \/ BeginLoop(w) \/ Gate(w) \/ Read(w)
     \/ EndRequest(w) \/ CloseClient(w) \/ FreeClientSlot(w)
  /\ UNCHANGED <<flagVars, mainVars, adminVars>>

-----------------------------------------------------------------------------
(* The admin thread. *)

(* Command 99.  The session goes on until its next read fails, so another  *)
(* command can still follow it.                                            *)
NormalTerminate ==
  /\ adminPc = "ready" /\ "terminate" \in Commands
  /\ m_bTerminate' = TRUE
  /\ m_bStop' = TRUE
  /\ UNCHANGED <<m_AdminRunning, adminPc, adminIdx, histVars>>

StartAdminProcess_FromOne ==
  /\ adminPc = "ready" /\ "change" \in Commands
  /\ m_AdminRunning' = TRUE
  /\ adminIdx' = 1
  /\ adminPc' = "drain"
  /\ early' = {w \in Workers : workerPc[w] = "work"}
  /\ begun' = [w \in Workers |-> 0]
  /\ UNCHANGED <<m_bStop, m_bTerminate>>

(* StartAdminProcess: announce the section, then wait for the workers, one *)
(* after the other, until each is seen not using.                          *)
StartAdminProcess ==
  /\ adminPc = "ready" /\ "change" \in Commands
  /\ m_AdminRunning' = TRUE
  /\ adminIdx' = 0
  /\ adminPc' = "drain"
  /\ early' = {w \in Workers : workerPc[w] = "work"}
  /\ begun' = [w \in Workers |-> 0]
  /\ UNCHANGED <<m_bStop, m_bTerminate>>

SeenIdle ==
  /\ adminPc = "drain"
  /\ adminIdx < NoWThreads
  /\ ~m_bUsing[adminIdx]
  /\ adminIdx' = adminIdx + 1
  /\ UNCHANGED <<flagVars, adminPc, histVars>>

SelfTerminate_WaitsOn ==
  /\ adminPc = "drain"
  /\ adminIdx < NoWThreads
  /\ m_bUsing[adminIdx]
  /\ UNCHANGED <<flagVars, adminVars, histVars>>

(* The worker was in use at 1002 polls in a row: SelfTerminate, go on. *)
SelfTerminate ==
  /\ adminPc = "drain"
  /\ adminIdx < NoWThreads
  /\ m_bUsing[adminIdx]
  /\ m_bTerminate' = TRUE
  /\ m_bStop' = TRUE
  /\ adminIdx' = adminIdx + 1
  /\ UNCHANGED <<m_AdminRunning, adminPc, histVars>>

EnterSection ==
  /\ adminPc = "drain"
  /\ adminIdx = NoWThreads
  /\ adminPc' = "section"
  /\ adminIdx' = 0
  /\ UNCHANGED <<flagVars, histVars>>

(* The command has been carried out or has failed. *)
EndAdminProcess ==
  /\ adminPc = "section"
  /\ m_AdminRunning' = FALSE
  /\ adminPc' = "ready"
  /\ early' = {}
  /\ begun' = [w \in Workers |-> 0]
  /\ UNCHANGED <<m_bStop, m_bTerminate, adminIdx>>

AdminStep ==
  /\ proc = "up"
  /\ \/ NormalTerminate \/ StartAdminProcess
     \/ SeenIdle \/ SelfTerminate \/ EnterSection \/ EndAdminProcess
  /\ UNCHANGED <<queueVars, proc, mainVars, workerVars, clientVars>>

-----------------------------------------------------------------------------
(* The end of the process takes every thread, the table and all            *)
(* connections with it.                                                    *)
ProcessEnds(how) ==
  /\ proc' = how
  /\ use' = [i \in Slots |-> Free] /\ soc' = [i \in Slots |-> NoSocket]
  /\ m_pFirst' = -1 /\ m_pLast' = 0 /\ m_QueueCount' = 0
  /\ m_bStop' = FALSE /\ m_bTerminate' = FALSE /\ m_AdminRunning' = FALSE
  /\ mainPc' = "check" /\ rmIdx' = 0
  /\ workerPc' = [w \in Workers |-> "idle"]
  /\ m_pChildSoc' = [w \in Workers |-> -1]
  /\ m_bUsing' = [w \in Workers |-> FALSE]
  /\ adminPc' = "ready" /\ adminIdx' = 0
  /\ peer' = [c \in Clients |-> "out"] /\ inbox' = [c \in Clients |-> "empty"]
  /\ early' = {} /\ begun' = [w \in Workers |-> 0]

(* RemoveAllQueue is through: main closes the listening socket and returns. *)
Exit == proc = "up" /\ mainPc = "remove" /\ rmIdx = MaxQueue /\ ProcessEnds("exited")

(* select fails in Run: the exception ends main, past PreTerminate. *)
ListenFails == proc = "up" /\ mainPc = "poll" /\ ProcessEnds("exited")

(* send to a client that has reset the connection: SIGPIPE is not handled. *)
BrokenPipe ==
  /\ proc = "up"
  /\ \E w \in Workers : workerPc[w] = "work" /\ peer[Client(w)] = "gone"
  /\ ProcessEnds("killed")

Over == proc # "up" /\ UNCHANGED vars

Next ==
  \/ \E c \in Clients : ClientStep(c)
  \/ MainStep
  \/ \E w \in Workers : Worker(w)
  \/ AdminStep
  \/ Exit \/ ListenFails \/ BrokenPipe \/ Over

Spec == Init /\ [][Next]_vars

(* Every thread is scheduled, and a request under way comes to an end.     *)
(* Clients and administrators owe nothing.                                 *)
FairSpec ==
  /\ Spec
  /\ WF_vars(MainStep) /\ WF_vars(Exit)
  /\ \A w \in Workers : WF_vars(Worker(w))
  /\ WF_vars(AdminStep /\ adminPc # "ready")

-----------------------------------------------------------------------------
(* RemoveAllQueue has not begun. *)
Serving == mainPc \in {"check", "poll"}

(* A slot is served by the one worker popSocket handed it to, and while    *)
(* the agent is up no running slot is without its worker: none is lost     *)
(* when a request throws (MRCSThr.cpp:172-204) and none is handed out      *)
(* twice. The count of the slots in use is too small by one at most for    *)
(* each slot RemoveAllQueue has passed, where a worker and main may close  *)
(* one slot and count it twice (MRCSQueu.cpp:370, 460).                    *)
SlotOwnership ==
  /\ \A v, w \in Workers : m_pChildSoc[v] = m_pChildSoc[w] /\ v # w => m_pChildSoc[v] = -1
  /\ Serving => RunningSlots = {m_pChildSoc[w] : w \in Workers} \ {-1}
  /\ Cardinality(InUse(use)) - rmIdx <= m_QueueCount
  /\ m_QueueCount <= Cardinality(InUse(use))

(* While the agent is up a worker reads, answers and closes only the       *)
(* descriptor it was handed: it is open, and no other client has it,       *)
(* although a descriptor closed in CloseChildSoc can be accepted again     *)
(* before its old slot is free (MRCSQueu.cpp:363-369).                     *)
Attending(w) == workerPc[w] \in {"top", "gate", "read", "work", "close"}

StreamsPrivate ==
  Serving =>
    \A w \in Workers : Attending(w) =>
      /\ ~Closed(Client(w))
      /\ \A i \in WaitingSlots : soc[i] # Client(w)
      /\ \A v \in Workers \ {w} : Attending(v) => Client(v) # Client(w)

(* What StartAdminProcess achieves: a request that was under way when the  *)
(* section was announced is over when it begins, or the wait was given up  *)
(* and the agent is going down (MRCSMgr.cpp:236-278).                      *)
OldRequestsDrained == adminPc = "section" /\ early # {} => m_bTerminate

(* What it does not achieve is exclusion: a worker that passed the test of *)
(* m_AdminRunning before it was set reads a header, says so in m_bUsing    *)
(* only then, and runs its request in the section.  But it does so once:   *)
(* the next turn of its loop sees the flag (BRStart.cpp:110, 186).         *)
OneIntruder == \A w \in Workers : begun[w] <= 1

(* Together, and over a whole section: the threads implement the gate that *)
(* AdminGate describes. Its section is where the admin thread is, and a    *)
(* worker is busy from the header it has read to the end of the request    *)
(* (MRCSMgr.cpp:236-290).                                                  *)
SectionOfAdmin ==
  CASE adminPc = "ready"   -> "none"
    [] adminPc = "drain"   -> "announced"
    [] adminPc = "section" -> "entered"

GateOfServer ==
  INSTANCE AdminGate WITH
    Members  <- Workers,
    section  <- SectionOfAdmin,
    busy     <- {w \in Workers : workerPc[w] = "work"},
    old      <- early,
    intruded <- {w \in Workers : begun[w] > 0},
    stopping <- m_bTerminate

ImplementsAdminGate == GateOfServer!GateSpec

(* The agent always gets down once the listener is told to stop, whatever  *)
(* the clients and workers do (MRCSMgr.cpp:144-187).                       *)
ShutdownCompletes == m_bStop ~> proc # "up"

(* An administrator never holds the workers back for ever, even when a     *)
(* worker left m_bUsing set by an exception (MRCSMgr.cpp:249-276).         *)
AdminSectionEnds == m_AdminRunning ~> ~m_AdminRunning

(* Every accepted client gets a worker, if admin sections come to an end   *)
(* and the clients before it hang up in the end (BRStart.cpp:139).         *)
ClientsGiveWay ==
  \A c \in Clients : []<>(peer[c] # "open")

WaitersServed ==
  (<>[]~m_AdminRunning /\ ClientsGiveWay) =>
    \A i \in Slots : use[i] = Waiting ~> use[i] # Waiting
=============================================================================
