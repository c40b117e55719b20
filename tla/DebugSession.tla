---------------------------- MODULE DebugSession ----------------------------
(***************************************************************************)
(* A session of the debugger (BRDebugger, src_c/Debug; Windows build with  *)
(* _TESTER).  A worker thread runs a rule and stops at every step: it      *)
(* leaves a message in the globals g_dbg_step, g_dbg_n1 and g_dbg_buf and  *)
(* suspends itself (SuspendWork).  The caller, a graphical tool, asks for  *)
(* one step after another (NextStep): it clears g_dbg_step, resumes the    *)
(* worker and polls until g_dbg_step is set.  None of this is locked.      *)
(*                                                                         *)
(* At a step LOAD the caller writes the file of the rule it was asked for, *)
(* and the worker, when resumed, reads it and adds the rule to the session *)
(* (DbgLoadRule, src_c/Runner/MRGBLVAR.cpp) and its name to BranchIndex.   *)
(***************************************************************************)
EXTENDS BranchIndex, FiniteSets

CONSTANTS
  Rules,     (* rule ids: numbers above 1                                   *)
  NameOf,    (* the branch name of each rule; 0: it has none                *)
  MaxSteps   (* bound of the model: steps of a session before its end      *)

ASSUME DebugAssumption ==
  /\ Rules \subseteq Nat \ {0, 1} /\ NameOf \in [Rules -> Nat]
  /\ m_MaxSize \in Nat \ {0, 1} /\ MaxSteps \in Nat

VARIABLES
  g_dbg_step, g_dbg_n1, g_dbg_buf,   (* the message; 0 is no step, no text  *)
  m_bSuspended,   (* what the thread object says                            *)
  frozen,         (* what the operating system says                         *)
  workerPc, callerPc,
  msg,            (* the arguments of the SuspendWork under way             *)
  got,            (* the message as NextStep has returned it                *)
  file,           (* DATA.dat: the rule it describes, 0 for no such rule    *)
  ext,            (* the rules of m_pExtRuleRoot, which SearchById finds    *)
  m_NameList, branchIdx,   (* the name index; a rule node is a number       *)
  announced,      (* history: messages the worker has left                  *)
  returned,       (* history: calls of NextStep that have returned          *)
  raced,          (* history: NextStep took a message still being written   *)
  hasty,          (* history: NextStep was called before the worker slept   *)
  misled          (* history: a rule was loaded that was not asked for      *)

message   == <<g_dbg_step, g_dbg_n1, g_dbg_buf>>
threadVars == <<m_bSuspended, frozen>>
store     == <<ext, m_NameList, branchIdx, misled>>
vars == <<message, threadVars, workerPc, callerPc, msg, got, file, store,
          announced, returned, raced, hasty>>

(* Steps: the session tells LOAD, the two ends and all others apart.       *)
ERR  == -1
LOAD == 1
NEXT == 11
TERM == 6
Steps == {0, ERR, LOAD, NEXT, TERM}
Names == {NameOf[r] : r \in Rules} \ {0}
ErrorText == -1
Texts == {0, ErrorText} \cup Names

Message == [step : Steps, n1 : {0} \cup Rules, buf : Texts]
NoMessage == [step |-> 0, n1 |-> 0, buf |-> 0]

MessageTypeOK ==
  /\ g_dbg_step \in Steps /\ g_dbg_n1 \in {0} \cup Rules /\ g_dbg_buf \in Texts
  /\ msg \in Message /\ got \in Message
  /\ announced \in Nat /\ returned \in Nat

TypeOK ==
  /\ MessageTypeOK
  /\ m_bSuspended \in BOOLEAN /\ frozen \in BOOLEAN
  /\ workerPc \in {"none", "run", "step", "n1", "buf", "flag", "suspend", "asleep",
                   "load", "throw", "errbuf", "ended"}
  /\ callerPc \in {"none", "out", "clear", "test", "wake", "poll", "n1", "buf", "return",
                   "answer", "over"}
  /\ file \in {0} \cup Rules /\ ext \subseteq {0} \cup Rules
  /\ m_NameList \in Seq([rule_name : Names, ptr : Nat]) /\ branchIdx \in Seq(Nat)
  /\ announced <= MaxSteps + 1
  /\ raced \in BOOLEAN /\ hasty \in BOOLEAN /\ misled \in BOOLEAN

Init ==
  /\ g_dbg_step = 0 /\ g_dbg_n1 = 0 /\ g_dbg_buf = 0
  /\ m_bSuspended = FALSE /\ frozen = FALSE
  /\ workerPc = "none" /\ callerPc = "none"
  /\ msg = NoMessage /\ got = NoMessage
  /\ file = 0 /\ ext = {} /\ m_NameList = <<>> /\ branchIdx = <<>>
  /\ announced = 0 /\ returned = 0
  /\ raced = FALSE /\ hasty = FALSE /\ misled = FALSE
-----------------------------------------------------------------------------
(* In this module an operator named Op_Slip is Op with one slip; nothing   *)
(* uses it.                                                                *)

(* The worker.  Run suspends itself first; between two suspensions it may  *)
(* need a rule, by id or by name, report any other step, or come to an end.*)

WorkerAt(from, to) == workerPc = from /\ workerPc' = to

Suspended(m) == WorkerAt("run", "step") /\ msg' = m
Unsaid == UNCHANGED <<message, threadVars, callerPc, got, file, store, announced, returned, raced, hasty>>

(* DbgLoadRule looks for the rule before it asks for it.                   *)
AskById(r) ==
  /\ announced < MaxSteps /\ r \notin ext
  /\ Suspended([step |-> LOAD, n1 |-> r, buf |-> 0])
  /\ Unsaid

AskByName(n) ==
  /\ announced < MaxSteps /\ ~SearchByName(m_NameList, n)
  /\ Suspended([step |-> LOAD, n1 |-> 0, buf |-> n])
  /\ Unsaid

OtherStep ==
  /\ announced < MaxSteps
  /\ Suspended([step |-> NEXT, n1 |-> 0, buf |-> 0])
  /\ Unsaid

(* SuspendWork: three assignments, and Suspend, which marks the thread and *)
(* then suspends it.                                                       *)
SetStep ==
  /\ WorkerAt("step", "n1")
  /\ g_dbg_step' = msg.step /\ announced' = announced + 1
  /\ UNCHANGED <<g_dbg_n1, g_dbg_buf, threadVars, callerPc, msg, got, file, store, returned, raced, hasty>>

SetNumber_UnlessZero ==
  /\ WorkerAt("n1", "buf")
  /\ g_dbg_n1' = IF msg.n1 = 0 THEN g_dbg_n1 ELSE msg.n1
  /\ UNCHANGED <<g_dbg_step, g_dbg_buf, threadVars, callerPc, msg, got, file, store, announced, returned, raced, hasty>>

SetNumber ==
  /\ WorkerAt("n1", "buf")
  /\ g_dbg_n1' = msg.n1
  /\ UNCHANGED <<g_dbg_step, g_dbg_buf, threadVars, callerPc, msg, got, file, store, announced, returned, raced, hasty>>

SetText ==
  /\ WorkerAt("buf", "flag")
  /\ g_dbg_buf' = msg.buf
  /\ UNCHANGED <<g_dbg_step, g_dbg_n1, threadVars, callerPc, msg, got, file, store, announced, returned, raced, hasty>>

MarkSuspended_Missing ==
  /\ WorkerAt("flag", "suspend")
  /\ UNCHANGED <<message, threadVars, callerPc, msg, got, file, store, announced, returned, raced, hasty>>

MarkSuspended ==
  /\ WorkerAt("flag", "suspend")
  /\ m_bSuspended' = TRUE
  /\ UNCHANGED <<message, frozen, callerPc, msg, got, file, store, announced, returned, raced, hasty>>

SuspendThread_Fails ==
  /\ WorkerAt("suspend", "asleep")
  /\ UNCHANGED <<message, threadVars, callerPc, msg, got, file, store, announced, returned, raced, hasty>>

SuspendThread ==
  /\ WorkerAt("suspend", "asleep")
  /\ frozen' = TRUE
  /\ UNCHANGED <<message, m_bSuspended, callerPc, msg, got, file, store, announced, returned, raced, hasty>>

GoOn ==
  /\ ~frozen
  /\ WorkerAt("asleep", IF msg.step = LOAD THEN "load" ELSE "run")
  /\ UNCHANGED <<message, threadVars, callerPc, msg, got, file, store, announced, returned, raced, hasty>>
-----------------------------------------------------------------------------
(* LoadRule on the file there is.  A file without a rule makes a node with  *)
(* id 0, which is kept when the rule was asked for by id.  A rule asked for *)
(* by name gets into the name index only.                                   *)

AskedFor(f) == IF msg.buf = 0 THEN f = msg.n1 ELSE f = 0 \/ NameOf[f] = msg.buf

Enter == ext' = IF msg.buf = 0 THEN ext \cup {file} ELSE ext

Load ==
  /\ misled' = (misled \/ ~AskedFor(file))
  /\ LET named == file # 0 /\ NameOf[file] # 0
         node  == Len(branchIdx) + 1
     IN \/ /\ ~named /\ Enter
           /\ WorkerAt("load", "run")
           /\ UNCHANGED <<m_NameList, branchIdx>>
        \/ /\ named /\ Refused(m_NameList, NameOf[file])
           /\ WorkerAt("load", "throw")
           /\ UNCHANGED <<ext, m_NameList, branchIdx>>
        \/ /\ named /\ ~Refused(m_NameList, NameOf[file])
           /\ m_NameList' = AddRuleNodeSearch(m_NameList, NameOf[file], node)
           /\ branchIdx' = Reindex(branchIdx, m_NameList, NameOf[file], node)
           /\ \/ Enter /\ WorkerAt("load", "run")
              \/ UNCHANGED ext /\ WorkerAt("load", "throw")   (* what follows the header fails *)
  /\ UNCHANGED <<message, threadVars, callerPc, msg, got, file, announced, returned, raced, hasty>>

(* The ends of Run: without an error, or in a catch clause, where the text *)
(* is written after the step.                                              *)
Terminate ==
  /\ WorkerAt("run", "ended")
  /\ g_dbg_step' = TERM /\ announced' = announced + 1
  /\ msg' = [step |-> TERM, n1 |-> g_dbg_n1, buf |-> g_dbg_buf]
  /\ UNCHANGED <<g_dbg_n1, g_dbg_buf, threadVars, callerPc, got, file, store, returned, raced, hasty>>

Throw ==
  /\ WorkerAt("throw", "errbuf") \/ WorkerAt("run", "errbuf")
  /\ g_dbg_step' = ERR /\ announced' = announced + 1
  /\ msg' = [step |-> ERR, n1 |-> g_dbg_n1, buf |-> ErrorText]
  /\ UNCHANGED <<g_dbg_n1, g_dbg_buf, threadVars, callerPc, got, file, store, returned, raced, hasty>>

SetErrorText ==
  /\ WorkerAt("errbuf", "ended")
  /\ g_dbg_buf' = msg.buf
  /\ UNCHANGED <<g_dbg_step, g_dbg_n1, threadVars, callerPc, msg, got, file, store, announced, returned, raced, hasty>>
-----------------------------------------------------------------------------
(* The caller.  InitDebug starts the worker; the half second it sleeps     *)
(* "for SYNC" is no guarantee, so the first call may come at any time.     *)

CallerAt(from, to) == callerPc = from /\ callerPc' = to

InitDebug ==
  /\ CallerAt("none", "out")
  /\ \/ workerPc' = "flag" /\ UNCHANGED <<g_dbg_step, g_dbg_buf>> /\ UNCHANGED got
     \/ /\ g_dbg_step' = ERR /\ g_dbg_buf' = ErrorText   (* no thread *)
        /\ got' = [step |-> ERR, n1 |-> 0, buf |-> ErrorText]
        /\ UNCHANGED workerPc
  /\ UNCHANGED <<g_dbg_n1, threadVars, msg, file, store, announced, returned, raced, hasty>>

Working == workerPc \notin {"asleep", "ended", "none"}

(* NextStep, which the tool calls until a step says that the run is over.  *)
CallNextStep_KeepsStep ==
  /\ CallerAt("out", "clear") /\ got.step \notin {ERR, TERM}
  /\ hasty' = (hasty \/ Working)
  /\ UNCHANGED <<message, threadVars, workerPc, msg, got, file, store, announced, returned, raced>>

CallNextStep ==
  /\ CallerAt("out", "clear") /\ got.step \notin {ERR, TERM}
  /\ g_dbg_step' = 0
  /\ hasty' = (hasty \/ Working)
  /\ UNCHANGED <<g_dbg_n1, g_dbg_buf, threadVars, workerPc, msg, got, file, store, announced, returned, raced>>

ClearText ==
  /\ CallerAt("clear", "test")
  /\ g_dbg_buf' = 0
  /\ UNCHANGED <<g_dbg_step, g_dbg_n1, threadVars, workerPc, msg, got, file, store, announced, returned, raced, hasty>>

(* Resume gives up, saying nothing, when the thread is not marked; nor does*)
(* ResumeThread say anything when the thread is not suspended (yet).       *)
Resume ==
  /\ CallerAt("test", IF m_bSuspended THEN "wake" ELSE "poll")
  /\ m_bSuspended' = FALSE
  /\ UNCHANGED <<message, frozen, workerPc, msg, got, file, store, announced, returned, raced, hasty>>

ResumeThread ==
  /\ CallerAt("wake", "poll")
  /\ frozen' = FALSE
  /\ UNCHANGED <<message, m_bSuspended, workerPc, msg, got, file, store, announced, returned, raced, hasty>>

Poll ==
  /\ g_dbg_step # 0
  /\ CallerAt("poll", "n1")
  /\ raced' = (raced \/ workerPc \in {"n1", "buf", "errbuf"})
  /\ UNCHANGED <<message, threadVars, workerPc, msg, got, file, store, announced, returned, hasty>>

GetNumber ==
  /\ CallerAt("n1", "buf")
  /\ got' = [got EXCEPT !.n1 = g_dbg_n1]
  /\ UNCHANGED <<message, threadVars, workerPc, msg, file, store, announced, returned, raced, hasty>>

GetText ==
  /\ CallerAt("buf", "return")
  /\ got' = [got EXCEPT !.buf = g_dbg_buf]
  /\ UNCHANGED <<message, threadVars, workerPc, msg, file, store, announced, returned, raced, hasty>>

Return ==
  /\ CallerAt("return", "answer")
  /\ got' = [got EXCEPT !.step = g_dbg_step]
  /\ returned' = returned + 1
  /\ UNCHANGED <<message, threadVars, workerPc, msg, file, store, announced, raced, hasty>>

(* The tool answers a request for a rule with the file of a rule it fits,  *)
(* or, for a name nobody has, of none; other steps need no answer.         *)
Answer ==
  /\ CallerAt("answer", "out")
  /\ IF got.step = LOAD
     THEN file' \in IF got.buf = 0 THEN {got.n1} ELSE {0} \cup {r \in Rules : NameOf[r] = got.buf}
     ELSE file' = file
  /\ UNCHANGED <<message, threadVars, workerPc, msg, got, store, announced, returned, raced, hasty>>

(* TermDebug ends the worker wherever it is and deletes everything.        *)
TermDebug ==
  /\ CallerAt("out", "over") /\ workerPc' = "none"
  /\ ext' = {} /\ m_NameList' = <<>> /\ branchIdx' = <<>>
  /\ UNCHANGED <<message, threadVars, msg, got, file, misled, announced, returned, raced, hasty>>

Over == callerPc = "over" /\ UNCHANGED vars
(* A call that is hasty may never return, and the session stays as it is.  *)
Hangs == callerPc = "poll" /\ workerPc = "asleep" /\ frozen /\ g_dbg_step = 0 /\ UNCHANGED vars

Worker ==
  \/ \E r \in Rules : AskById(r)
  \/ \E n \in Names : AskByName(n)
  \/ OtherStep
  \/ SetStep \/ SetNumber \/ SetText \/ MarkSuspended \/ SuspendThread \/ GoOn
  \/ Load \/ Terminate \/ Throw \/ SetErrorText

NextStep ==
  \/ ClearText \/ Resume \/ ResumeThread \/ Poll \/ GetNumber \/ GetText \/ Return

Caller == InitDebug \/ CallNextStep \/ NextStep \/ Answer \/ TermDebug

Next == Worker \/ Caller \/ Over \/ Hangs

Spec == Init /\ [][Next]_vars

(* The two threads run; the user of the tool owes nothing.                 *)
FairSpec == Spec /\ WF_vars(Worker) /\ WF_vars(NextStep)
-----------------------------------------------------------------------------
(* The worker leaves one message for each call of NextStep, and no call    *)
(* returns without one: no step is skipped and none is shown twice, even   *)
(* when the caller is hasty (SuspendWork and NextStep).                    *)
Lockstep ==
  /\ returned <= announced /\ announced <= returned + 1
  /\ callerPc \in {"out", "clear", "test", "wake", "answer"} => returned = announced

(* When the worker has gone to sleep with its step set, the whole message  *)
(* is there (SuspendWork assigns before it suspends), and a call that did  *)
(* not read it before returns it unchanged.                                *)
MessageIsWhole ==
  /\ workerPc = "asleep" /\ g_dbg_step # 0 => message = <<msg.step, msg.n1, msg.buf>>
  /\ callerPc = "answer" /\ ~raced => got = msg

(* The rule DbgLoadRule loads is the one it asked for, unless NextStep read*)
(* a request that was not complete.                                        *)
RightRuleLoaded == misled => raced

(* A rule's branchIdx is its position in the index, through every shift of *)
(* AddRuleNodeSearch.                                                      *)
IndexConsistent ==
  \A i \in 1 .. Len(m_NameList) : branchIdx[m_NameList[i].ptr] = i - 1

(* A name is in the index once (as long as the rules were those asked for):*)
(* AddRuleNodeSearch throws "Duplicate branch name" otherwise.  It does not*)
(* hold, because the second insertion looks at nothing.                    *)
NamesAreUnique ==
  ~misled => \A i, j \in 1 .. Len(m_NameList) :
               m_NameList[i].rule_name = m_NameList[j].rule_name => i = j

(* NextStep returns unless it was called before the worker slept, in which *)
(* case Resume may be lost.                                                *)
NextStepReturns == callerPc = "clear" ~> callerPc = "answer" \/ hasty
=============================================================================
