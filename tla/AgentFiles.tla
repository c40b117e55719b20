------------------------------ MODULE AgentFiles ------------------------------
(***************************************************************************)
(* The file requests of the agent: a worker reads one request, a handler   *)
(* of CFAPI works on the shared file system one system call at a time, and *)
(* the answer goes out on the worker's connection.                         *)
(*                                                                         *)
(* Answers are sequences of fields, each one unit long: <<kind, value>>.   *)
(* The 50 byte header is two units, of which the first has the length of   *)
(* the body.  The text of a message is left out.                           *)
(***************************************************************************)
EXTENDS Integers, Sequences, FiniteSets

CONSTANTS Client,       \* the client threads
          NoClient,
          Workers,      \* the number of worker threads (NOTHREAD)
          Path,         \* the paths requests name, all in one directory
          Depth,        \* how many directories deep that is
          Sizes,        \* lengths of the files that clients create
          Ops,          \* Ops[c]: the requests client c makes
          Reads         \* Reads[c]: may the owner read the files c creates?

ASSUME FilesAssumption == /\ NoClient \notin Client
                          /\ Workers \in Nat \ {0}
                          /\ Depth \in Nat
                          /\ Sizes \subseteq Nat
                          /\ IsFiniteSet(Path)
                          /\ \A c \in Client : Reads[c] \subseteq BOOLEAN

VARIABLES up,           \* the agent process lives
          name,         \* the inode a path is linked to; 0 if none
          body,         \* the contents of an inode
          attr,         \* its modification date and owner's read permission
          dirs,         \* how many levels of the directory exist
          pc,           \* the step the handler of a worker comes to
          req,          \* the request a worker works on
          mem,          \* the handler's local variables
          buf,          \* m_ObjBuffer of a worker, without the header
          link,         \* the connection of a worker as its socket shows it
          wire,         \* what it sent and the client has not read
          client,       \* the client whose request a worker works on
          clean         \* since c's call began no other request has changed a
                        \* file and the system has refused it nothing

fileVars == <<up, name, body, attr, dirs, pc, req, mem, buf, link, wire, client, clean>>

Worker == 1 .. Workers
\* A path or an open file keeps an inode, so there is always a free one.
Inode  == 1 .. Cardinality(Path) + Workers
NewAttr  == [date |-> "now", read |-> TRUE]
Free     == [op |-> "none"]
NoMem    == [size |-> 0, read |-> FALSE, ino |-> 0, pos |-> 0]

\* What a client may ask for.  ""+(long) makes the date of a create non-empty.
RequestOf(c) ==
  [op : Ops[c] \cap {"view", "delete"}, path : Path]
    \cup [op : Ops[c] \cap {"create"}, path : Path, read : Reads[c],
          data : {[i \in 1 .. n |-> c] : n \in Sizes}]
    \cup [op : Ops[c] \cap {"ping", "build"}]

--------------------------------------------------------------------------
(* Answers *)

Header(n) == <<<<"header", n>>, <<"pad", 0>>>>
Ok        == <<<<"long", 0>>, <<"long", 0>>, <<"true", 0>>, <<"msg", 0>>>>
Failed    == <<<<"long", 0>>, <<"long", 0>>, <<"false", 0>>, <<"msg", 0>>>>
FileInfo(i) == <<"info", [size |-> Len(body[i]), readable |-> attr[i].read]>>

\* The process ends: its sockets are closed, one with an unread request by a reset.
Die == /\ up' = FALSE
       /\ pc' = [w \in Worker |-> "dead"]
       /\ link' = [w \in Worker |-> IF link[w] # "open" THEN link[w]
                                    ELSE IF pc[w] = "read" THEN "refused" ELSE "end"]

\* A client that has closed its end answers data with a reset; once that has
\* come, send raises SIGPIPE, which only an OS/390 build handles.
Send(w, units, next) ==
  \/ /\ link[w] \in {"open", "left"}
     /\ wire' = IF link[w] = "open" THEN [wire EXCEPT ![w] = @ \o units] ELSE wire
     /\ pc' = [pc EXCEPT ![w] = next]
     /\ UNCHANGED <<up, link>>
  \/ /\ link[w] = "reset"
     /\ Die
     /\ UNCHANGED wire

Goto(w, next) == pc' = [pc EXCEPT ![w] = next]
Answer(w, fields) == /\ buf' = [buf EXCEPT ![w] = fields]
                     /\ Goto(w, "reply")

\* A step that changes a file disturbs every call but its own, one in which the
\* system refuses something disturbs its own.
Owner(w) == IF link[w] = "open" THEN {client[w]} ELSE {}
Touch(w) == clean' = [c \in Client |-> clean[c] /\ c \in Owner(w)]
Refuse(w) == clean' = [c \in Client |-> clean[c] /\ c \notin Owner(w)]

Linked(i) == \E p \in Path : name[p] = i
OpenFile(i) == \E w \in Worker : mem[w].ino = i
FreeInode == CHOOSE i \in Inode : ~Linked(i) /\ ~OpenFile(i)
\* An inode that nothing refers to any more is given back.
Drop(i) == /\ body' = [body EXCEPT ![i] = <<>>]
           /\ attr' = [attr EXCEPT ![i] = NewAttr]
Close(w) ==
  LET i == mem[w].ino IN
  /\ mem' = [mem EXCEPT ![w] = NoMem]
  /\ IF i = 0 \/ Linked(i) \/ \E v \in Worker \ {w} : mem[v].ino = i
     THEN UNCHANGED <<body, attr>> ELSE Drop(i)
Alone == UNCHANGED <<up, link, wire, req, client>>
SameFiles == UNCHANGED <<name, body, attr, dirs, clean>>
--------------------------------------------------------------------------
(* Reading a request and sending the answer *)

First == [view |-> "stat", create |-> "isdir", delete |-> "access", ping |-> "ping",
          build |-> "popen"]

\* A request that came before the reset is read; after it recv fails and the
\* worker gives the connection up.
ReadRequest(w) ==
  /\ pc[w] = "read" /\ link[w] \in {"open", "left"}
  /\ Goto(w, First[req[w].op])
  /\ Alone /\ SameFiles /\ UNCHANGED <<mem, buf>>

ReplyResultSet(w) ==
  /\ pc[w] = "reply"
  /\ Send(w, Header(Len(buf[w])) \o buf[w], "next")
  /\ buf' = [buf EXCEPT ![w] = <<>>]
  /\ Close(w)
  /\ UNCHANGED <<name, dirs, clean, req, client>>

\* The connection is kept: the next header is waited for until the client has gone.
ConnectionEnds(w) ==
  /\ \/ pc[w] = "next" /\ link[w] \in {"left", "reset"}
     \/ pc[w] = "read" /\ link[w] = "reset"
  /\ Goto(w, "idle")
  /\ req' = [req EXCEPT ![w] = Free]
  /\ link' = [link EXCEPT ![w] = "none"]
  /\ wire' = [wire EXCEPT ![w] = <<>>]
  /\ client' = [client EXCEPT ![w] = NoClient]
  /\ SameFiles /\ UNCHANGED <<up, mem, buf>>

API03_PING(w) == /\ pc[w] = "ping"
                 /\ Answer(w, Ok \o <<<<"msg", 0>>, <<"msg", 0>>, <<"msg", 0>>>>)
                 /\ Alone /\ SameFiles /\ UNCHANGED mem
--------------------------------------------------------------------------
(* API06_VIEWFILE6 *)

\* Slip: the terminating zero of the buffer is counted with the file.
ViewStat_Counted(w) ==
  LET i == name[req[w].path] IN
  /\ pc[w] = "stat"
  /\ IF i = 0
     THEN Answer(w, Failed) /\ UNCHANGED mem
     ELSE /\ mem' = [mem EXCEPT ![w].size = Len(body[i]) + 1, ![w].read = attr[i].read]
          /\ Goto(w, "fopen") /\ UNCHANGED buf
  /\ Alone /\ SameFiles

ViewStat(w) ==
  LET i == name[req[w].path] IN
  /\ pc[w] = "stat"
  /\ IF i = 0
     THEN Answer(w, Failed) /\ UNCHANGED mem
     ELSE /\ mem' = [mem EXCEPT ![w].size = Len(body[i]), ![w].read = attr[i].read]
          /\ Goto(w, "fopen") /\ UNCHANGED buf
  /\ Alone /\ SameFiles

\* fopen fails for a path that is gone, and may fail for other reasons.
ViewOpen(w) ==
  LET i == name[req[w].path] IN
  /\ pc[w] = "fopen"
  /\ \/ Answer(w, Failed) /\ Refuse(w) /\ UNCHANGED mem
     \/ /\ i # 0
        /\ mem' = [mem EXCEPT ![w].ino = i]
        /\ Goto(w, "info") /\ UNCHANGED <<buf, clean>>
  /\ Alone /\ UNCHANGED <<name, body, attr, dirs>>

\* get_file_info looks the path up again.  For a path that is gone it returns
\* NULL, which is logged before it is tested.
ViewInfo(w) ==
  LET i == name[req[w].path] IN
  /\ pc[w] = "info"
  /\ \/ i = 0 /\ Die /\ UNCHANGED <<buf, wire>>
     \/ /\ i # 0
        /\ buf' = [buf EXCEPT ![w] = Ok \o <<FileInfo(i)>>]
        /\ Goto(w, IF mem[w].read THEN "head" ELSE "reply")
        /\ UNCHANGED <<up, link, wire>>
  /\ SameFiles /\ UNCHANGED <<mem, req, client>>

\* The length of the first stat is announced (setMaxLength) and the fields are sent.
ViewHead(w) ==
  LET fields == Append(buf[w], <<"long", mem[w].size>>) IN
  /\ pc[w] = "head"
  /\ buf' = [buf EXCEPT ![w] = fields]
  /\ Send(w, Header(Len(fields) + mem[w].size) \o fields, "fread")
  /\ SameFiles /\ UNCHANGED <<mem, req, client>>

\* The file that was opened is sent as far as it goes now, one piece at a time;
\* at its end the dispatcher sends the fields once more.
ViewData(w) ==
  LET m == mem[w] IN
  /\ pc[w] = "fread"
  /\ IF m.pos < Len(body[m.ino])
     THEN /\ Send(w, <<<<"data", body[m.ino][m.pos + 1]>>>>, "fread")
          /\ mem' = [mem EXCEPT ![w].pos = @ + 1]
     ELSE Goto(w, "reply") /\ UNCHANGED <<up, link, wire, mem>>
  /\ SameFiles /\ UNCHANGED <<buf, req, client>>
--------------------------------------------------------------------------
(* API07_CREATEFILE and createFile *)

\* directoryExists; createDirectoriesRecursively goes up to a level that exists
IsDir(w) ==
  /\ pc[w] = "isdir"
  /\ Goto(w, IF dirs >= Depth THEN "fopenw" ELSE "probe")
  /\ mem' = [mem EXCEPT ![w].pos = Depth]
  /\ Alone /\ SameFiles /\ UNCHANGED buf

ProbeDir(w) ==
  LET at == mem[w].pos IN
  /\ pc[w] = "probe"
  /\ IF at > 0 /\ dirs < at
     THEN mem' = [mem EXCEPT ![w].pos = @ - 1] /\ Goto(w, "probe")
     ELSE mem' = [mem EXCEPT ![w].pos = @ + 1]
          /\ Goto(w, IF at < Depth THEN "mkdir" ELSE "isdir2")
  /\ Alone /\ SameFiles /\ UNCHANGED buf

\* and makes the levels below; one that another request has made by now is an
\* error that ends the recursion.
MakeDir(w) ==
  LET at == mem[w].pos IN
  /\ pc[w] = "mkdir"
  /\ \/ dirs >= at /\ Goto(w, "isdir2") /\ UNCHANGED <<mem, dirs, clean>>
     \/ /\ dirs < at
        /\ dirs' = at
        /\ Touch(w)
        /\ mem' = [mem EXCEPT ![w].pos = @ + 1]
        /\ Goto(w, IF at < Depth THEN "mkdir" ELSE "isdir2")
  /\ Alone /\ UNCHANGED <<name, body, attr, buf>>

IsDirNow(w) ==
  /\ pc[w] = "isdir2"
  /\ IF dirs >= Depth THEN Goto(w, "fopenw") /\ UNCHANGED buf ELSE Answer(w, Failed)
  /\ Alone /\ SameFiles /\ UNCHANGED mem

\* Slip: the file that is there is opened for update and not truncated.
CreateOpen_Update(w) ==
  LET p == req[w].path
      i == IF name[p] = 0 THEN FreeInode ELSE name[p] IN
  /\ pc[w] = "fopenw"
  /\ name' = [name EXCEPT ![p] = i]
  /\ Touch(w)
  /\ mem' = [mem EXCEPT ![w].ino = i, ![w].pos = 0]
  /\ Goto(w, "fwrite")
  /\ Alone /\ UNCHANGED <<body, attr, dirs, buf>>

\* fopen "wb" truncates the file that is there.
CreateOpen(w) ==
  LET p == req[w].path
      i == IF name[p] = 0 THEN FreeInode ELSE name[p] IN
  /\ pc[w] = "fopenw"
  /\ \/ Answer(w, Failed) /\ Refuse(w) /\ UNCHANGED <<name, body, attr, mem>>
     \/ /\ name' = [name EXCEPT ![p] = i]
        /\ body' = [body EXCEPT ![i] = <<>>]
        /\ attr' = [attr EXCEPT ![i] = IF name[p] = 0 THEN NewAttr ELSE [@ EXCEPT !.date = "now"]]
        /\ Touch(w)
        /\ mem' = [mem EXCEPT ![w].ino = i, ![w].pos = 0]
        /\ Goto(w, "fwrite") /\ UNCHANGED buf
  /\ Alone /\ UNCHANGED dirs

\* A write at an offset behind the end of a file that was truncated meanwhile
\* leaves a hole.
WriteAt(data, pos, unit) ==
  [n \in 1 .. IF pos > Len(data) THEN pos ELSE Len(data) |->
     IF n = pos THEN unit ELSE IF n <= Len(data) THEN data[n] ELSE "hole"]

\* A write that is cut short, on a full disk, changes the message only: the
\* answer is "true" all the same.
CreateWrite(w) ==
  LET m == mem[w] IN
  /\ pc[w] = "fwrite"
  /\ \/ /\ m.pos < Len(req[w].data)
        /\ body' = [body EXCEPT ![m.ino] = WriteAt(@, m.pos + 1, req[w].data[m.pos + 1])]
        /\ attr' = [attr EXCEPT ![m.ino].date = "now"]
        /\ mem' = [mem EXCEPT ![w].pos = @ + 1]
        /\ Touch(w) /\ Goto(w, "fwrite")
     \/ /\ IF m.pos < Len(req[w].data) THEN Refuse(w) ELSE UNCHANGED clean
        /\ Close(w)
        /\ Goto(w, "utime")
  /\ Alone /\ UNCHANGED <<name, dirs, buf>>

\* The date and the permission are set by path.
SetByPath(w, step, new, next) ==
  LET i == name[req[w].path] IN
  /\ pc[w] = step
  /\ IF i = 0
     THEN Answer(w, Failed) /\ UNCHANGED <<attr, clean>>
     ELSE /\ attr' = [attr EXCEPT ![i] = new[i]]
          /\ Touch(w) /\ Goto(w, next)
          /\ buf' = IF next = "reply" THEN [buf EXCEPT ![w] = Ok] ELSE buf
  /\ Alone /\ UNCHANGED <<name, body, dirs, mem>>

CreateUtime(w) ==
  SetByPath(w, "utime", [i \in Inode |-> [attr[i] EXCEPT !.date = "asked"]], "chmod")
CreateChmod(w) ==
  SetByPath(w, "chmod", [i \in Inode |-> [attr[i] EXCEPT !.read = req[w].read]], "reply")
--------------------------------------------------------------------------
(* API28_DELETEFILE *)

\* Slip: a file that is gone already is an error.
DeleteAccess_Missing(w) ==
  /\ pc[w] = "access"
  /\ IF name[req[w].path] = 0 THEN Answer(w, Failed) ELSE Goto(w, "remove") /\ UNCHANGED buf
  /\ Alone /\ SameFiles /\ UNCHANGED mem

DeleteAccess(w) ==
  /\ pc[w] = "access"
  /\ IF name[req[w].path] = 0 THEN Answer(w, Ok) ELSE Goto(w, "remove") /\ UNCHANGED buf
  /\ Alone /\ SameFiles /\ UNCHANGED mem

DeleteRemove(w) ==
  LET i == name[req[w].path] IN
  /\ pc[w] = "remove"
  /\ IF i = 0
     THEN Answer(w, Failed) /\ UNCHANGED <<name, body, attr, clean>>
     ELSE /\ name' = [name EXCEPT ![req[w].path] = 0]
          /\ Touch(w)
          /\ Answer(w, Ok)
          /\ IF OpenFile(i) THEN UNCHANGED <<body, attr>> ELSE Drop(i)
  /\ Alone /\ UNCHANGED <<dirs, mem>>
--------------------------------------------------------------------------
(* API15_BUILD: the command's output is collected to its end.  With no output  *)
(* at all the terminating zero is written through a null pointer.              *)

BuildStart(w) == /\ pc[w] = "popen"
                 /\ \/ Answer(w, Failed) /\ Refuse(w)
                    \/ Goto(w, "getline") /\ UNCHANGED <<buf, clean>>
                 /\ Alone /\ UNCHANGED <<name, body, attr, dirs, mem>>

BuildOutput(w) ==
  /\ pc[w] = "getline"
  /\ \/ Die /\ UNCHANGED buf
     \/ Answer(w, Ok \o <<<<"msg", 0>>>>) /\ UNCHANGED <<up, link>>
  /\ SameFiles /\ UNCHANGED <<mem, wire, req, client>>
--------------------------------------------------------------------------
Handle(w) ==
  \/ ReadRequest(w) \/ ReplyResultSet(w) \/ ConnectionEnds(w) \/ API03_PING(w)
  \/ ViewStat(w) \/ ViewOpen(w) \/ ViewInfo(w) \/ ViewHead(w) \/ ViewData(w)
  \/ IsDir(w) \/ ProbeDir(w) \/ MakeDir(w) \/ IsDirNow(w) \/ CreateOpen(w)
  \/ CreateWrite(w) \/ CreateUtime(w) \/ CreateChmod(w)
  \/ DeleteAccess(w) \/ DeleteRemove(w) \/ BuildStart(w) \/ BuildOutput(w)

\* Either the file is there or not even its directory.
FilesInit ==
  /\ up = TRUE
  /\ \/ dirs = 0 /\ name = [p \in Path |-> 0]
     \/ dirs = Depth /\ name \in {f \in [Path -> Inode] : \A p, q \in Path : f[p] = f[q] => p = q}
  /\ body = [i \in Inode |-> IF \E p \in Path : name[p] = i THEN <<"old", "old">> ELSE <<>>]
  /\ attr = [i \in Inode |-> NewAttr]
  /\ pc = [w \in Worker |-> "idle"]
  /\ req = [w \in Worker |-> Free]
  /\ mem = [w \in Worker |-> NoMem]
  /\ buf = [w \in Worker |-> <<>>]
  /\ link = [w \in Worker |-> "none"]
  /\ wire = [w \in Worker |-> <<>>]
  /\ client = [w \in Worker |-> NoClient]
  /\ clean = [c \in Client |-> FALSE]
===============================================================================
