-------------------------- MODULE FileExchangeProofs --------------------------
(***************************************************************************)
(* Proofs about FileExchange, for any number of clients and workers, any   *)
(* paths, file lengths and depth of the directory: what a call that nobody *)
(* disturbs comes to.                                                      *)
(*                                                                         *)
(* Such a call has the files it is about for itself, so the step its       *)
(* handler comes to says what has been done to them (Progress), and what   *)
(* has been sent says what the client will make of it (Right), however the *)
(* bytes are cut into pieces on their way and whenever the agent dies.     *)
(***************************************************************************)
EXTENDS FileExchange, FiniteSetTheorems, SequenceTheorems, TLAPS

Kind == {"header", "pad", "long", "true", "false", "msg"}
Fields == (Kind \X Nat) \cup ({"info"} \X [size : Nat, readable : BOOLEAN])
            \cup ({"data"} \X Unit)
Attr == [date : {"now", "asked"}, read : BOOLEAN]
Mem == [size : Nat, read : BOOLEAN, ino : Inode \cup {0}, pos : Nat]
Requests == UNION {RequestOf(c) : c \in Client}

FileTypes ==
  /\ name \in [Path -> Inode \cup {0}]
  /\ body \in [Inode -> Seq(Unit)]
  /\ attr \in [Inode -> Attr]
  /\ dirs \in 0 .. Depth
  /\ clean \in [Client -> BOOLEAN]

\* The request a handler's step belongs to.
OpAt(step) ==
  CASE step \in {"stat", "fopen", "info", "head", "fread"} -> "view"
    [] step \in {"isdir", "probe", "mkdir", "isdir2", "fopenw", "fwrite", "utime", "chmod"} -> "create"
    [] step \in {"access", "remove"} -> "delete"
    [] step = "ping" -> "ping"
    [] step \in {"popen", "getline"} -> "build"
    [] OTHER -> "any"

WorkerInv(w) ==
  /\ mem[w] \in Mem /\ buf[w] \in Seq(Fields)
  /\ pc[w] \notin {"idle", "dead"} => req[w] \in Requests
  /\ OpAt(pc[w]) # "any" => req[w].op = OpAt(pc[w])
  /\ pc[w] \in {"idle", "read", "stat", "isdir", "next"} => mem[w] = NoMem
  /\ pc[w] \in {"probe", "mkdir", "isdir2", "fopenw"} => mem[w].ino = 0
  /\ pc[w] \in {"probe", "mkdir"} => mem[w].pos <= Depth
  /\ pc[w] = "idle" => link[w] = "none" /\ wire[w] = <<>>
  /\ pc[w] = "dead" => link[w] # "open"
  /\ link[w] \in {"end", "refused"} => pc[w] = "dead"
  /\ link[w] = "open" => /\ client[w] \in Client /\ at[client[w]] = w
                         /\ phase[client[w]] \in {"header", "body"}

Domains ==
  /\ DOMAIN pc = Worker /\ DOMAIN req = Worker /\ DOMAIN mem = Worker /\ DOMAIN buf = Worker
  /\ DOMAIN link = Worker /\ DOMAIN wire = Worker /\ DOMAIN client = Worker
  /\ DOMAIN calls = Client /\ DOMAIN phase = Client /\ DOMAIN asked = Client
  /\ DOMAIN at = Client /\ DOMAIN need = Client /\ DOMAIN have = Client /\ DOMAIN got = Client

ClientInv(c) ==
  /\ phase[c] \in {"idle", "connect", "header", "body", "spin"}
  /\ asked[c] \in Requests \cup {Free}
  /\ phase[c] # "idle" => asked[c] \in Requests
  /\ phase[c] \in {"idle", "connect"} => have[c] = <<>> /\ at[c] = 0
  /\ phase[c] \in {"header", "body"} =>
       /\ at[c] \in Worker /\ client[at[c]] = c
       /\ link[at[c]] \in {"open", "end", "refused"}
       /\ link[at[c]] = "open" => req[at[c]] = asked[c]

-----------------------------------------------------------------------------
(* What a client may return for its request, if h is what its path leads to  *)

Gone == [ino |-> 0, data |-> <<>>, date |-> "now", read |-> TRUE]
InodeOf(r) == IF r.op \in {"view", "create", "delete"} THEN name[r.path] ELSE 0
Seen(i) == [ino |-> i, data |-> body[i], date |-> attr[i].date, read |-> attr[i].read]
Held(r) == IF InodeOf(r) = 0 THEN Gone ELSE Seen(InodeOf(r))

Done(r, h) ==
  /\ r.op = "create" => /\ h.ino # 0 /\ h.data = r.data
                        /\ h.date = "asked" /\ h.read = r.read
  /\ r.op = "delete" => h.ino = 0

Fits(r, h, result) ==
  /\ result.ok => Done(r, h)
  /\ result.ok /\ r.op = "view" =>
       /\ h.ino # 0
       /\ result.size = Len(h.data)
       /\ h.read => result.data = [i \in 1 .. Len(h.data) |-> <<"data", h.data[i]>>]
  /\ ~result.ok => r.op = "view" /\ h.ino = 0

\* The fields of a "true" answer, and of one about a file.
Good(B) == B[1] = <<"long", 0>> /\ B[2] = <<"long", 0>> /\ B[3] = <<"true", 0>>
Info(h) == <<"info", [size |-> Len(h.data), readable |-> h.read]>>

\* The n fields announced, once they are all there, are the right answer.
Right(r, h, n, B) ==
  Len(B) >= n =>
    \/ n >= 3 /\ B[3] = <<"false", 0>> /\ r.op = "view" /\ h.ino = 0
    \/ n >= 3 /\ Good(B) /\ r.op # "view" /\ Done(r, h)
    \/ /\ n >= 5 /\ Good(B)
       /\ r.op = "view" /\ h.ino # 0
       /\ B[5] = Info(h)
       /\ h.read => /\ n = 6 + Len(h.data)
                    /\ B[6] = <<"long", Len(h.data)>>
                    /\ \A i \in 1 .. Len(h.data) : B[6 + i] = <<"data", h.data[i]>>

-----------------------------------------------------------------------------
(* What a handler at a step has done to the files and noted in its variables *)
(* m and answer b, before it has sent anything                               *)

Progress(r, h, levels, step, m, b) ==
  LET Statted == h.ino # 0 /\ m.size = Len(h.data) /\ m.read = h.read /\ m.pos = 0 IN
  /\ step \notin {"idle", "dead", "fread", "next"}
  /\ step = "fopen" => Statted
  /\ step = "info" => Statted /\ m.ino = h.ino
  /\ step = "head" => /\ Statted /\ m.ino = h.ino /\ m.read
                      /\ Len(b) = 5 /\ Good(b) /\ b[5] = Info(h)
  /\ step = "probe" => m.pos <= Depth /\ levels <= m.pos /\ levels < Depth
  /\ step = "mkdir" => m.pos <= Depth /\ m.pos = levels + 1
  /\ step = "isdir2" => levels = Depth
  /\ step = "fwrite" => /\ h.ino # 0 /\ m.ino = h.ino
                        /\ m.pos <= Len(r.data) /\ Len(h.data) = m.pos
                        /\ \A i \in 1 .. m.pos : h.data[i] = r.data[i]
  /\ step \in {"utime", "chmod"} => h.ino # 0 /\ h.data = r.data
  /\ step = "chmod" => h.date = "asked"
  /\ step = "remove" => h.ino # 0
  /\ step = "reply" => Right(r, h, Len(b), b)

\* and after that: a view sends the file, and then the fields once more.
Sending(h, step, m, n, B) ==
  /\ step \in {"fread", "reply", "next"}
  /\ step = "fread" =>
       /\ h.ino # 0 /\ m.ino = h.ino /\ h.read
       /\ n = 6 + Len(h.data) /\ m.pos <= Len(h.data) /\ Len(B) = 6 + m.pos
       /\ Good(B) /\ B[5] = Info(h) /\ B[6] = <<"long", Len(h.data)>>
       /\ \A i \in 1 .. m.pos : B[6 + i] = <<"data", h.data[i]>>
  /\ step = "reply" => Len(B) >= n

-----------------------------------------------------------------------------
(* What is on the way to a client: nothing yet, or the header and some of *)
(* what it announces                                                      *)

Silent(c, w) == phase[c] = "header" /\ have[c] = <<>> /\ wire[w] = <<>>

\* read has been received and sent is to be.
OnTheWay(where, length, read, sent, n, B) ==
  /\ read \in Seq(Fields) /\ sent \in Seq(Fields)
  /\ \/ where = "header" /\ read = <<>> /\ sent = Header(n) \o B
     \/ where = "body" /\ length = n /\ read \o sent = B

Carries(c, w, n, B) == OnTheWay(phase[c], need[c], have[c], wire[w], n, B)

Underway(c, w) ==
  LET r == asked[c]
      h == Held(r)
  IN
  \/ /\ Silent(c, w)
     /\ link[w] = "open" => Progress(r, h, dirs, pc[w], mem[w], buf[w])
  \/ \E n \in Nat, B \in Seq(Fields) :
       /\ Carries(c, w, n, B) /\ Right(r, h, n, B)
       /\ link[w] = "open" => Sending(h, pc[w], mem[w], n, B)

CallInv(c) ==
  clean[c] => /\ phase[c] \in {"header", "body"} => Underway(c, at[c])
              /\ phase[c] = "idle" /\ asked[c] # Free => Fits(asked[c], Held(asked[c]), got[c])

ExchangeInv ==
  /\ FileTypes /\ Domains
  /\ \A w \in Worker : WorkerInv(w)
  /\ \A c \in Client : ClientInv(c) /\ CallInv(c)

-----------------------------------------------------------------------------
(* Requests, and what stays as it is                                       *)

LEMMA RequestFacts ==
  ASSUME NEW r \in Requests
  PROVE  /\ r.op \in {"view", "create", "delete", "ping", "build"}
         /\ r.op \in {"view", "create", "delete"} => r.path \in Path
         /\ r.op = "create" => r.data \in Seq(Unit) /\ r.read \in BOOLEAN
         /\ r # Free
<1>1. PICK c \in Client : r \in RequestOf(c)
  BY DEF Requests
<1>2. CASE r \in [op : Ops[c] \cap {"view", "delete"}, path : Path]
  BY <1>2 DEF Free
<1>3. CASE r \in [op : Ops[c] \cap {"create"}, path : Path, read : Reads[c],
                  data : {[i \in 1 .. n |-> c] : n \in Sizes}]
  <2>1. r.op = "create" /\ r.path \in Path /\ r.read \in BOOLEAN
    BY <1>3, FilesAssumption
  <2>2. PICK n \in Sizes : r.data = [i \in 1 .. n |-> c]
    BY <1>3
  <2>3. r.data \in Seq(Unit)
    BY <2>2, FilesAssumption DEF Unit
  <2> QED
    BY <2>1, <2>3 DEF Free
<1>4. CASE r \in [op : Ops[c] \cap {"ping", "build"}]
  BY <1>4 DEF Free
<1> QED
  BY <1>1, <1>2, <1>3, <1>4 DEF RequestOf

\* No path leads to other contents than before.
FilesSame ==
  /\ dirs' = dirs
  /\ \A p \in Path :
       /\ name'[p] = name[p]
       /\ name[p] # 0 => body'[name[p]] = body[name[p]] /\ attr'[name[p]] = attr[name[p]]

LEMMA HeldKept ==
  ASSUME FilesSame, NEW r \in Requests
  PROVE  Held(r)' = Held(r)
<1>1. r.op \in {"view", "create", "delete"} => r.path \in Path
  BY RequestFacts
<1>2. InodeOf(r)' = InodeOf(r)
  BY <1>1 DEF InodeOf, FilesSame
<1>3. ASSUME InodeOf(r) # 0  PROVE Seen(InodeOf(r))' = Seen(InodeOf(r))
  BY <1>1, <1>2, <1>3 DEF InodeOf, FilesSame, Seen
<1> QED
  BY <1>2, <1>3 DEF Held

\* A worker does nothing itself; if the process ends its socket shows it.
WorkerFollows(v) ==
  /\ wire'[v] = wire[v] /\ mem'[v] = mem[v] /\ buf'[v] = buf[v]
  /\ req'[v] = req[v] /\ client'[v] = client[v]
  /\ \/ pc'[v] = pc[v] /\ link'[v] = link[v]
     \/ /\ pc'[v] = "dead"
        /\ IF link[v] = "open" THEN link'[v] \in {"end", "refused"} ELSE link'[v] = link[v]

ClientKept(c) ==
  /\ phase'[c] = phase[c] /\ asked'[c] = asked[c] /\ at'[c] = at[c]
  /\ need'[c] = need[c] /\ have'[c] = have[c] /\ got'[c] = got[c]

LEMMA UnderwayKept ==
  ASSUME NEW c \in Client, NEW v \in Worker, asked[c] \in Requests,
         FilesSame, ClientKept(c), WorkerFollows(v), Underway(c, v)
  PROVE  Underway(c, v)'
<1>1. Held(asked[c])' = Held(asked[c])
  <2>1. PICK r \in Requests : r = asked[c]
    OBVIOUS
  <2>2. Held(r)' = Held(r)
    BY HeldKept
  <2> QED
    BY <2>1, <2>2 DEF ClientKept
<1>2. link'[v] = "open" => link[v] = "open" /\ pc'[v] = pc[v]
  BY DEF WorkerFollows
<1>3. asked'[c] = asked[c] /\ dirs' = dirs /\ mem'[v] = mem[v] /\ buf'[v] = buf[v]
  BY DEF ClientKept, WorkerFollows, FilesSame
<1>4. Silent(c, v) => Silent(c, v)'
  BY DEF Silent, ClientKept, WorkerFollows
<1>5. ASSUME NEW n, NEW B, Carries(c, v, n, B)  PROVE Carries(c, v, n, B)'
  BY <1>5 DEF Carries, OnTheWay, ClientKept, WorkerFollows
<1>6. ASSUME NEW n, NEW B, Right(asked[c], Held(asked[c]), n, B)
      PROVE  Right(asked[c], Held(asked[c]), n, B)'
  BY <1>1, <1>3, <1>6
<1> QED
  BY <1>1, <1>2, <1>3, <1>4, <1>5, <1>6 DEF Underway

LEMMA WorkerRemains ==
  ASSUME NEW v \in Worker, WorkerInv(v), WorkerFollows(v),
         link[v] = "open" => ClientKept(client[v])
  PROVE  WorkerInv(v)'
<1>1. CASE pc'[v] = pc[v] /\ link'[v] = link[v]
  BY <1>1 DEF WorkerInv, WorkerFollows, ClientKept
<1>2. CASE /\ pc'[v] = "dead"
           /\ IF link[v] = "open" THEN link'[v] \in {"end", "refused"} ELSE link'[v] = link[v]
  BY <1>2 DEF WorkerInv, WorkerFollows, OpAt
<1> QED
  BY <1>1, <1>2 DEF WorkerFollows

LEMMA ClientRemains ==
  ASSUME NEW c \in Client, ClientInv(c), CallInv(c), ClientKept(c),
         clean'[c] => clean[c] /\ FilesSame,
         phase[c] \in {"header", "body"} => WorkerFollows(at[c])
  PROVE  ClientInv(c)' /\ CallInv(c)'
<1>1. ClientInv(c)'
  BY DEF ClientInv, ClientKept, WorkerFollows
<1>2. ASSUME clean'[c]  PROVE clean[c] /\ FilesSame
  BY <1>2
<1>3. ASSUME clean'[c], phase[c] \in {"header", "body"}  PROVE Underway(c, at[c])'
  <2>1. at[c] \in Worker /\ asked[c] \in Requests
    BY <1>3 DEF ClientInv
  <2>2. Underway(c, at[c])
    BY <1>2, <1>3 DEF CallInv
  <2>3. PICK v \in Worker : v = at[c]
    BY <2>1
  <2>4. Underway(c, v)'
    BY <1>2, <1>3, <2>1, <2>2, <2>3, UnderwayKept
  <2> QED
    BY <2>3, <2>4 DEF ClientKept
<1>4. ASSUME clean'[c], phase[c] = "idle", asked[c] # Free
      PROVE  Fits(asked[c], Held(asked[c]), got[c])'
  <2>1. PICK r \in Requests : r = asked[c]
    BY <1>4 DEF ClientInv
  <2>2. Held(r)' = Held(r)
    BY <1>2, <1>4, HeldKept
  <2>3. Fits(r, Held(r), got[c])
    BY <1>2, <1>4, <2>1 DEF CallInv
  <2> QED
    BY <2>1, <2>2, <2>3 DEF ClientKept
<1> QED
  BY <1>1, <1>3, <1>4 DEF CallInv, ClientKept

-----------------------------------------------------------------------------
(* The steps of a handler                                                  *)

Frame(w) ==
  /\ pc[w] \notin {"idle", "dead"}
  /\ \A v \in Worker \ {w} : WorkerFollows(v)
  /\ link'[w] = "open" => link[w] = "open"
  /\ link[w] = "open" => /\ req'[w] = req[w] /\ client'[w] = client[w]
                         /\ link'[w] \in {"open", "end", "refused"}

Disturbs(w) == \A c \in Client : clean'[c] => clean[c] /\ (c \in Owner(w) \/ FilesSame)

\* What the step does to the call it works for.
Serves(w) ==
  \A c \in Client :
    /\ clean[c] /\ clean'[c] /\ phase[c] \in {"header", "body"} /\ at[c] = w
    /\ link[w] = "open" /\ client[w] = c /\ req[w] = asked[c]
    /\ Underway(c, w)
    => Underway(c, w)'

LEMMA HandlerKeeps ==
  ASSUME ExchangeInv, NEW w \in Worker, UNCHANGED clientVars,
         Frame(w), Disturbs(w), Serves(w), FileTypes', Domains', WorkerInv(w)'
  PROVE  ExchangeInv'
<1>1. \A c \in Client : ClientKept(c)
  BY DEF ClientKept, clientVars
<1>2. ASSUME NEW v \in Worker  PROVE WorkerInv(v)'
  <2>1. CASE v = w
    BY <2>1
  <2>2. CASE v # w
    <3>1. WorkerInv(v) /\ WorkerFollows(v)
      BY <2>2 DEF ExchangeInv, Frame
    <3>2. link[v] = "open" => ClientKept(client[v])
      BY <1>1, <3>1 DEF WorkerInv
    <3> QED
      BY <3>1, <3>2, WorkerRemains
  <2> QED
    BY <2>1, <2>2
<1>3. ASSUME NEW c \in Client  PROVE ClientInv(c)' /\ CallInv(c)'
  <2>1. ClientInv(c) /\ CallInv(c) /\ ClientKept(c) /\ WorkerInv(w)
    BY <1>1 DEF ExchangeInv
  <2>2. CASE phase[c] \in {"header", "body"} /\ at[c] = w
    <3>1. link[w] = "open" /\ client[w] = c /\ req[w] = asked[c]
      BY <2>1, <2>2 DEF ClientInv, WorkerInv, Frame
    <3>2. ClientInv(c)'
      BY <2>1, <2>2, <3>1 DEF ClientInv, ClientKept, Frame
    <3>3. ASSUME clean'[c]  PROVE Underway(c, w)'
      <4>1. clean[c]
        BY <3>3 DEF Disturbs
      <4>2. Underway(c, w)
        BY <2>1, <2>2, <4>1 DEF CallInv
      <4> QED
        BY <2>2, <3>1, <3>3, <4>1, <4>2 DEF Serves
    <3> QED
      BY <2>1, <2>2, <3>2, <3>3 DEF CallInv, ClientKept
  <2>3. CASE ~(phase[c] \in {"header", "body"} /\ at[c] = w)
    <3>1. c \notin Owner(w)
      BY <2>1, <2>3 DEF Owner, WorkerInv
    <3>2. clean'[c] => clean[c] /\ FilesSame
      BY <3>1 DEF Disturbs
    <3>3. phase[c] \in {"header", "body"} => WorkerFollows(at[c])
      BY <2>1, <2>3 DEF Frame, ClientInv
    <3> QED
      BY <2>1, <3>2, <3>3, ClientRemains
  <2> QED
    BY <2>2, <2>3
<1> QED
  BY <1>2, <1>3 DEF ExchangeInv

HeldFits(r) ==
  /\ InodeOf(r) \in Inode \cup {0} /\ Held(r).ino = InodeOf(r)
  /\ Held(r).data \in Seq(Unit) /\ Held(r).read \in BOOLEAN
  /\ InodeOf(r) = 0 => Held(r).data = <<>>
  /\ InodeOf(r) # 0 => /\ Held(r).data = body[InodeOf(r)]
                       /\ Held(r).date = attr[InodeOf(r)].date
                       /\ Held(r).read = attr[InodeOf(r)].read

LEMMA HeldFacts == FileTypes => \A r \in Requests : HeldFits(r)
<1> SUFFICES ASSUME FileTypes, NEW r \in Requests  PROVE HeldFits(r)
  OBVIOUS
<1>1. InodeOf(r) \in Inode \cup {0}
  BY RequestFacts DEF InodeOf, FileTypes
<1>2. CASE InodeOf(r) = 0
  BY <1>2 DEF Held, Gone, HeldFits
<1>3. CASE InodeOf(r) # 0
  <2>1. attr[InodeOf(r)].read \in BOOLEAN /\ body[InodeOf(r)] \in Seq(Unit)
    BY <1>1, <1>3 DEF FileTypes, Attr
  <2> QED
    BY <1>1, <1>3, <2>1 DEF Held, Seen, HeldFits
<1> QED
  BY <1>1, <1>2, <1>3

LEMMA HeldFactsNext == (FileTypes => \A r \in Requests : HeldFits(r))'
  BY HeldFacts, PTL

\* The step only changes what the worker keeps for itself, and the files.
Quiet(w, next) ==
  /\ Alone /\ Goto(w, next)
  /\ DOMAIN mem' = Worker /\ DOMAIN buf' = Worker
  /\ \A v \in Worker \ {w} : mem'[v] = mem[v] /\ buf'[v] = buf[v]

Prepared(w, next, m, b) ==
  /\ pc[w] \notin {"idle", "dead", "fread", "reply", "next"}
  /\ next \notin {"idle", "dead", "next"}
  /\ OpAt(next) # "any" => req[w].op = OpAt(next)
  /\ m \in Mem /\ b \in Seq(Fields)
  /\ next \in {"read", "stat", "isdir"} => m = NoMem
  /\ next \in {"probe", "mkdir", "isdir2", "fopenw"} => m.ino = 0
  /\ next \in {"probe", "mkdir"} => m.pos <= Depth

\* A call that nothing has disturbed is one step further.
Advances(w, next) ==
  \A c \in Client :
    /\ clean'[c] /\ c \in Owner(w)
    /\ Progress(req[w], Held(req[w]), dirs, pc[w], mem[w], buf[w])
    => Progress(req[w], Held(req[w])', dirs', next, mem'[w], buf'[w])

LEMMA QuietStep ==
  ASSUME ExchangeInv, NEW w \in Worker, UNCHANGED clientVars, NEW next,
         Quiet(w, next), Prepared(w, next, mem'[w], buf'[w]),
         FileTypes', Disturbs(w), Advances(w, next)
  PROVE  ExchangeInv'
<1>1. WorkerInv(w) /\ Domains
  BY DEF ExchangeInv
<1>2. pc'[w] = next /\ link' = link /\ wire' = wire /\ req' = req /\ client' = client
  BY <1>1 DEF Quiet, Goto, Alone, Domains
<1>3. Frame(w)
  BY <1>1, <1>2 DEF Frame, Quiet, Goto, Prepared, WorkerFollows, WorkerInv, Domains
<1>4. Domains'
  BY <1>1, <1>2 DEF Domains, Quiet, Goto, clientVars
<1>5. WorkerInv(w)'
  <2>1. req[w] \in Requests
    BY <1>1 DEF WorkerInv, Prepared
  <2>2. link[w] \notin {"end", "refused"}
    BY <1>1 DEF WorkerInv, Prepared
  <2>3. link[w] = "open" => /\ client'[w] \in Client /\ at'[client'[w]] = w
                            /\ phase'[client'[w]] \in {"header", "body"}
    BY <1>1, <1>2 DEF WorkerInv, clientVars
  <2> QED
    BY <1>2, <2>1, <2>2, <2>3 DEF WorkerInv, Prepared
<1>6. Serves(w)
  <2> SUFFICES ASSUME NEW c \in Client, clean[c], clean'[c], link[w] = "open",
                      client[w] = c, req[w] = asked[c], Underway(c, w)
               PROVE  Underway(c, w)'
    BY DEF Serves
  <2>1. Silent(c, w) /\ Progress(req[w], Held(req[w]), dirs, pc[w], mem[w], buf[w])
    BY DEF Underway, Sending, Prepared
  <2>2. Progress(req[w], Held(req[w])', dirs', next, mem'[w], buf'[w])
    BY <2>1 DEF Advances, Owner
  <2>3. Silent(c, w)'
    BY <1>2, <2>1 DEF Silent, clientVars
  <2>4. asked' = asked
    BY DEF clientVars
  <2>5. Held(asked[c])' = Held(req[w])'
    BY <1>2, <2>4
  <2> QED
    BY <1>2, <2>2, <2>3, <2>4, <2>5 DEF Underway
<1> QED
  BY <1>3, <1>4, <1>5, <1>6, HandlerKeeps

\* R is P and then Q.
Joins(R, P, Q) ==
  /\ R \in Seq(Fields) /\ Len(R) = Len(P) + Len(Q)
  /\ \A i \in 1 .. Len(P) : R[i] = P[i]
  /\ \A i \in 1 .. Len(Q) : R[Len(P) + i] = Q[i]

LEMMA Joined ==
  ASSUME NEW P \in Seq(Fields), NEW Q \in Seq(Fields)
  PROVE  Joins(P \o Q, P, Q)
  BY DEF Joins

LEMMA GoodJoined ==
  ASSUME NEW P \in Seq(Fields), NEW Q, NEW R, Joins(R, P, Q), Good(P), Len(P) >= 3
  PROVE  Good(R)
<1>1. 1 \in 1 .. Len(P) /\ 2 \in 1 .. Len(P) /\ 3 \in 1 .. Len(P)
  OBVIOUS
<1> QED
  BY <1>1 DEF Joins, Good

LEMMA FieldFacts ==
  /\ \A k \in Kind, n \in Nat : <<k, n>> \in Fields
  /\ Ok \in Seq(Fields) /\ Failed \in Seq(Fields)
  /\ \A n \in Nat : Header(n) \in Seq(Fields)
<1>1. \A k \in Kind, n \in Nat : <<k, n>> \in Fields
  BY DEF Fields
<1>2. /\ \A n \in Nat : <<"header", n>> \in Fields
      /\ <<"pad", 0>> \in Fields /\ <<"long", 0>> \in Fields /\ <<"msg", 0>> \in Fields
      /\ <<"true", 0>> \in Fields /\ <<"false", 0>> \in Fields
  BY <1>1 DEF Kind
<1> QED
  BY <1>1, <1>2 DEF Ok, Failed, Header

LEMMA SameFilesFacts ==
  ASSUME FileTypes, SameFiles, NEW w \in Worker
  PROVE  FileTypes' /\ FilesSame /\ Disturbs(w)
  BY DEF FileTypes, SameFiles, FilesSame, Disturbs

LEMMA QuietSame ==
  ASSUME ExchangeInv, NEW w \in Worker, UNCHANGED clientVars, NEW next,
         Quiet(w, next), Prepared(w, next, mem'[w], buf'[w]), SameFiles,
         \A h : /\ h = Held(req[w]) /\ Progress(req[w], h, dirs, pc[w], mem[w], buf[w])
                => Progress(req[w], h, dirs, next, mem'[w], buf'[w])
  PROVE  ExchangeInv'
<1>1. FileTypes /\ WorkerInv(w)
  BY DEF ExchangeInv
<1>2. FileTypes' /\ FilesSame /\ Disturbs(w)
  BY <1>1, SameFilesFacts
<1>3. PICK r \in Requests : r = req[w]
  BY <1>1 DEF WorkerInv, Prepared
<1>4. Held(req[w])' = Held(req[w])
  <2>1. Held(r)' = Held(r)
    BY <1>2, HeldKept
  <2> QED
    BY <1>3, <2>1 DEF Quiet, Alone
<1>5. Advances(w, next)
  BY <1>2, <1>4 DEF Advances, FilesSame
<1> QED
  BY <1>2, <1>5, QuietStep

LEMMA ReadRequestStep ==
  ASSUME ExchangeInv, NEW w \in Worker, UNCHANGED clientVars, ReadRequest(w)
  PROVE  ExchangeInv'
<1> DEFINE next == First[req[w].op]
<1>1. WorkerInv(w) /\ Domains /\ pc[w] = "read"
  BY DEF ExchangeInv, ReadRequest
<1>2. req[w].op \in {"view", "create", "delete", "ping", "build"}
  BY <1>1, RequestFacts DEF WorkerInv
<1>3. /\ next \in {"stat", "isdir", "access", "ping", "popen"}
      /\ OpAt(next) = req[w].op
  BY <1>2 DEF First, OpAt
<1>4. Quiet(w, next) /\ mem'[w] = mem[w] /\ buf'[w] = buf[w] /\ SameFiles
  BY <1>1 DEF ReadRequest, Quiet, Alone, Domains
<1>5. Prepared(w, next, mem'[w], buf'[w])
  BY <1>1, <1>3, <1>4 DEF Prepared, WorkerInv
<1> HIDE DEF next
<1>6. \A h : Progress(req[w], h, dirs, pc[w], mem[w], buf[w])
               => Progress(req[w], h, dirs, next, mem'[w], buf'[w])
  BY <1>3 DEF Progress
<1> QED
  BY <1>4, <1>5, <1>6, QuietSame

LEMMA PingStep ==
  ASSUME ExchangeInv, NEW w \in Worker, UNCHANGED clientVars, API03_PING(w)
  PROVE  ExchangeInv'
<1> DEFINE fields == Ok \o <<<<"msg", 0>>, <<"msg", 0>>, <<"msg", 0>>>>
<1>1. WorkerInv(w) /\ Domains /\ pc[w] = "ping" /\ req[w] \in Requests /\ req[w].op = "ping"
  BY DEF ExchangeInv, API03_PING, WorkerInv, OpAt
<1>2. fields \in Seq(Fields) /\ Len(fields) = 7 /\ Good(fields)
  <2>1. /\ <<<<"msg", 0>>, <<"msg", 0>>, <<"msg", 0>>>> \in Seq(Fields)
        /\ Len(<<<<"msg", 0>>, <<"msg", 0>>, <<"msg", 0>>>>) = 3
    BY DEF Fields, Kind
  <2>2. Ok \in Seq(Fields) /\ Len(Ok) = 4 /\ Len(Ok) >= 3 /\ Good(Ok)
    BY FieldFacts DEF Ok, Good
  <2>3. PICK more \in Seq(Fields) : /\ more = <<<<"msg", 0>>, <<"msg", 0>>, <<"msg", 0>>>>
                                    /\ Len(more) = 3
    BY <2>1
  <2>4. fields = Ok \o more
    BY <2>3
  <2> HIDE DEF fields
  <2>5. Joins(Ok \o more, Ok, more)
    BY <2>2, <2>3, Joined
  <2>6. Good(Ok \o more)
    BY <2>2, <2>5, GoodJoined
  <2>7. Ok \o more \in Seq(Fields) /\ Len(Ok \o more) = 7
    BY <2>2, <2>3, <2>5 DEF Joins
  <2> QED
    BY <2>4, <2>6, <2>7
<1> HIDE DEF fields
<1>3. /\ Quiet(w, "reply") /\ mem'[w] = mem[w] /\ buf'[w] = fields /\ SameFiles
  BY <1>1 DEF API03_PING, Answer, Quiet, Alone, Domains, fields
<1>4. Prepared(w, "reply", mem'[w], buf'[w])
  BY <1>1, <1>2, <1>3 DEF Prepared, WorkerInv, OpAt
<1>5. \A h : Right(req[w], h, Len(fields), fields)
  BY <1>1, <1>2 DEF Right, Done
<1>6. \A h : Progress(req[w], h, dirs, pc[w], mem[w], buf[w])
               => Progress(req[w], h, dirs, "reply", mem'[w], buf'[w])
  BY <1>3, <1>5 DEF Progress
<1> QED
  BY <1>3, <1>4, <1>6, QuietSame

\* What is known of a worker with a request.
LEMMA AtWork ==
  ASSUME ExchangeInv, NEW w \in Worker, OpAt(pc[w]) # "any"
  PROVE  /\ FileTypes /\ Domains /\ WorkerInv(w)
         /\ req[w] \in Requests /\ req[w].op = OpAt(pc[w])
         /\ mem[w] \in Mem /\ buf[w] \in Seq(Fields)
         /\ req[w].op \in {"view", "create", "delete"} => /\ req[w].path \in Path
                                                          /\ InodeOf(req[w]) = name[req[w].path]
<1>1. FileTypes /\ Domains /\ WorkerInv(w)
  BY DEF ExchangeInv
<1>2. req[w] \in Requests /\ req[w].op = OpAt(pc[w])
  BY <1>1 DEF WorkerInv, OpAt
<1>3. req[w].op \in {"view", "create", "delete"} => req[w].path \in Path
  BY <1>2, RequestFacts
<1> QED
  BY <1>1, <1>2, <1>3 DEF WorkerInv, InodeOf

LEMMA ViewStatStep ==
  ASSUME ExchangeInv, NEW w \in Worker, UNCHANGED clientVars, ViewStat(w)
  PROVE  ExchangeInv'
<1> DEFINE r == req[w]
           i == name[r.path]
<1>1. pc[w] = "stat" /\ OpAt(pc[w]) = "view"
  BY DEF ViewStat, OpAt
<1>2. /\ FileTypes /\ Domains /\ WorkerInv(w) /\ r \in Requests /\ r.op = "view"
      /\ mem[w] \in Mem /\ buf[w] \in Seq(Fields) /\ r.path \in Path /\ InodeOf(r) = i
  BY <1>1, AtWork
<1>3. mem[w] = NoMem
  BY <1>1, <1>2 DEF WorkerInv
<1>4. CASE i = 0
  <2>1. Quiet(w, "reply") /\ mem'[w] = mem[w] /\ buf'[w] = Failed /\ SameFiles
    BY <1>2, <1>4 DEF ViewStat, Answer, Quiet, Alone, Domains
  <2>2. Prepared(w, "reply", mem'[w], buf'[w])
    BY <1>1, <1>2, <2>1, FieldFacts DEF Prepared, OpAt
  <2>3. ASSUME NEW h, h = Held(r)  PROVE Right(r, h, Len(Failed), Failed)
    <3>1. h.ino = 0
      BY <1>2, <1>4, <2>3, HeldFacts DEF HeldFits
    <3> QED
      BY <1>2, <3>1 DEF Right, Failed
  <2>4. \A h : /\ h = Held(r) /\ Progress(r, h, dirs, pc[w], mem[w], buf[w])
               => Progress(r, h, dirs, "reply", mem'[w], buf'[w])
    BY <2>1, <2>3 DEF Progress
  <2> QED
    BY <2>1, <2>2, <2>4, QuietSame
<1>5. CASE i # 0
  <2>1. i \in Inode /\ body[i] \in Seq(Unit) /\ attr[i].read \in BOOLEAN
    BY <1>2, <1>5 DEF FileTypes, Attr
  <2>2. /\ mem'[w].size = Len(body[i]) /\ mem'[w].read = attr[i].read
        /\ mem'[w].ino = 0 /\ mem'[w].pos = 0
    BY <1>2, <1>3, <1>5 DEF ViewStat, Domains, NoMem
  <2>3. mem'[w] \in Mem
    BY <1>2, <1>3, <1>5, <2>1 DEF ViewStat, Domains, NoMem, Mem
  <2>4. Quiet(w, "fopen") /\ buf'[w] = buf[w] /\ SameFiles
    BY <1>2, <1>5 DEF ViewStat, Quiet, Alone, Domains
  <2>5. Prepared(w, "fopen", mem'[w], buf'[w])
    BY <1>1, <1>2, <2>3, <2>4 DEF Prepared, OpAt
  <2>6. ASSUME NEW h, h = Held(r)
        PROVE  h.ino # 0 /\ mem'[w].size = Len(h.data) /\ mem'[w].read = h.read /\ mem'[w].pos = 0
    BY <1>2, <1>5, <2>2, <2>6, HeldFacts DEF HeldFits
  <2>7. \A h : /\ h = Held(r) /\ Progress(r, h, dirs, pc[w], mem[w], buf[w])
               => Progress(r, h, dirs, "fopen", mem'[w], buf'[w])
    BY <2>6 DEF Progress
  <2> QED
    BY <2>4, <2>5, <2>7, QuietSame
<1> QED
  BY <1>4, <1>5

\* ViewInfo when the path is there.
LEMMA ViewInfoStep ==
  ASSUME ExchangeInv, NEW w \in Worker, UNCHANGED clientVars, ViewInfo(w),
         name[req[w].path] # 0
  PROVE  ExchangeInv'
<1> DEFINE r == req[w]
           i == name[r.path]
           next == IF mem[w].read THEN "head" ELSE "reply"
<1>1. pc[w] = "info" /\ OpAt(pc[w]) = "view"
  BY DEF ViewInfo, OpAt
<1>2. /\ FileTypes /\ Domains /\ WorkerInv(w) /\ r \in Requests /\ r.op = "view"
      /\ mem[w] \in Mem /\ buf[w] \in Seq(Fields) /\ r.path \in Path /\ InodeOf(r) = i
  BY <1>1, AtWork
<1>3. i \in Inode /\ body[i] \in Seq(Unit) /\ attr[i].read \in BOOLEAN
  BY <1>2 DEF FileTypes, Attr
<1>4. PICK fields \in Seq(Fields) : /\ fields = Ok \o <<FileInfo(i)>> /\ Good(fields)
                                    /\ Len(fields) = 5 /\ fields[5] = FileInfo(i)
  <2>1. FileInfo(i) \in Fields
    BY <1>3, SMTT(30) DEF FileInfo, Fields
  <2>2. PICK one \in Seq(Fields) : one = <<FileInfo(i)>> /\ Len(one) = 1 /\ one[1] = FileInfo(i)
    <3>1. PICK info \in Fields : info = FileInfo(i)
      BY <2>1
    <3>2. <<info>> \in Seq(Fields) /\ Len(<<info>>) = 1 /\ <<info>>[1] = info
      OBVIOUS
    <3> QED
      BY <3>1, <3>2
  <2>3. Ok \in Seq(Fields) /\ Len(Ok) = 4 /\ Len(Ok) >= 3 /\ Good(Ok)
    BY FieldFacts DEF Ok, Good
  <2>4. Joins(Ok \o one, Ok, one)
    BY <2>2, <2>3, Joined
  <2>5. Good(Ok \o one)
    BY <2>2, <2>3, <2>4, GoodJoined
  <2>6. Ok \o one \in Seq(Fields) /\ Len(Ok \o one) = 5 /\ (Ok \o one)[5] = FileInfo(i)
    BY <2>2, <2>3, <2>4 DEF Joins
  <2> QED
    BY <2>2, <2>5, <2>6
<1>5. Quiet(w, next) /\ mem'[w] = mem[w] /\ buf'[w] = fields /\ SameFiles
  BY <1>2, <1>4 DEF ViewInfo, Quiet, Alone, Domains
<1>6. Prepared(w, next, mem'[w], buf'[w])
  BY <1>1, <1>2, <1>4, <1>5 DEF Prepared, OpAt
<1>7. ASSUME NEW h, h = Held(r), Progress(r, h, dirs, pc[w], mem[w], buf[w])
      PROVE  Progress(r, h, dirs, next, mem'[w], buf'[w])
  <2>1. h.ino # 0 /\ fields[5] = Info(h)
    BY <1>2, <1>4, <1>7, HeldFacts DEF HeldFits, Info, FileInfo
  <2>2. /\ mem[w].size = Len(h.data) /\ mem[w].read = h.read
        /\ mem[w].pos = 0 /\ mem[w].ino = h.ino
    BY <1>1, <1>7 DEF Progress
  <2>3. CASE mem[w].read
    BY <1>4, <1>5, <2>1, <2>2, <2>3 DEF Progress
  <2>4. CASE ~mem[w].read
    <3>1. Right(r, h, Len(fields), fields)
      BY <1>2, <1>4, <2>1, <2>2, <2>4 DEF Right
    <3> QED
      BY <1>5, <2>4, <3>1 DEF Progress
  <2> QED
    BY <2>3, <2>4
<1> HIDE DEF next
<1> QED
  BY <1>5, <1>6, <1>7, QuietSame

LEMMA IsDirStep ==
  ASSUME ExchangeInv, NEW w \in Worker, UNCHANGED clientVars, IsDir(w)
  PROVE  ExchangeInv'
<1> DEFINE next == IF dirs >= Depth THEN "fopenw" ELSE "probe"
<1>1. pc[w] = "isdir" /\ OpAt(pc[w]) = "create"
  BY DEF IsDir, OpAt
<1>2. /\ FileTypes /\ Domains /\ WorkerInv(w) /\ req[w].op = "create"
      /\ mem[w] \in Mem /\ buf[w] \in Seq(Fields)
  BY <1>1, AtWork
<1>3. mem[w] = NoMem /\ dirs \in 0 .. Depth /\ Depth \in Nat
  BY <1>1, <1>2, FilesAssumption DEF WorkerInv, FileTypes
<1>4. mem'[w] \in Mem /\ mem'[w].ino = 0 /\ mem'[w].pos = Depth
  <2>1. mem[w].ino = 0
    BY <1>3 DEF NoMem
  <2> QED
    BY <1>2, <1>3, <2>1 DEF IsDir, Domains, Mem
<1>5. Quiet(w, next) /\ buf'[w] = buf[w] /\ SameFiles
  BY <1>2 DEF IsDir, Quiet, Alone, Domains
<1>6. next \in {"fopenw", "probe"} /\ OpAt(next) = "create"
  BY DEF OpAt
<1>7. next = "probe" => dirs < Depth
  BY <1>3
<1> HIDE DEF next
<1>8. Prepared(w, next, mem'[w], buf'[w])
  BY <1>1, <1>2, <1>3, <1>4, <1>5, <1>6 DEF Prepared
<1>9. \A h : Progress(req[w], h, dirs, pc[w], mem[w], buf[w])
               => Progress(req[w], h, dirs, next, mem'[w], buf'[w])
  BY <1>3, <1>4, <1>6, <1>7 DEF Progress
<1> QED
  BY <1>5, <1>8, <1>9, QuietSame

LEMMA ProbeDirStep ==
  ASSUME ExchangeInv, NEW w \in Worker, UNCHANGED clientVars, ProbeDir(w)
  PROVE  ExchangeInv'
<1> DEFINE pos == mem[w].pos
           down == pos > 0 /\ dirs < pos
           next == IF down THEN "probe" ELSE IF pos < Depth THEN "mkdir" ELSE "isdir2"
<1>1. pc[w] = "probe" /\ OpAt(pc[w]) = "create"
  BY DEF ProbeDir, OpAt
<1>2. /\ FileTypes /\ Domains /\ WorkerInv(w) /\ req[w].op = "create"
      /\ mem[w] \in Mem /\ buf[w] \in Seq(Fields)
  BY <1>1, AtWork
<1>3. /\ mem[w].ino = 0 /\ pos \in Nat /\ pos <= Depth
      /\ dirs \in 0 .. Depth /\ Depth \in Nat
  BY <1>1, <1>2, FilesAssumption DEF WorkerInv, FileTypes, Mem
<1>4. /\ mem'[w] \in Mem /\ mem'[w].ino = 0
      /\ mem'[w].pos = IF down THEN pos - 1 ELSE pos + 1
  BY <1>2, <1>3 DEF ProbeDir, Domains, Mem
<1>5. Quiet(w, next) /\ buf'[w] = buf[w] /\ SameFiles
  BY <1>2 DEF ProbeDir, Quiet, Alone, Domains, Goto
<1>6. next \in {"probe", "mkdir", "isdir2"} /\ OpAt(next) = "create"
  BY DEF OpAt
<1>7. /\ next = "probe" => down
      /\ next = "mkdir" => ~down /\ pos < Depth
      /\ next = "isdir2" => ~down /\ pos >= Depth
  BY <1>3
<1> HIDE DEF next
<1>8. Prepared(w, next, mem'[w], buf'[w])
  BY <1>1, <1>2, <1>3, <1>4, <1>5, <1>6, <1>7 DEF Prepared
<1>9. ASSUME NEW h, Progress(req[w], h, dirs, pc[w], mem[w], buf[w])
      PROVE  Progress(req[w], h, dirs, next, mem'[w], buf'[w])
  <2>1. dirs <= pos /\ dirs < Depth
    BY <1>1, <1>9 DEF Progress
  <2>2. /\ next = "probe" => mem'[w].pos <= Depth /\ dirs <= mem'[w].pos
        /\ next = "mkdir" => mem'[w].pos <= Depth /\ mem'[w].pos = dirs + 1
        /\ next # "isdir2"
    BY <1>3, <1>4, <1>6, <1>7, <2>1
  <2> QED
    BY <1>6, <2>1, <2>2 DEF Progress
<1> QED
  BY <1>5, <1>8, <1>9, QuietSame

LEMMA IsDirNowStep ==
  ASSUME ExchangeInv, NEW w \in Worker, UNCHANGED clientVars, IsDirNow(w)
  PROVE  ExchangeInv'
<1>1. pc[w] = "isdir2" /\ OpAt(pc[w]) = "create"
  BY DEF IsDirNow, OpAt
<1>2. /\ FileTypes /\ Domains /\ WorkerInv(w) /\ req[w].op = "create"
      /\ mem[w] \in Mem /\ buf[w] \in Seq(Fields)
  BY <1>1, AtWork
<1>3. mem[w].ino = 0 /\ mem'[w] = mem[w] /\ SameFiles
  BY <1>1, <1>2 DEF WorkerInv, IsDirNow
<1>4. CASE dirs >= Depth
  <2>1. Quiet(w, "fopenw") /\ buf'[w] = buf[w]
    BY <1>2, <1>4 DEF IsDirNow, Quiet, Alone, Domains
  <2>2. Prepared(w, "fopenw", mem'[w], buf'[w])
    BY <1>1, <1>2, <1>3, <2>1 DEF Prepared, OpAt
  <2>3. \A h : Progress(req[w], h, dirs, pc[w], mem[w], buf[w])
                 => Progress(req[w], h, dirs, "fopenw", mem'[w], buf'[w])
    BY DEF Progress
  <2> QED
    BY <1>3, <2>1, <2>2, <2>3, QuietSame
<1>5. CASE ~(dirs >= Depth)
  <2>1. Quiet(w, "reply") /\ buf'[w] = Failed
    BY <1>2, <1>5 DEF IsDirNow, Answer, Quiet, Alone, Domains
  <2>2. Prepared(w, "reply", mem'[w], buf'[w])
    BY <1>1, <1>2, <1>3, <2>1, FieldFacts DEF Prepared, OpAt
  <2>3. dirs # Depth
    BY <1>2, <1>5, FilesAssumption DEF FileTypes
  <2>4. \A h : ~Progress(req[w], h, dirs, pc[w], mem[w], buf[w])
    BY <1>1, <2>3 DEF Progress
  <2> QED
    BY <1>3, <2>1, <2>2, <2>4, QuietSame
<1> QED
  BY <1>4, <1>5

LEMMA DeleteAccessStep ==
  ASSUME ExchangeInv, NEW w \in Worker, UNCHANGED clientVars, DeleteAccess(w)
  PROVE  ExchangeInv'
<1> DEFINE r == req[w]
           i == name[r.path]
<1>1. pc[w] = "access" /\ OpAt(pc[w]) = "delete"
  BY DEF DeleteAccess, OpAt
<1>2. /\ FileTypes /\ Domains /\ WorkerInv(w) /\ r \in Requests /\ r.op = "delete"
      /\ mem[w] \in Mem /\ buf[w] \in Seq(Fields) /\ r.path \in Path /\ InodeOf(r) = i
  BY <1>1, AtWork
<1>3. mem'[w] = mem[w] /\ SameFiles
  BY DEF DeleteAccess
<1>4. CASE i = 0
  <2>1. Quiet(w, "reply") /\ buf'[w] = Ok
    BY <1>2, <1>4 DEF DeleteAccess, Answer, Quiet, Alone, Domains
  <2>2. Prepared(w, "reply", mem'[w], buf'[w])
    BY <1>1, <1>2, <1>3, <2>1, FieldFacts DEF Prepared, OpAt
  <2>3. ASSUME NEW h, h = Held(r)  PROVE Right(r, h, Len(Ok), Ok)
    <3>1. Done(r, h)
      BY <1>2, <1>4, <2>3, HeldFacts DEF HeldFits, Done
    <3> QED
      BY <1>2, <3>1 DEF Right, Ok, Good
  <2>4. \A h : /\ h = Held(r) /\ Progress(r, h, dirs, pc[w], mem[w], buf[w])
               => Progress(r, h, dirs, "reply", mem'[w], buf'[w])
    BY <2>1, <2>3 DEF Progress
  <2> QED
    BY <1>3, <2>1, <2>2, <2>4, QuietSame
<1>5. CASE i # 0
  <2>1. Quiet(w, "remove") /\ buf'[w] = buf[w]
    BY <1>2, <1>5 DEF DeleteAccess, Quiet, Alone, Domains
  <2>2. Prepared(w, "remove", mem'[w], buf'[w])
    BY <1>1, <1>2, <1>3, <2>1 DEF Prepared, OpAt
  <2>3. \A h : h = Held(r) => h.ino # 0
    BY <1>2, <1>5, HeldFacts DEF HeldFits
  <2>4. \A h : /\ h = Held(r) /\ Progress(r, h, dirs, pc[w], mem[w], buf[w])
               => Progress(r, h, dirs, "remove", mem'[w], buf'[w])
    BY <2>3 DEF Progress
  <2> QED
    BY <1>3, <2>1, <2>2, <2>4, QuietSame
<1> QED
  BY <1>4, <1>5

LEMMA TouchFacts ==
  ASSUME FileTypes, NEW w \in Worker, Touch(w)
  PROVE  Disturbs(w) /\ clean' \in [Client -> BOOLEAN]
  BY DEF Disturbs, Touch, FileTypes

LEMMA QuietRefused ==
  ASSUME ExchangeInv, NEW w \in Worker, UNCHANGED clientVars, NEW next,
         Quiet(w, next), Prepared(w, next, mem'[w], buf'[w]),
         Refuse(w), UNCHANGED <<name, body, attr, dirs>>
  PROVE  ExchangeInv'
<1>1. FileTypes
  BY DEF ExchangeInv
<1>2. clean' \in [Client -> BOOLEAN] /\ \A c \in Client : clean'[c] => clean[c] /\ c \notin Owner(w)
  BY DEF Refuse
<1>3. FileTypes'
  BY <1>1, <1>2 DEF FileTypes
<1>4. FilesSame
  BY DEF FilesSame
<1>5. Disturbs(w) /\ Advances(w, next)
  BY <1>2, <1>4 DEF Disturbs, Advances
<1> QED
  BY <1>3, <1>5, QuietStep

LEMMA BuildStartStep ==
  ASSUME ExchangeInv, NEW w \in Worker, UNCHANGED clientVars, BuildStart(w)
  PROVE  ExchangeInv'
<1>1. pc[w] = "popen" /\ OpAt(pc[w]) = "build"
  BY DEF BuildStart, OpAt
<1>2. /\ FileTypes /\ Domains /\ WorkerInv(w) /\ req[w].op = "build"
      /\ mem[w] \in Mem /\ buf[w] \in Seq(Fields)
  BY <1>1, AtWork
<1>3. mem'[w] = mem[w] /\ UNCHANGED <<name, body, attr, dirs>>
  BY DEF BuildStart
<1>4. CASE Answer(w, Failed) /\ Refuse(w)
  <2>1. Quiet(w, "reply") /\ buf'[w] = Failed
    BY <1>2, <1>4 DEF BuildStart, Answer, Quiet, Alone, Domains
  <2>2. Prepared(w, "reply", mem'[w], buf'[w])
    BY <1>1, <1>2, <1>3, <2>1, FieldFacts DEF Prepared, OpAt
  <2> QED
    BY <1>3, <1>4, <2>1, <2>2, QuietRefused
<1>5. CASE Goto(w, "getline") /\ UNCHANGED <<buf, clean>>
  <2>1. Quiet(w, "getline") /\ buf'[w] = buf[w] /\ SameFiles
    BY <1>2, <1>3, <1>5 DEF BuildStart, Quiet, Alone, Domains, SameFiles
  <2>2. Prepared(w, "getline", mem'[w], buf'[w])
    BY <1>1, <1>2, <1>3, <2>1 DEF Prepared, OpAt
  <2>3. \A h : Progress(req[w], h, dirs, pc[w], mem[w], buf[w])
                 => Progress(req[w], h, dirs, "getline", mem'[w], buf'[w])
    BY DEF Progress
  <2> QED
    BY <2>1, <2>2, <2>3, QuietSame
<1> QED
  BY <1>4, <1>5 DEF BuildStart

\* BuildOutput when the command wrote something.
LEMMA BuildOutputStep ==
  ASSUME ExchangeInv, NEW w \in Worker, UNCHANGED clientVars, BuildOutput(w),
         Answer(w, Ok \o <<<<"msg", 0>>>>), UNCHANGED <<up, link>>
  PROVE  ExchangeInv'
<1>1. pc[w] = "getline" /\ OpAt(pc[w]) = "build"
  BY DEF BuildOutput, OpAt
<1>2. /\ FileTypes /\ Domains /\ WorkerInv(w) /\ req[w].op = "build"
      /\ mem[w] \in Mem /\ buf[w] \in Seq(Fields)
  BY <1>1, AtWork
<1>3. PICK fields \in Seq(Fields) : /\ fields = Ok \o <<<<"msg", 0>>>>
                                    /\ Good(fields) /\ Len(fields) = 5
  <2>1. <<<<"msg", 0>>>> \in Seq(Fields) /\ Len(<<<<"msg", 0>>>>) = 1
    BY DEF Fields, Kind
  <2>2. PICK one \in Seq(Fields) : one = <<<<"msg", 0>>>> /\ Len(one) = 1
    BY <2>1
  <2>3. Ok \in Seq(Fields) /\ Len(Ok) = 4 /\ Len(Ok) >= 3 /\ Good(Ok)
    BY FieldFacts DEF Ok, Good
  <2>4. Joins(Ok \o one, Ok, one)
    BY <2>2, <2>3, Joined
  <2>5. Good(Ok \o one)
    BY <2>2, <2>3, <2>4, GoodJoined
  <2>6. Ok \o one \in Seq(Fields) /\ Len(Ok \o one) = 5
    BY <2>2, <2>3, <2>4 DEF Joins
  <2> QED
    BY <2>2, <2>5, <2>6
<1>4. Quiet(w, "reply") /\ mem'[w] = mem[w] /\ buf'[w] = fields /\ SameFiles
  BY <1>2, <1>3 DEF BuildOutput, Answer, Quiet, Alone, Domains
<1>5. Prepared(w, "reply", mem'[w], buf'[w])
  BY <1>1, <1>2, <1>3, <1>4 DEF Prepared, OpAt
<1>6. \A h : Right(req[w], h, Len(fields), fields)
  BY <1>2, <1>3 DEF Right, Done
<1>7. \A h : Progress(req[w], h, dirs, pc[w], mem[w], buf[w])
               => Progress(req[w], h, dirs, "reply", mem'[w], buf'[w])
  BY <1>4, <1>6 DEF Progress
<1> QED
  BY <1>4, <1>5, <1>7, QuietSame

LEMMA ViewOpenStep ==
  ASSUME ExchangeInv, NEW w \in Worker, UNCHANGED clientVars, ViewOpen(w)
  PROVE  ExchangeInv'
<1> DEFINE r == req[w]
           i == name[r.path]
<1>1. pc[w] = "fopen" /\ OpAt(pc[w]) = "view"
  BY DEF ViewOpen, OpAt
<1>2. /\ FileTypes /\ Domains /\ WorkerInv(w) /\ r \in Requests /\ r.op = "view"
      /\ mem[w] \in Mem /\ buf[w] \in Seq(Fields) /\ r.path \in Path /\ InodeOf(r) = i
  BY <1>1, AtWork
<1>3. CASE Answer(w, Failed) /\ Refuse(w) /\ UNCHANGED mem
  <2>1. Quiet(w, "reply") /\ buf'[w] = Failed /\ mem'[w] = mem[w]
    BY <1>2, <1>3 DEF ViewOpen, Answer, Quiet, Alone, Domains
  <2>2. Prepared(w, "reply", mem'[w], buf'[w])
    BY <1>1, <1>2, <2>1, FieldFacts DEF Prepared, OpAt
  <2>3. UNCHANGED <<name, body, attr, dirs>>
    BY DEF ViewOpen
  <2> QED
    BY <1>3, <2>1, <2>2, <2>3, QuietRefused
<1>4. CASE /\ i # 0 /\ mem' = [mem EXCEPT ![w].ino = i]
           /\ Goto(w, "info") /\ UNCHANGED <<buf, clean>>
  <2>1. Quiet(w, "info") /\ buf'[w] = buf[w] /\ SameFiles
    BY <1>2, <1>4 DEF ViewOpen, Quiet, Alone, Domains, SameFiles
  <2>2. i \in Inode
    BY <1>2, <1>4 DEF FileTypes
  <2>3. /\ mem'[w] \in Mem /\ mem'[w].ino = i /\ mem'[w].size = mem[w].size
        /\ mem'[w].pos = mem[w].pos /\ mem'[w].read = mem[w].read
    BY <1>2, <1>4, <2>2 DEF Domains, Mem
  <2>4. Prepared(w, "info", mem'[w], buf'[w])
    BY <1>1, <1>2, <2>1, <2>3 DEF Prepared, OpAt
  <2>5. \A h : h = Held(r) => h.ino = i
    BY <1>2, HeldFacts DEF HeldFits
  <2>6. ASSUME NEW h, h = Held(r), Progress(r, h, dirs, pc[w], mem[w], buf[w])
        PROVE  Progress(r, h, dirs, "info", mem'[w], buf'[w])
    BY <1>1, <2>3, <2>5, <2>6 DEF Progress
  <2> QED
    BY <2>1, <2>4, <2>6, QuietSame
<1> QED
  BY <1>3, <1>4 DEF ViewOpen

LEMMA MakeDirStep ==
  ASSUME ExchangeInv, NEW w \in Worker, UNCHANGED clientVars, MakeDir(w)
  PROVE  ExchangeInv'
<1> DEFINE pos == mem[w].pos
           next == IF pos < Depth THEN "mkdir" ELSE "isdir2"
<1>1. pc[w] = "mkdir" /\ OpAt(pc[w]) = "create"
  BY DEF MakeDir, OpAt
<1>2. /\ FileTypes /\ Domains /\ WorkerInv(w) /\ req[w].op = "create" /\ req[w] \in Requests
      /\ mem[w] \in Mem /\ buf[w] \in Seq(Fields)
  BY <1>1, AtWork
<1>3. /\ mem[w].ino = 0 /\ pos \in Nat /\ pos <= Depth
      /\ dirs \in 0 .. Depth /\ Depth \in Nat
  BY <1>1, <1>2, FilesAssumption DEF WorkerInv, FileTypes, Mem
<1>4. CASE dirs >= pos /\ Goto(w, "isdir2") /\ UNCHANGED <<mem, dirs, clean>>
  <2>1. Quiet(w, "isdir2") /\ buf'[w] = buf[w] /\ mem'[w] = mem[w] /\ SameFiles
    BY <1>2, <1>4 DEF MakeDir, Quiet, Alone, Domains, SameFiles
  <2>2. Prepared(w, "isdir2", mem'[w], buf'[w])
    BY <1>1, <1>2, <1>3, <2>1 DEF Prepared, OpAt
  <2>3. pos # dirs + 1
    BY <1>3, <1>4
  <2>4. \A h : ~Progress(req[w], h, dirs, pc[w], mem[w], buf[w])
    BY <1>1, <2>3 DEF Progress
  <2> QED
    BY <2>1, <2>2, <2>4, QuietSame
<1>5. CASE /\ dirs < pos /\ dirs' = pos /\ Touch(w)
           /\ mem' = [mem EXCEPT ![w].pos = @ + 1]
           /\ Goto(w, next)
  <2>1. Quiet(w, next) /\ buf'[w] = buf[w] /\ UNCHANGED <<name, body, attr>>
    BY <1>2, <1>5 DEF MakeDir, Quiet, Alone, Domains
  <2>2. mem'[w] \in Mem /\ mem'[w].ino = 0 /\ mem'[w].pos = pos + 1
    BY <1>2, <1>3, <1>5 DEF Domains, Mem
  <2>3. next \in {"mkdir", "isdir2"} /\ OpAt(next) = "create"
    BY DEF OpAt
  <2>4. /\ next = "mkdir" => pos + 1 <= Depth
        /\ next = "isdir2" => pos = Depth
    BY <1>3
  <2> HIDE DEF next
  <2>5. Prepared(w, next, mem'[w], buf'[w])
    BY <1>1, <1>2, <2>1, <2>2, <2>3, <2>4 DEF Prepared
  <2>6. FileTypes' /\ Disturbs(w)
    BY <1>2, <1>3, <1>5, <2>1, TouchFacts DEF FileTypes
  <2>7. \A h : Progress(req[w], h, dirs', next, mem'[w], buf'[w])
    BY <1>3, <1>5, <2>2, <2>3, <2>4 DEF Progress
  <2>8. Advances(w, next)
    BY <2>7 DEF Advances
  <2> QED
    BY <2>1, <2>5, <2>6, <2>8, QuietStep
<1> QED
  BY <1>4, <1>5 DEF MakeDir

-----------------------------------------------------------------------------
(* There is a free inode: fewer are linked or open than there are.         *)

LEMMA FewValues ==
  ASSUME NEW S, IsFiniteSet(S), NEW f
  PROVE  /\ IsFiniteSet({f[x] : x \in S})
         /\ Cardinality({f[x] : x \in S}) <= Cardinality(S)
<1> DEFINE T == {f[x] : x \in S}
           g == [x \in S |-> f[x]]
<1>1. g \in [S -> T] /\ \A t \in T : \E x \in S : g[x] = t
  OBVIOUS
<1>2. g \in Surjection(S, T)
  BY <1>1 DEF Surjection
<1> HIDE DEF g, T
<1>3. IsFiniteSet(T) /\ Cardinality(T) <= Cardinality(S)
  BY <1>2, FS_Surjection
<1> QED
  BY <1>3 DEF T

LEMMA FreeInodeIsFree ==
  ASSUME FileTypes, NEW w \in Worker, mem[w].ino = 0
  PROVE  FreeInode \in Inode
<1> DEFINE L == {name[p] : p \in Path}
           V == Worker \ {w}
           H == {[u \in Worker |-> mem[u].ino][v] : v \in V}
<1>1. IsFiniteSet(L) /\ Cardinality(L) <= Cardinality(Path) /\ Cardinality(Path) \in Nat
  BY FewValues, FilesAssumption, FS_CardinalityType
<1>2. Workers \in Nat /\ Workers > 0
  BY FilesAssumption
<1>3. IsFiniteSet(Worker) /\ Cardinality(Worker) = Workers
  BY <1>2, FS_Interval, SMTT(30) DEF Worker
<1>4. IsFiniteSet(V) /\ Cardinality(V) = Workers - 1
  BY <1>3, FS_RemoveElement
<1>5. IsFiniteSet(H) /\ Cardinality(H) <= Cardinality(V)
  <2> DEFINE f == [v \in Worker |-> mem[v].ino]
  <2> HIDE DEF f, V
  <2>1. /\ IsFiniteSet({f[v] : v \in V})
        /\ Cardinality({f[v] : v \in V}) <= Cardinality(V)
    BY <1>4, FewValues
  <2> QED
    BY <2>1 DEF f
<1> HIDE DEF L, V, H
<1>6. /\ IsFiniteSet(L \cup H)
      /\ Cardinality(L \cup H) = Cardinality(L) + Cardinality(H) - Cardinality(L \cap H)
  BY <1>1, <1>5, FS_Union
<1>7. Cardinality(L) \in Nat /\ Cardinality(H) \in Nat /\ Cardinality(L \cap H) \in Nat
  <2>1. IsFiniteSet(L \cap H)
    BY <1>1, FS_Subset
  <2> QED
    BY <1>1, <1>5, <2>1, FS_CardinalityType
<1>8. Cardinality(L \cup H) < Cardinality(Path) + Workers
  BY <1>1, <1>2, <1>4, <1>5, <1>6, <1>7
<1>9. Cardinality(Inode) = Cardinality(Path) + Workers
  BY <1>1, <1>2, FS_Interval DEF Inode
<1>10. PICK i \in Inode : i \notin L \cup H
  <2> SUFFICES ASSUME Inode \subseteq L \cup H  PROVE FALSE
    OBVIOUS
  <2>1. Cardinality(Inode) <= Cardinality(L \cup H)
    BY <1>6, FS_Subset
  <2>2. Cardinality(L \cup H) \in Nat
    BY <1>6, FS_CardinalityType
  <2> QED
    BY <1>1, <1>2, <1>8, <1>9, <2>1, <2>2
<1>11. ~Linked(i)
  BY <1>10 DEF Linked, L
<1>12. ~OpenFile(i)
  <2>1. i # 0
    BY <1>1, <1>2 DEF Inode
  <2> QED
    BY <1>10, <2>1 DEF OpenFile, H, V
<1> QED
  BY <1>11, <1>12 DEF FreeInode

-----------------------------------------------------------------------------
(* The steps that change files                                             *)

LEMMA QuietTouch ==
  ASSUME ExchangeInv, NEW w \in Worker, UNCHANGED clientVars, NEW next,
         Quiet(w, next), Prepared(w, next, mem'[w], buf'[w]),
         FileTypes', Touch(w), NEW r \in Requests, r = req[w],
         Progress(r, Held(r), dirs, pc[w], mem[w], buf[w])
           => Progress(r, Held(r)', dirs', next, mem'[w], buf'[w])
  PROVE  ExchangeInv'
<1>1. Disturbs(w)
  BY TouchFacts DEF ExchangeInv
<1>2. Held(req[w])' = Held(r)'
  BY DEF Quiet, Alone
<1>3. Advances(w, next)
  BY <1>2 DEF Advances
<1> QED
  BY <1>1, <1>3, QuietStep

LEMMA CreateOpenStep ==
  ASSUME ExchangeInv, NEW w \in Worker, UNCHANGED clientVars, CreateOpen(w)
  PROVE  ExchangeInv'
<1>1. pc[w] = "fopenw" /\ OpAt(pc[w]) = "create"
  BY DEF CreateOpen, OpAt
<1>2. PICK r \in Requests : r = req[w] /\ r.op = "create" /\ r.path \in Path
  BY <1>1, AtWork
<1>3. /\ FileTypes /\ Domains /\ WorkerInv(w) /\ mem[w] \in Mem /\ buf[w] \in Seq(Fields)
      /\ r.data \in Seq(Unit)
  BY <1>1, <1>2, AtWork, RequestFacts
<1>4. CASE Answer(w, Failed) /\ Refuse(w) /\ UNCHANGED <<name, body, attr, mem>>
  <2>1. Quiet(w, "reply") /\ buf'[w] = Failed /\ mem'[w] = mem[w] /\ dirs' = dirs
    BY <1>3, <1>4 DEF CreateOpen, Answer, Quiet, Alone, Domains
  <2>2. Prepared(w, "reply", mem'[w], buf'[w])
    BY <1>1, <1>3, <2>1, FieldFacts DEF Prepared, OpAt
  <2> QED
    BY <1>4, <2>1, <2>2, QuietRefused
<1> DEFINE p == r.path
           i == IF name[p] = 0 THEN FreeInode ELSE name[p]
           new == IF name[p] = 0 THEN NewAttr ELSE [attr[i] EXCEPT !.date = "now"]
<1>5. CASE /\ name' = [name EXCEPT ![p] = i] /\ body' = [body EXCEPT ![i] = <<>>]
           /\ attr' = [attr EXCEPT ![i] = new]
           /\ Touch(w) /\ mem' = [mem EXCEPT ![w].ino = i, ![w].pos = 0]
           /\ Goto(w, "fwrite") /\ UNCHANGED buf
  <2>1. i \in Inode
    BY <1>1, <1>2, <1>3, FreeInodeIsFree DEF WorkerInv, FileTypes
  <2>2. new \in Attr
    <3>1. NewAttr \in Attr
      BY DEF NewAttr, Attr
    <3>2. attr[i] \in Attr /\ [attr[i] EXCEPT !.date = "now"] \in Attr
      <4>1. attr[i] \in Attr
        BY <1>3, <2>1 DEF FileTypes
      <4> QED
        BY <4>1 DEF Attr
    <3> QED
      BY <3>1, <3>2
  <2> HIDE DEF i, new
  <2>3. Quiet(w, "fwrite") /\ buf'[w] = buf[w] /\ dirs' = dirs
    BY <1>3, <1>5 DEF CreateOpen, Quiet, Alone, Domains
  <2>4. mem'[w] \in Mem /\ mem'[w].ino = i /\ mem'[w].pos = 0
    BY <1>3, <1>5, <2>1 DEF Domains, Mem
  <2>5. Prepared(w, "fwrite", mem'[w], buf'[w])
    BY <1>1, <1>2, <1>3, <2>3, <2>4 DEF Prepared, OpAt
  <2>6. <<>> \in Seq(Unit)
    OBVIOUS
  <2>7. FileTypes'
    BY <1>2, <1>3, <1>5, <2>1, <2>2, <2>3, <2>6, TouchFacts DEF FileTypes
  <2>8. HeldFits(r)'
    BY <2>7, HeldFactsNext
  <2>9. InodeOf(r)' = i /\ i # 0 /\ body'[i] = <<>>
    BY <1>2, <1>3, <1>5, <2>1, FilesAssumption DEF InodeOf, FileTypes, Inode
  <2>10. Held(r)'.ino = i /\ Held(r)'.data = <<>>
    BY <2>8, <2>9 DEF HeldFits
  <2>11. Progress(r, Held(r)', dirs', "fwrite", mem'[w], buf'[w])
    BY <1>3, <2>4, <2>9, <2>10 DEF Progress
  <2> QED
    BY <1>2, <1>5, <2>3, <2>5, <2>7, <2>11, QuietTouch
<1> QED
  BY <1>2, <1>4, <1>5 DEF CreateOpen

LEMMA CloseFacts ==
  ASSUME FileTypes, Domains, NEW w \in Worker, Close(w), UNCHANGED <<name, dirs>>
  PROVE  /\ FilesSame /\ body' \in [Inode -> Seq(Unit)] /\ attr' \in [Inode -> Attr]
         /\ DOMAIN mem' = Worker /\ mem'[w] = NoMem
         /\ \A v \in Worker \ {w} : mem'[v] = mem[v]
<1> DEFINE i == mem[w].ino
<1>1. /\ DOMAIN mem' = Worker /\ mem'[w] = NoMem
      /\ \A v \in Worker \ {w} : mem'[v] = mem[v]
  BY DEF Close, Domains
<1>2. CASE UNCHANGED <<body, attr>>
  BY <1>1, <1>2 DEF FilesSame, FileTypes
<1>3. CASE ~Linked(i) /\ Drop(i)
  <2>1. <<>> \in Seq(Unit) /\ NewAttr \in Attr
    BY DEF NewAttr, Attr
  <2>2. body' \in [Inode -> Seq(Unit)] /\ attr' \in [Inode -> Attr]
    BY <1>3, <2>1 DEF Drop, FileTypes
  <2>3. ASSUME NEW p \in Path, name[p] # 0
        PROVE  body'[name[p]] = body[name[p]] /\ attr'[name[p]] = attr[name[p]]
    BY <1>3, <2>3 DEF Drop, Linked, FileTypes
  <2> QED
    BY <1>1, <2>2, <2>3 DEF FilesSame
<1> QED
  BY <1>2, <1>3 DEF Close

LEMMA NoMemFact == NoMem \in Mem
  BY DEF NoMem, Mem

\* R is data with unit written at pos.
IsWritten(R, data, pos, unit) ==
  /\ R \in Seq(Unit)
  /\ pos = Len(data) + 1 => /\ Len(R) = pos /\ R[pos] = unit
                            /\ \A i \in 1 .. Len(data) : R[i] = data[i]

LEMMA Written ==
  ASSUME NEW data \in Seq(Unit), NEW pos \in Nat \ {0}, NEW unit \in Unit
  PROVE  IsWritten(WriteAt(data, pos, unit), data, pos, unit)
<1> DEFINE n == IF pos > Len(data) THEN pos ELSE Len(data)
           value(i) == IF i = pos THEN unit ELSE IF i <= Len(data) THEN data[i] ELSE "hole"
<1>1. n \in Nat /\ (pos = Len(data) + 1 => n = pos)
  OBVIOUS
<1>2. ASSUME NEW i \in 1 .. n  PROVE value(i) \in Unit
  BY <1>2 DEF Unit
<1>3. /\ value(pos) = unit
      /\ pos = Len(data) + 1 => \A i \in 1 .. Len(data) : value(i) = data[i]
  OBVIOUS
<1>4. WriteAt(data, pos, unit) = [i \in 1 .. n |-> value(i)]
  BY DEF WriteAt
<1> HIDE DEF n, value
<1>5. [i \in 1 .. n |-> value(i)] \in Seq(Unit) /\ Len([i \in 1 .. n |-> value(i)]) = n
  BY <1>1, <1>2
<1> QED
  BY <1>1, <1>3, <1>4, <1>5 DEF IsWritten

LEMMA CreateWriteStep ==
  ASSUME ExchangeInv, NEW w \in Worker, UNCHANGED clientVars, CreateWrite(w)
  PROVE  ExchangeInv'
<1> DEFINE m == mem[w]
<1>1. pc[w] = "fwrite" /\ OpAt(pc[w]) = "create"
  BY DEF CreateWrite, OpAt
<1>2. PICK r \in Requests : r = req[w] /\ r.op = "create" /\ r.path \in Path
  BY <1>1, AtWork
<1>3. /\ FileTypes /\ Domains /\ WorkerInv(w) /\ mem[w] \in Mem /\ buf[w] \in Seq(Fields)
      /\ r.data \in Seq(Unit) /\ m.pos \in Nat
  BY <1>1, <1>2, AtWork, RequestFacts DEF Mem
<1>4. CASE /\ m.pos < Len(r.data)
           /\ body' = [body EXCEPT ![m.ino] = WriteAt(@, m.pos + 1, r.data[m.pos + 1])]
           /\ attr' = [attr EXCEPT ![m.ino].date = "now"]
           /\ mem' = [mem EXCEPT ![w].pos = @ + 1]
           /\ Touch(w) /\ Goto(w, "fwrite")
  <2> DEFINE unit == r.data[m.pos + 1]
             new == WriteAt(body[m.ino], m.pos + 1, unit)
  <2>1. unit \in Unit /\ m.pos + 1 \in Nat \ {0}
    BY <1>3, <1>4
  <2>2. m.ino \in Inode => IsWritten(new, body[m.ino], m.pos + 1, unit) /\ new \in Seq(Unit)
    <3>1. m.ino \in Inode => body[m.ino] \in Seq(Unit)
      BY <1>3 DEF FileTypes
    <3>2. m.ino \in Inode => IsWritten(new, body[m.ino], m.pos + 1, unit)
      BY <2>1, <3>1, Written
    <3> QED
      BY <3>2 DEF IsWritten
  <2>3. Quiet(w, "fwrite") /\ buf'[w] = buf[w] /\ name' = name /\ dirs' = dirs
    BY <1>3, <1>4 DEF CreateWrite, Quiet, Alone, Domains
  <2>4. mem'[w] \in Mem /\ mem'[w].ino = m.ino /\ mem'[w].pos = m.pos + 1
    <3>1. mem' = [mem EXCEPT ![w].pos = @ + 1]
      BY <1>4
    <3> QED
      BY <1>3, <3>1, SMTT(30) DEF Domains, Mem
  <2>5. Prepared(w, "fwrite", mem'[w], buf'[w])
    BY <1>1, <1>2, <1>3, <2>3, <2>4 DEF Prepared, OpAt
  <2>6. body' \in [Inode -> Seq(Unit)]
    <3> HIDE DEF new
    <3>1. body' = [body EXCEPT ![m.ino] = new]
      BY <1>4 DEF new
    <3> QED
      BY <1>3, <2>2, <3>1 DEF FileTypes
  <2>7. attr' \in [Inode -> Attr]
    BY <1>3, <1>4 DEF FileTypes, Attr
  <2>8. FileTypes'
    BY <1>3, <1>4, <2>3, <2>6, <2>7, TouchFacts DEF FileTypes
  <2>9. HeldFits(r) /\ HeldFits(r)' /\ InodeOf(r)' = InodeOf(r)
    BY <1>3, <2>3, <2>8, HeldFacts, HeldFactsNext DEF InodeOf
  <2>10. ASSUME Progress(r, Held(r), dirs, pc[w], mem[w], buf[w])
         PROVE  Progress(r, Held(r)', dirs', "fwrite", mem'[w], buf'[w])
    <3>1. /\ InodeOf(r) # 0 /\ m.ino = InodeOf(r) /\ Len(body[m.ino]) = m.pos
          /\ \A i \in 1 .. m.pos : body[m.ino][i] = r.data[i]
      BY <1>1, <2>9, <2>10 DEF Progress, HeldFits
    <3>2. m.ino \in Inode /\ Held(r)'.data = body'[m.ino] /\ Held(r)'.ino = m.ino
      BY <2>9, <3>1 DEF HeldFits
    <3>3. body'[m.ino] = new
      BY <1>3, <1>4, <3>2 DEF FileTypes
    <3>4. /\ Len(new) = m.pos + 1 /\ new[m.pos + 1] = unit
          /\ \A i \in 1 .. m.pos : new[i] = body[m.ino][i]
      <4>1. Len(body[m.ino]) = m.pos
        BY <3>1
      <4> HIDE DEF new, unit
      <4> QED
        BY <1>3, <2>2, <3>2, <4>1 DEF IsWritten
    <3> HIDE DEF new
    <3>5. \A i \in 1 .. m.pos + 1 : new[i] = r.data[i]
      <4> SUFFICES ASSUME NEW i \in 1 .. m.pos + 1  PROVE new[i] = r.data[i]
        OBVIOUS
      <4>1. CASE i = m.pos + 1
        BY <3>4, <4>1
      <4>2. CASE i \in 1 .. m.pos
        BY <3>1, <3>4, <4>2
      <4> QED
        BY <1>3, <4>1, <4>2
    <3>6. m.pos + 1 <= Len(r.data)
      BY <1>3, <1>4
    <3> QED
      BY <2>4, <3>1, <3>2, <3>3, <3>4, <3>5, <3>6 DEF Progress
  <2> QED
    BY <1>2, <1>4, <2>3, <2>5, <2>8, <2>10, QuietTouch
<1>5. CASE /\ IF m.pos < Len(r.data) THEN Refuse(w) ELSE UNCHANGED clean
           /\ Close(w) /\ Goto(w, "utime")
  <2>1. /\ FilesSame /\ body' \in [Inode -> Seq(Unit)] /\ attr' \in [Inode -> Attr]
        /\ DOMAIN mem' = Worker /\ mem'[w] = NoMem
        /\ \A v \in Worker \ {w} : mem'[v] = mem[v]
    BY <1>3, <1>5, CloseFacts DEF CreateWrite
  <2>2. Quiet(w, "utime") /\ buf'[w] = buf[w] /\ name' = name /\ dirs' = dirs
    BY <1>3, <1>5, <2>1 DEF CreateWrite, Quiet, Domains
  <2>3. Prepared(w, "utime", mem'[w], buf'[w])
    BY <1>1, <1>2, <1>3, <2>1, <2>2, NoMemFact DEF Prepared, OpAt
  <2>4. /\ clean' \in [Client -> BOOLEAN]
        /\ \A c \in Client : clean'[c] => clean[c] /\ (m.pos < Len(r.data) => c \notin Owner(w))
    BY <1>3, <1>5 DEF Refuse, FileTypes
  <2>5. FileTypes'
    BY <1>3, <2>1, <2>2, <2>4 DEF FileTypes
  <2>6. Disturbs(w)
    BY <2>1, <2>4 DEF Disturbs
  <2>7. Held(req[w])' = Held(r)
    <3>1. Held(r)' = Held(r)
      BY <2>1, HeldKept
    <3> QED
      BY <1>2, <2>2, <3>1 DEF Quiet, Alone
  <2>8. Advances(w, "utime")
    <3> SUFFICES ASSUME NEW c \in Client, clean'[c], c \in Owner(w),
                        Progress(r, Held(r), dirs, pc[w], mem[w], buf[w])
                 PROVE  Progress(r, Held(r), dirs', "utime", mem'[w], buf'[w])
      BY <1>2, <2>7 DEF Advances
    <3>1. Len(r.data) <= m.pos
      BY <1>3, <2>4
    <3>2. /\ Held(r).ino # 0 /\ Len(Held(r).data) = m.pos /\ m.pos <= Len(r.data)
          /\ \A i \in 1 .. m.pos : Held(r).data[i] = r.data[i]
      BY <1>1 DEF Progress
    <3>3. Held(r).data \in Seq(Unit)
      BY <1>3, HeldFacts DEF HeldFits
    <3>4. Held(r).data = r.data
      BY <1>3, <3>1, <3>2, <3>3, SMTT(30)
    <3> QED
      BY <3>2, <3>4 DEF Progress
  <2> QED
    BY <2>2, <2>3, <2>5, <2>6, <2>8, QuietStep
<1> QED
  BY <1>2, <1>4, <1>5 DEF CreateWrite

\* With the new attributes a file that holds the data is a step further.
Settles(r, step, next, old, new) ==
  /\ new \in Attr
  /\ \A h : /\ h.ino # 0 /\ h.data = r.data /\ h.date = new.date /\ h.read = new.read
            /\ step = "chmod" => old.date = "asked"
            => /\ next = "chmod" => h.date = "asked"
               /\ next = "reply" => Right(r, h, 4, Ok)

\* What is common to utime and chmod.
LEMMA SetByPathStep ==
  ASSUME ExchangeInv, NEW w \in Worker, UNCHANGED clientVars,
         NEW step \in {"utime", "chmod"}, NEW next \in {"chmod", "reply"}, NEW new,
         SetByPath(w, step, new, next), NEW r \in Requests, r = req[w],
         \A i \in Inode : Settles(r, step, next, attr[i], new[i])
  PROVE  ExchangeInv'
<1> DEFINE i == name[r.path]
<1>1. pc[w] = step /\ OpAt(pc[w]) = "create"
  BY DEF SetByPath, OpAt
<1>2. /\ FileTypes /\ Domains /\ WorkerInv(w) /\ mem[w] \in Mem /\ buf[w] \in Seq(Fields)
      /\ r.op = "create" /\ r.path \in Path /\ InodeOf(r) = i
  BY <1>1, AtWork
<1>3. mem'[w] = mem[w] /\ UNCHANGED <<name, body, dirs>>
  BY DEF SetByPath
<1>4. CASE i = 0
  <2>1. Quiet(w, "reply") /\ buf'[w] = Failed /\ SameFiles
    BY <1>2, <1>3, <1>4 DEF SetByPath, Answer, Quiet, Alone, Domains, SameFiles
  <2>2. Prepared(w, "reply", mem'[w], buf'[w])
    BY <1>1, <1>2, <1>3, <2>1, FieldFacts DEF Prepared, OpAt
  <2>3. \A h : h = Held(r) => ~Progress(r, h, dirs, pc[w], mem[w], buf[w])
    BY <1>1, <1>2, <1>4, HeldFacts DEF Progress, HeldFits
  <2> QED
    BY <2>1, <2>2, <2>3, QuietSame
<1>5. CASE i # 0
  <2>1. i \in Inode
    BY <1>2, <1>5 DEF FileTypes
  <2>2. /\ attr' = [attr EXCEPT ![i] = new[i]] /\ Touch(w) /\ Goto(w, next)
        /\ buf' = IF next = "reply" THEN [buf EXCEPT ![w] = Ok] ELSE buf
    BY <1>5 DEF SetByPath
  <2>3. Quiet(w, next) /\ buf'[w] = IF next = "reply" THEN Ok ELSE buf[w]
    BY <1>2, <2>2 DEF SetByPath, Quiet, Alone, Domains
  <2>4. Prepared(w, next, mem'[w], buf'[w])
    BY <1>1, <1>2, <1>3, <2>3, FieldFacts DEF Prepared, OpAt
  <2>5. FileTypes'
    BY <1>2, <1>3, <2>1, <2>2, TouchFacts DEF FileTypes, Settles
  <2>6. HeldFits(r) /\ HeldFits(r)' /\ InodeOf(r)' = i /\ attr'[i] = new[i]
    BY <1>2, <1>3, <2>1, <2>2, <2>5, HeldFacts, HeldFactsNext DEF InodeOf, FileTypes
  <2>7. ASSUME Progress(r, Held(r), dirs, pc[w], mem[w], buf[w])
        PROVE  Progress(r, Held(r)', dirs', next, mem'[w], buf'[w])
    <3>1. body[i] = r.data /\ (step = "chmod" => attr[i].date = "asked")
      BY <1>1, <1>2, <1>5, <2>6, <2>7 DEF Progress, HeldFits
    <3>2. /\ Held(r)'.ino = i /\ Held(r)'.data = body[i]
          /\ Held(r)'.date = new[i].date /\ Held(r)'.read = new[i].read
      BY <1>3, <1>5, <2>6 DEF HeldFits
    <3>3. /\ next = "chmod" => Held(r)'.date = "asked"
          /\ next = "reply" => Right(r, Held(r)', 4, Ok)
      BY <1>5, <2>1, <3>1, <3>2 DEF Settles
    <3>4. Len(Ok) = 4
      BY DEF Ok
    <3>5. CASE next = "chmod"
      BY <1>5, <3>1, <3>2, <3>3, <3>5 DEF Progress
    <3>6. CASE next = "reply"
      BY <2>3, <3>3, <3>4, <3>6 DEF Progress
    <3> QED
      BY <3>5, <3>6
  <2> QED
    BY <2>2, <2>3, <2>4, <2>5, <2>7, QuietTouch
<1> QED
  BY <1>4, <1>5

LEMMA CreateUtimeStep ==
  ASSUME ExchangeInv, NEW w \in Worker, UNCHANGED clientVars, CreateUtime(w)
  PROVE  ExchangeInv'
<1> DEFINE new == [i \in Inode |-> [attr[i] EXCEPT !.date = "asked"]]
<1>1. pc[w] = "utime" /\ OpAt(pc[w]) = "create"
  BY DEF CreateUtime, SetByPath, OpAt
<1>2. PICK r \in Requests : r = req[w]
  BY <1>1, AtWork
<1>3. \A i \in Inode : new[i] \in Attr /\ new[i].date = "asked"
  BY DEF ExchangeInv, FileTypes, Attr
<1>4. SetByPath(w, "utime", new, "chmod")
  BY DEF CreateUtime
<1> HIDE DEF new
<1>5. \A i \in Inode : Settles(r, "utime", "chmod", attr[i], new[i])
  BY <1>3 DEF Settles
<1> QED
  BY <1>2, <1>4, <1>5, SetByPathStep

LEMMA CreateChmodStep ==
  ASSUME ExchangeInv, NEW w \in Worker, UNCHANGED clientVars, CreateChmod(w)
  PROVE  ExchangeInv'
<1> DEFINE new == [i \in Inode |-> [attr[i] EXCEPT !.read = req[w].read]]
<1>1. pc[w] = "chmod" /\ OpAt(pc[w]) = "create"
  BY DEF CreateChmod, SetByPath, OpAt
<1>2. PICK r \in Requests : r = req[w] /\ r.op = "create"
  BY <1>1, AtWork
<1>3. r.read \in BOOLEAN
  BY <1>2, RequestFacts
<1>4. \A i \in Inode : /\ new[i] \in Attr
                       /\ new[i].date = attr[i].date /\ new[i].read = r.read
  BY <1>2, <1>3 DEF ExchangeInv, FileTypes, Attr
<1>5. SetByPath(w, "chmod", new, "reply")
  BY DEF CreateChmod
<1> HIDE DEF new
<1>6. ASSUME NEW h, h.ino # 0, h.data = r.data, h.date = "asked", h.read = r.read
      PROVE  Right(r, h, 4, Ok)
  <2>1. Done(r, h)
    BY <1>2, <1>6 DEF Done
  <2> QED
    BY <1>2, <2>1 DEF Right, Ok, Good
<1>7. \A i \in Inode : Settles(r, "chmod", "reply", attr[i], new[i])
  BY <1>4, <1>6 DEF Settles
<1> QED
  BY <1>2, <1>5, <1>7, SetByPathStep

LEMMA DeleteRemoveStep ==
  ASSUME ExchangeInv, NEW w \in Worker, UNCHANGED clientVars, DeleteRemove(w)
  PROVE  ExchangeInv'
<1>1. pc[w] = "remove" /\ OpAt(pc[w]) = "delete"
  BY DEF DeleteRemove, OpAt
<1>2. PICK r \in Requests : r = req[w] /\ r.op = "delete" /\ r.path \in Path
  BY <1>1, AtWork
<1> DEFINE i == name[r.path]
<1>3. /\ FileTypes /\ Domains /\ WorkerInv(w) /\ mem[w] \in Mem /\ buf[w] \in Seq(Fields)
      /\ InodeOf(r) = i
  BY <1>1, <1>2, AtWork
<1>4. mem'[w] = mem[w] /\ dirs' = dirs
  BY DEF DeleteRemove
<1>5. CASE i = 0
  <2>1. Quiet(w, "reply") /\ buf'[w] = Failed /\ SameFiles
    BY <1>2, <1>3, <1>4, <1>5 DEF DeleteRemove, Answer, Quiet, Alone, Domains, SameFiles
  <2>2. Prepared(w, "reply", mem'[w], buf'[w])
    BY <1>1, <1>3, <1>4, <2>1, FieldFacts DEF Prepared, OpAt
  <2>3. \A h : h = Held(r) => ~Progress(r, h, dirs, pc[w], mem[w], buf[w])
    BY <1>1, <1>3, <1>5, HeldFacts, <1>2 DEF Progress, HeldFits
  <2> QED
    BY <1>2, <2>1, <2>2, <2>3, QuietSame
<1>6. CASE i # 0
  <2>1. /\ name' = [name EXCEPT ![r.path] = 0] /\ Touch(w) /\ Answer(w, Ok)
        /\ UNCHANGED <<body, attr>> \/ Drop(i)
    BY <1>2, <1>6 DEF DeleteRemove
  <2>2. Quiet(w, "reply") /\ buf'[w] = Ok
    BY <1>3, <1>4, <2>1 DEF DeleteRemove, Answer, Quiet, Alone, Domains
  <2>3. Prepared(w, "reply", mem'[w], buf'[w])
    BY <1>1, <1>3, <1>4, <2>2, FieldFacts DEF Prepared, OpAt
  <2>4. <<>> \in Seq(Unit) /\ NewAttr \in Attr
    BY DEF NewAttr, Attr
  <2>5. body' \in [Inode -> Seq(Unit)] /\ attr' \in [Inode -> Attr]
    BY <1>3, <2>1, <2>4, ZenonT(30) DEF Drop, FileTypes
  <2>6. FileTypes'
    BY <1>3, <1>4, <2>1, <2>5, TouchFacts DEF FileTypes
  <2>7. Held(r)'.ino = 0
    <3>1. InodeOf(r)' = 0
      BY <1>2, <1>3, <2>1 DEF InodeOf, FileTypes
    <3> QED
      BY <2>6, <3>1, HeldFactsNext DEF HeldFits
  <2>8. Right(r, Held(r)', Len(Ok), Ok)
    BY <1>2, <2>7 DEF Right, Done, Ok, Good
  <2>9. Progress(r, Held(r)', dirs', "reply", mem'[w], buf'[w])
    BY <2>2, <2>8 DEF Progress
  <2> QED
    BY <1>2, <2>1, <2>2, <2>3, <2>6, <2>9, QuietTouch
<1> QED
  BY <1>5, <1>6

-----------------------------------------------------------------------------
(* Sending, and the end of the process                                     *)

\* The rightness of an answer is that of its first n fields.
LEMMA RightAgrees ==
  ASSUME NEW r, NEW h, h.data \in Seq(Unit), NEW n \in Nat, NEW B, NEW R,
         Right(r, h, n, B), Len(B) >= n, \A i \in 1 .. n : R[i] = B[i]
  PROVE  Right(r, h, n, R)
<1>1. CASE n >= 3 /\ B[3] = <<"false", 0>> /\ r.op = "view" /\ h.ino = 0
  BY <1>1 DEF Right
<1>2. CASE n >= 3 /\ Good(B) /\ r.op # "view" /\ Done(r, h)
  <2>1. R[1] = B[1] /\ R[2] = B[2] /\ R[3] = B[3]
    BY <1>2
  <2>2. Good(R)
    BY <1>2, <2>1 DEF Good
  <2> QED
    BY <1>2, <2>2 DEF Right
<1>3. CASE /\ n >= 5 /\ Good(B) /\ r.op = "view" /\ h.ino # 0 /\ B[5] = Info(h)
           /\ h.read => /\ n = 6 + Len(h.data)
                        /\ B[6] = <<"long", Len(h.data)>>
                        /\ \A i \in 1 .. Len(h.data) : B[6 + i] = <<"data", h.data[i]>>
  <2>1. R[1] = B[1] /\ R[2] = B[2] /\ R[3] = B[3] /\ R[5] = B[5]
    BY <1>3
  <2>2. Good(R) /\ R[5] = Info(h)
    BY <1>3, <2>1 DEF Good
  <2>3. ASSUME h.read
        PROVE  /\ n = 6 + Len(h.data) /\ R[6] = <<"long", Len(h.data)>>
               /\ \A i \in 1 .. Len(h.data) : R[6 + i] = <<"data", h.data[i]>>
    <3>1. n = 6 + Len(h.data) /\ Len(h.data) \in Nat
      BY <1>3, <2>3
    <3>2. R[6] = B[6] /\ \A i \in 1 .. Len(h.data) : R[6 + i] = B[6 + i]
      BY <3>1
    <3> QED
      BY <1>3, <2>3, <3>1, <3>2
  <2> QED
    BY <1>3, <2>2, <2>3 DEF Right
<1> QED
  BY <1>1, <1>2, <1>3 DEF Right

LEMMA RightMore ==
  ASSUME NEW r, NEW h, h.data \in Seq(Unit), NEW n \in Nat, NEW B \in Seq(Fields),
         NEW X \in Seq(Fields), Right(r, h, n, B), Len(B) >= n
  PROVE  Right(r, h, n, B \o X)
<1>1. Joins(B \o X, B, X)
  BY Joined
<1>2. \A i \in 1 .. n : (B \o X)[i] = B[i]
  BY <1>1 DEF Joins
<1> QED
  BY <1>2, RightAgrees

LEMMA Associative ==
  ASSUME NEW P \in Seq(Fields), NEW Q \in Seq(Fields), NEW R \in Seq(Fields)
  PROVE  (P \o Q) \o R = P \o (Q \o R)
  BY ConcatAssociative

LEMMA CarriesMore ==
  ASSUME NEW where, NEW length, NEW read, NEW sent, NEW n \in Nat,
         NEW B \in Seq(Fields), NEW X \in Seq(Fields),
         OnTheWay(where, length, read, sent, n, B)
  PROVE  OnTheWay(where, length, read, sent \o X, n, B \o X)
<1>1. read \in Seq(Fields) /\ sent \in Seq(Fields) /\ Header(n) \in Seq(Fields)
  BY FieldFacts DEF OnTheWay
<1>2. sent \o X \in Seq(Fields)
  BY <1>1, ConcatProperties
<1>3. CASE where = "header" /\ read = <<>> /\ sent = Header(n) \o B
  <2>1. sent \o X = Header(n) \o (B \o X)
    BY <1>1, <1>3, Associative, SMTT(30)
  <2> QED
    BY <1>1, <1>2, <1>3, <2>1 DEF OnTheWay
<1>4. CASE where = "body" /\ length = n /\ read \o sent = B
  <2>1. read \o (sent \o X) = B \o X
    <3>1. (read \o sent) \o X = read \o (sent \o X)
      BY ONLY <1>1, Associative, ZenonT(60)
    <3> QED
      BY <1>4, <3>1
  <2> QED
    BY <1>1, <1>2, <1>4, <2>1 DEF OnTheWay
<1> QED
  BY <1>3, <1>4 DEF OnTheWay

\* A view that has sent so many bytes has sent the right fields.
LEMMA SendingRight ==
  ASSUME NEW r, r.op = "view", NEW h, h.data \in Seq(Unit), NEW n \in Nat, NEW B,
         NEW m, m.pos \in Nat, Sending(h, "fread", m, n, B)
  PROVE  Right(r, h, n, B)
<1>1. ASSUME Len(B) >= n
      PROVE  \A i \in 1 .. Len(h.data) : B[6 + i] = <<"data", h.data[i]>>
  <2>1. m.pos = Len(h.data)
    BY <1>1 DEF Sending
  <2> QED
    BY <2>1 DEF Sending
<1>2. n >= 5
  BY DEF Sending
<1> QED
  BY <1>1, <1>2 DEF Right, Sending

LEMMA DieStep ==
  ASSUME ExchangeInv, NEW w \in Worker, UNCHANGED clientVars, Die,
         pc[w] \notin {"idle", "dead"}, UNCHANGED <<wire, req, client>>,
         DOMAIN mem' = Worker, DOMAIN buf' = Worker,
         mem'[w] \in Mem, buf'[w] \in Seq(Fields),
         \A v \in Worker \ {w} : mem'[v] = mem[v] /\ buf'[v] = buf[v],
         FileTypes', Disturbs(w), FilesSame
  PROVE  ExchangeInv'
<1>1. WorkerInv(w) /\ Domains
  BY DEF ExchangeInv
<1>2. /\ pc' = [v \in Worker |-> "dead"] /\ DOMAIN link' = Worker
      /\ \A v \in Worker : IF link[v] = "open" THEN link'[v] \in {"end", "refused"}
                                               ELSE link'[v] = link[v]
  BY DEF Die
<1>3. Frame(w)
  BY <1>2 DEF Frame, WorkerFollows
<1>4. Domains'
  BY <1>1, <1>2 DEF Domains, clientVars
<1>5. WorkerInv(w)'
  BY <1>1, <1>2 DEF WorkerInv, OpAt
<1>6. Serves(w)
  <2> SUFFICES ASSUME NEW c \in Client, client[w] = c, req[w] = asked[c], Underway(c, w)
               PROVE  Underway(c, w)'
    BY DEF Serves
  <2>1. link'[w] # "open" /\ wire' = wire /\ asked' = asked
    BY <1>2 DEF clientVars
  <2>2. PICK r \in Requests : r = asked[c]
    BY <1>1 DEF WorkerInv
  <2>3. Held(r)' = Held(r)
    BY HeldKept
  <2>4. Silent(c, w) => Silent(c, w)'
    BY <2>1 DEF Silent, clientVars
  <2>5. ASSUME NEW n, NEW B, Carries(c, w, n, B)  PROVE Carries(c, w, n, B)'
    BY <2>1, <2>5 DEF Carries, clientVars
  <2>6. Held(asked[c])' = Held(asked[c]) /\ asked'[c] = asked[c]
    BY <2>1, <2>2, <2>3
  <2>7. ASSUME NEW n, NEW B, Right(asked[c], Held(asked[c]), n, B)
        PROVE  Right(asked[c], Held(asked[c]), n, B)'
    BY <2>6, <2>7
  <2> QED
    BY <2>1, <2>4, <2>5, <2>7 DEF Underway
<1> QED
  BY <1>3, <1>4, <1>5, <1>6, HandlerKeeps

\* The step leaves the connections and the other workers alone.
Sends(w, next) ==
  /\ Goto(w, next) /\ UNCHANGED <<link, req, client>>
  /\ DOMAIN wire' = Worker /\ DOMAIN mem' = Worker /\ DOMAIN buf' = Worker
  /\ \A v \in Worker \ {w} : wire'[v] = wire[v] /\ mem'[v] = mem[v] /\ buf'[v] = buf[v]

LEMMA SendsStep ==
  ASSUME ExchangeInv, NEW w \in Worker, UNCHANGED clientVars,
         NEW next \in {"fread", "reply", "next"}, pc[w] \notin {"idle", "dead"},
         Sends(w, next), mem'[w] \in Mem, buf'[w] \in Seq(Fields),
         next = "fread" => req[w].op = "view", next = "next" => mem'[w] = NoMem,
         FileTypes', Disturbs(w), Serves(w)
  PROVE  ExchangeInv'
<1>1. WorkerInv(w) /\ Domains
  BY DEF ExchangeInv
<1>2. pc'[w] = next /\ link' = link /\ req' = req /\ client' = client
  BY <1>1 DEF Sends, Goto, Domains
<1>3. Frame(w)
  BY <1>1, <1>2 DEF Frame, Sends, Goto, WorkerFollows, WorkerInv, Domains
<1>4. Domains'
  BY <1>1, <1>2 DEF Domains, Sends, Goto, clientVars
<1>5. WorkerInv(w)'
  <2>1. req[w] \in Requests /\ link[w] \notin {"end", "refused"}
    BY <1>1 DEF WorkerInv
  <2>2. link[w] = "open" => /\ client'[w] \in Client /\ at'[client'[w]] = w
                            /\ phase'[client'[w]] \in {"header", "body"}
    BY <1>1, <1>2 DEF WorkerInv, clientVars
  <2>3. OpAt(next) # "any" => req[w].op = OpAt(next)
    BY DEF OpAt
  <2> QED
    BY <1>2, <2>1, <2>2, <2>3 DEF WorkerInv
<1> QED
  BY <1>3, <1>4, <1>5, HandlerKeeps

\* What a handler has done for an undisturbed call, and what it owes it.
Started(c, w, r, h) ==
  Silent(c, w) /\ Progress(r, h, dirs, pc[w], mem[w], buf[w])

Sent(c, w, r, h, n, B) ==
  Carries(c, w, n, B) /\ Right(r, h, n, B) /\ Sending(h, pc[w], mem[w], n, B)

Continues(c, w, r, h) ==
  \E n \in Nat, B \in Seq(Fields) :
    /\ OnTheWay(phase[c], need[c], have[c], wire'[w], n, B) /\ Right(r, h, n, B)
    /\ link'[w] = "open" => Sending(h, pc'[w], mem'[w], n, B)

LEMMA ServesIf ==
  ASSUME ExchangeInv, NEW w \in Worker, UNCHANGED clientVars, FilesSame,
         req' = req, pc[w] \notin {"idle", "dead"},
         \A c \in Client, r \in Requests : \A h :
            /\ h = Held(r) /\ link[w] = "open" /\ req[w] = r
            /\ \/ Started(c, w, r, h)
               \/ \E n \in Nat, B \in Seq(Fields) : Sent(c, w, r, h, n, B)
            => Continues(c, w, r, h)
  PROVE  Serves(w)
<1> SUFFICES ASSUME NEW c \in Client, at[c] = w, link[w] = "open", req[w] = asked[c],
                    Underway(c, w)
             PROVE  Underway(c, w)'
  BY DEF Serves
<1>1. PICK r \in Requests : r = asked[c]
  BY DEF ExchangeInv, WorkerInv
<1>2. PICK h : h = Held(r)
  OBVIOUS
<1>3. asked'[c] = r /\ Held(r)' = h
  BY <1>1, <1>2, HeldKept DEF clientVars
<1>4. \/ Started(c, w, r, h)
      \/ \E n \in Nat, B \in Seq(Fields) : Sent(c, w, r, h, n, B)
  BY <1>1, <1>2 DEF Underway, Started, Sent
<1>5. Continues(c, w, r, h)
  BY <1>1, <1>2, <1>4
<1> QED
  BY <1>3, <1>5 DEF Underway, Continues, Carries, clientVars

\* What the client will have on its way when a silent worker sends its first.
LEMMA FirstSent ==
  ASSUME NEW c, NEW w, Silent(c, w), NEW n \in Nat, NEW B \in Seq(Fields),
         wire'[w] = wire[w] \o (Header(n) \o B)
  PROVE  OnTheWay(phase[c], need[c], have[c], wire'[w], n, B)
<1>1. Header(n) \o B \in Seq(Fields) /\ <<>> \in Seq(Fields)
  BY FieldFacts, ConcatProperties
<1>2. PICK X \in Seq(Fields) : X = Header(n) \o B
  BY <1>1
<1>3. <<>> \o X = X
  BY ConcatEmptySeq
<1>4. wire'[w] = Header(n) \o B
  BY <1>2, <1>3 DEF Silent
<1> QED
  BY <1>1, <1>4 DEF OnTheWay, Silent

LEMMA ReplyResultSetStep ==
  ASSUME ExchangeInv, NEW w \in Worker, UNCHANGED clientVars, ReplyResultSet(w)
  PROVE  ExchangeInv'
<1> DEFINE n == Len(buf[w])
           X == Header(n) \o buf[w]
<1>1. pc[w] = "reply"
  BY DEF ReplyResultSet
<1>2. FileTypes /\ Domains /\ WorkerInv(w) /\ buf[w] \in Seq(Fields) /\ n \in Nat
  BY DEF ExchangeInv, WorkerInv
<1>3. /\ FilesSame /\ body' \in [Inode -> Seq(Unit)] /\ attr' \in [Inode -> Attr]
      /\ DOMAIN mem' = Worker /\ mem'[w] = NoMem
      /\ \A v \in Worker \ {w} : mem'[v] = mem[v]
  BY <1>2, CloseFacts DEF ReplyResultSet
<1>4. FileTypes' /\ Disturbs(w)
  BY <1>2, <1>3 DEF ReplyResultSet, FileTypes, Disturbs
<1>5. /\ DOMAIN buf' = Worker /\ buf'[w] = <<>> /\ <<>> \in Seq(Fields)
      /\ \A v \in Worker \ {w} : buf'[v] = buf[v]
      /\ req' = req /\ client' = client
  BY <1>2 DEF ReplyResultSet, Domains
<1>6. X \in Seq(Fields)
  BY <1>2, FieldFacts, ConcatProperties
<1> HIDE DEF X
<1>7. CASE Die /\ UNCHANGED wire
  BY <1>1, <1>3, <1>4, <1>5, <1>7, NoMemFact, DieStep
<1>8. CASE /\ link[w] \in {"open", "left"}
           /\ wire' = IF link[w] = "open" THEN [wire EXCEPT ![w] = @ \o X] ELSE wire
           /\ pc' = [pc EXCEPT ![w] = "next"]
           /\ UNCHANGED <<up, link>>
  <2>1. Sends(w, "next")
    BY <1>2, <1>3, <1>5, <1>8 DEF Sends, Goto, Domains
  <2>2. pc'[w] = "next"
    BY <1>2, <1>8 DEF Domains
  <2>3. \A h, k, B : Sending(h, pc'[w], mem'[w], k, B)
    BY <2>2 DEF Sending
  <2>4. link[w] = "open" => wire'[w] = wire[w] \o X
    BY <1>2, <1>8 DEF Domains
  <2>5. ASSUME NEW c \in Client, NEW r \in Requests, NEW h, link[w] = "open",
               Started(c, w, r, h)
        PROVE  Continues(c, w, r, h)
    <3>1. PICK B \in Seq(Fields) : B = buf[w] /\ X = Header(Len(B)) \o B /\ Len(B) \in Nat
      BY <1>2 DEF X
    <3>2. Silent(c, w) /\ Right(r, h, Len(B), B)
      BY <1>1, <2>5, <3>1 DEF Started, Progress
    <3>3. wire'[w] = wire[w] \o (Header(Len(B)) \o B) /\ Len(B) \in Nat
      BY <2>4, <2>5, <3>1
    <3>4. OnTheWay(phase[c], need[c], have[c], wire'[w], Len(B), B)
      BY <3>2, <3>3, FirstSent
    <3> QED
      BY <2>3, <3>2, <3>3, <3>4 DEF Continues
  <2>6. ASSUME NEW c \in Client, NEW r \in Requests, NEW h, h = Held(r), link[w] = "open",
               NEW k \in Nat, NEW B \in Seq(Fields), Sent(c, w, r, h, k, B)
        PROVE  Continues(c, w, r, h)
    <3>1. h.data \in Seq(Unit)
      BY <1>2, <2>6, HeldFacts DEF HeldFits
    <3>2. Len(B) >= k
      BY <1>1, <2>6 DEF Sent, Sending
    <3>3. Right(r, h, k, B \o X)
      BY <1>6, <2>6, <3>1, <3>2, RightMore DEF Sent
    <3>4. wire'[w] = wire[w] \o X
      BY <2>4, <2>6
    <3>5. OnTheWay(phase[c], need[c], have[c], wire[w], k, B)
      BY <2>6 DEF Sent, Carries
    <3>6. OnTheWay(phase[c], need[c], have[c], wire[w] \o X, k, B \o X)
      BY <1>6, <3>5, CarriesMore
    <3>7. B \o X \in Seq(Fields)
      BY <1>6, ConcatProperties
    <3> QED
      BY <2>3, <3>3, <3>4, <3>6, <3>7 DEF Continues
  <2>7. Serves(w)
    BY <1>1, <1>3, <1>5, <2>5, <2>6, ServesIf
  <2> QED
    BY <1>1, <1>3, <1>4, <1>5, <2>1, <2>7, NoMemFact, SendsStep
<1> QED
  BY <1>7, <1>8 DEF ReplyResultSet, Send, X

LEMMA ConnectionEndsStep ==
  ASSUME ExchangeInv, NEW w \in Worker, UNCHANGED clientVars, ConnectionEnds(w)
  PROVE  ExchangeInv'
<1>1. FileTypes /\ Domains /\ WorkerInv(w)
  BY DEF ExchangeInv
<1>2. pc[w] \in {"next", "read"} /\ link[w] \in {"left", "reset"} /\ SameFiles
  BY DEF ConnectionEnds
<1>3. FileTypes' /\ FilesSame /\ Disturbs(w)
  BY <1>1, <1>2, SameFilesFacts
<1>4. Domains'
  BY <1>1 DEF ConnectionEnds, Goto, Domains, clientVars
<1>5. /\ pc'[w] = "idle" /\ link'[w] = "none" /\ wire'[w] = <<>>
      /\ mem'[w] = mem[w] /\ buf'[w] = buf[w]
  BY <1>1 DEF ConnectionEnds, Goto, Domains
<1>6. Frame(w)
  BY <1>1, <1>2, <1>5 DEF Frame, ConnectionEnds, Goto, WorkerFollows, Domains
<1>7. WorkerInv(w)'
  BY <1>1, <1>2, <1>5 DEF WorkerInv, OpAt
<1>8. Serves(w)
  BY <1>2 DEF Serves
<1> QED
  BY <1>3, <1>4, <1>6, <1>7, <1>8, HandlerKeeps

LEMMA ViewHeadStep ==
  ASSUME ExchangeInv, NEW w \in Worker, UNCHANGED clientVars, ViewHead(w)
  PROVE  ExchangeInv'
<1> DEFINE m == mem[w]
           last == <<"long", m.size>>
           fields == Append(buf[w], last)
           n == Len(fields) + m.size
           X == Header(n) \o fields
<1>1. pc[w] = "head" /\ OpAt(pc[w]) = "view"
  BY DEF ViewHead, OpAt
<1>2. /\ FileTypes /\ Domains /\ WorkerInv(w) /\ req[w].op = "view"
      /\ m \in Mem /\ m.size \in Nat /\ buf[w] \in Seq(Fields)
  BY <1>1, AtWork DEF Mem
<1>3. SameFiles /\ mem' = mem /\ req' = req /\ client' = client
  BY DEF ViewHead
<1>4. FileTypes' /\ FilesSame /\ Disturbs(w)
  BY <1>2, <1>3, SameFilesFacts
<1>5. last \in Fields
  BY <1>2 DEF Fields, Kind
<1> HIDE DEF last
<1>6. /\ fields \in Seq(Fields) /\ Len(fields) = Len(buf[w]) + 1
      /\ fields[Len(buf[w]) + 1] = last
      /\ \A i \in 1 .. Len(buf[w]) : fields[i] = buf[w][i]
  BY <1>2, <1>5
<1> HIDE DEF fields
<1>7. n \in Nat
  BY <1>2, <1>6
<1> HIDE DEF n
<1>8. /\ DOMAIN buf' = Worker /\ buf'[w] = fields
      /\ \A v \in Worker \ {w} : buf'[v] = buf[v]
  BY <1>2 DEF ViewHead, Domains, fields, last
<1>9. CASE Die /\ UNCHANGED wire
  <2>1. DOMAIN mem' = Worker /\ mem'[w] \in Mem /\ \A v \in Worker : mem'[v] = mem[v]
    BY <1>2, <1>3 DEF Domains
  <2> QED
    BY <1>1, <1>3, <1>4, <1>6, <1>8, <1>9, <2>1, DieStep
<1>10. CASE /\ link[w] \in {"open", "left"}
            /\ wire' = IF link[w] = "open" THEN [wire EXCEPT ![w] = @ \o X] ELSE wire
            /\ pc' = [pc EXCEPT ![w] = "fread"]
            /\ UNCHANGED <<up, link>>
  <2>1. Sends(w, "fread")
    BY <1>2, <1>3, <1>8, <1>10 DEF Sends, Goto, Domains
  <2>2. pc'[w] = "fread"
    BY <1>2, <1>10 DEF Domains
  <2>3. link[w] = "open" => wire'[w] = wire[w] \o X
    BY <1>2, <1>10 DEF Domains
  <2>4. ASSUME NEW c \in Client, NEW r \in Requests, NEW h, h = Held(r), req[w] = r,
               link[w] = "open", Started(c, w, r, h)
        PROVE  Continues(c, w, r, h)
    <3>1. Silent(c, w) /\ Progress(r, h, dirs, "head", m, buf[w])
      BY <1>1, <2>4 DEF Started
    <3>2. /\ h.ino # 0 /\ m.size = Len(h.data) /\ m.read = h.read /\ m.pos = 0
          /\ m.ino = h.ino /\ m.read
      BY <3>1 DEF Progress
    <3>3. Len(buf[w]) = 5 /\ Good(buf[w]) /\ buf[w][5] = Info(h)
      BY <3>1 DEF Progress
    <3>4. Len(fields) = 6 /\ Good(fields) /\ fields[5] = Info(h) /\ fields[6] = <<"long", Len(h.data)>>
      <4>1. /\ fields[1] = buf[w][1] /\ fields[2] = buf[w][2] /\ fields[3] = buf[w][3]
            /\ fields[5] = buf[w][5] /\ fields[6] = last /\ Len(fields) = 6
        BY <1>6, <3>3
      <4> QED
        BY <3>2, <3>3, <4>1 DEF Good, last
    <3>5. n = 6 + Len(h.data) /\ Len(h.data) \in Nat
      BY <1>2, <3>2, <3>4 DEF n
    <3>6. Sending(h, "fread", m, n, fields)
      BY <3>2, <3>4, <3>5 DEF Sending
    <3>7. h.data \in Seq(Unit)
      BY <1>2, <2>4, HeldFacts DEF HeldFits
    <3>8. Right(r, h, n, fields)
      <4>1. r.op = "view" /\ m.pos \in Nat /\ n \in Nat
        BY <1>2, <2>4, <3>2, <3>5
      <4> HIDE DEF m, n, fields
      <4> QED
        BY <3>6, <3>7, <4>1, SendingRight
    <3>9. OnTheWay(phase[c], need[c], have[c], wire'[w], n, fields)
      BY <1>6, <1>7, <2>3, <2>4, <3>1, FirstSent
    <3> QED
      BY <1>3, <1>6, <1>7, <2>2, <3>6, <3>8, <3>9 DEF Continues
  <2>5. ASSUME NEW c \in Client, NEW r \in Requests, NEW h,
               NEW k \in Nat, NEW B \in Seq(Fields), Sent(c, w, r, h, k, B)
        PROVE  FALSE
    BY <1>1, <2>5 DEF Sent, Sending
  <2>6. Serves(w)
    BY <1>1, <1>3, <1>4, <2>4, <2>5, ServesIf
  <2> QED
    BY <1>1, <1>2, <1>3, <1>4, <1>6, <1>8, <2>1, <2>6, SendsStep
<1> QED
  BY <1>9, <1>10 DEF ViewHead, Send, fields, n, last

LEMMA ViewDataStep ==
  ASSUME ExchangeInv, NEW w \in Worker, UNCHANGED clientVars, ViewData(w)
  PROVE  ExchangeInv'
<1> DEFINE m == mem[w]
           data == body[m.ino]
           byte == <<"data", data[m.pos + 1]>>
           X == <<byte>>
<1>1. pc[w] = "fread" /\ OpAt(pc[w]) = "view"
  BY DEF ViewData, OpAt
<1>2. /\ FileTypes /\ Domains /\ WorkerInv(w) /\ req[w].op = "view"
      /\ m \in Mem /\ m.pos \in Nat /\ buf[w] \in Seq(Fields)
  BY <1>1, AtWork DEF Mem
<1>3. SameFiles /\ buf' = buf /\ req' = req /\ client' = client
  BY DEF ViewData
<1>4. FileTypes' /\ FilesSame /\ Disturbs(w)
  BY <1>2, <1>3, SameFilesFacts
<1>5. \A c, r, h : ~Started(c, w, r, h)
  BY <1>1 DEF Started, Progress
<1>6. ASSUME NEW c \in Client, NEW r \in Requests, NEW h, h = Held(r), req[w] = r,
             NEW k \in Nat, NEW B \in Seq(Fields), Sent(c, w, r, h, k, B)
      PROVE  /\ r.op = "view" /\ h.ino # 0 /\ h.data = data /\ data \in Seq(Unit) /\ h.ino = m.ino
             /\ Right(r, h, k, B) /\ Sending(h, "fread", m, k, B)
             /\ OnTheWay(phase[c], need[c], have[c], wire[w], k, B)
  <2>1. Sending(h, "fread", m, k, B) /\ Right(r, h, k, B) /\ Carries(c, w, k, B)
    BY <1>1, <1>6 DEF Sent
  <2>2. h.ino # 0 /\ h.ino = m.ino
    BY <2>1 DEF Sending
  <2> QED
    BY <1>2, <1>6, <2>1, <2>2, HeldFacts DEF HeldFits, Carries
<1>7. CASE ~(m.pos < Len(data))
  <2>1. Goto(w, "reply") /\ UNCHANGED <<up, link, wire, mem>>
    BY <1>7 DEF ViewData
  <2>2. Sends(w, "reply")
    BY <1>2, <1>3, <2>1 DEF Sends, Domains
  <2>3. pc'[w] = "reply"
    BY <1>2, <2>1 DEF Goto, Domains
  <2>4. ASSUME NEW c \in Client, NEW r \in Requests, NEW h, h = Held(r), req[w] = r,
               NEW k \in Nat, NEW B \in Seq(Fields), Sent(c, w, r, h, k, B)
        PROVE  Continues(c, w, r, h)
    <3>1. /\ h.data = data /\ data \in Seq(Unit) /\ Right(r, h, k, B) /\ Sending(h, "fread", m, k, B)
          /\ OnTheWay(phase[c], need[c], have[c], wire[w], k, B)
      BY <1>6, <2>4
    <3>2. Len(B) >= k
      BY <1>2, <1>7, <3>1, SMTT(30) DEF Sending
    <3>3. Sending(h, "reply", m, k, B)
      BY <3>2 DEF Sending
    <3> QED
      BY <2>1, <2>3, <3>1, <3>3 DEF Continues
  <2>5. Serves(w)
    BY <1>1, <1>3, <1>4, <1>5, <2>4, ServesIf
  <2> QED
    BY <1>1, <1>2, <1>3, <1>4, <2>1, <2>2, <2>5, SendsStep
<1>8. CASE m.pos < Len(data)
  <2>1. /\ mem' = [mem EXCEPT ![w].pos = @ + 1]
        /\ Send(w, X, "fread")
    BY <1>8 DEF ViewData
  <2>2. /\ mem'[w] \in Mem /\ mem'[w].pos = m.pos + 1 /\ mem'[w].ino = m.ino
        /\ DOMAIN mem' = Worker /\ \A v \in Worker \ {w} : mem'[v] = mem[v]
    BY <1>2, <2>1, SMTT(30) DEF Domains, Mem
  <2>3. DOMAIN buf' = Worker /\ buf'[w] = buf[w] /\ \A v \in Worker \ {w} : buf'[v] = buf[v]
    BY <1>2, <1>3 DEF Domains
  <2>4. CASE Die /\ UNCHANGED wire
    BY <1>1, <1>2, <1>3, <1>4, <2>2, <2>3, <2>4, DieStep
  <2>5. CASE /\ link[w] \in {"open", "left"}
             /\ wire' = IF link[w] = "open" THEN [wire EXCEPT ![w] = @ \o X] ELSE wire
             /\ pc' = [pc EXCEPT ![w] = "fread"]
             /\ UNCHANGED <<up, link>>
    <3>1. Sends(w, "fread")
      BY <1>2, <1>3, <2>2, <2>3, <2>5 DEF Sends, Goto, Domains
    <3>2. pc'[w] = "fread"
      BY <1>2, <2>5 DEF Domains
    <3>3. link[w] = "open" => wire'[w] = wire[w] \o X
      BY <1>2, <2>5 DEF Domains
    <3>4. ASSUME NEW c \in Client, NEW r \in Requests, NEW h, h = Held(r), req[w] = r,
                 link[w] = "open", NEW k \in Nat, NEW B \in Seq(Fields), Sent(c, w, r, h, k, B)
          PROVE  Continues(c, w, r, h)
      <4>1. /\ r.op = "view" /\ h.data = data /\ data \in Seq(Unit) /\ Right(r, h, k, B)
            /\ Sending(h, "fread", m, k, B)
            /\ OnTheWay(phase[c], need[c], have[c], wire[w], k, B)
        BY <1>6, <3>4
      <4>2. PICK x \in Fields : x = byte
        <5>1. m.pos + 1 \in 1 .. Len(data)
          BY <1>2, <1>8, <4>1
        <5>2. data[m.pos + 1] \in Unit
          BY <4>1, <5>1
        <5> QED
          BY <5>2 DEF Fields
      <4>3. <<x>> \in Seq(Fields) /\ Len(<<x>>) = 1 /\ <<x>>[1] = x
        OBVIOUS
      <4>4. PICK Y \in Seq(Fields) : Y = X /\ Len(Y) = 1 /\ Y[1] = byte
        BY <4>2, <4>3
      <4>5. Joins(B \o Y, B, Y)
        BY Joined
      <4>6. PICK R \in Seq(Fields) : R = B \o Y
        BY <4>5 DEF Joins
      <4>7. OnTheWay(phase[c], need[c], have[c], wire'[w], k, R)
        <5>1. OnTheWay(phase[c], need[c], have[c], wire[w] \o Y, k, B \o Y)
          BY <4>1, CarriesMore
        <5> QED
          BY <3>3, <3>4, <4>4, <4>6, <5>1
      <4>8. Sending(h, "fread", mem'[w], k, R)
        <5>1. /\ Len(B) = 6 + m.pos /\ k = 6 + Len(data) /\ Good(B) /\ B[5] = Info(h)
              /\ B[6] = <<"long", Len(data)>> /\ h.ino # 0 /\ m.ino = h.ino /\ h.read
              /\ \A i \in 1 .. m.pos : B[6 + i] = <<"data", data[i]>>
          BY <4>1 DEF Sending
        <5>2. /\ Len(R) = 6 + m.pos + 1 /\ R[6 + m.pos + 1] = byte
              /\ \A i \in 1 .. 6 + m.pos : R[i] = B[i]
          <6>1. Joins(R, B, Y)
            BY <4>5, <4>6
          <6> HIDE DEF byte, m
          <6>2. Len(R) = Len(B) + 1 /\ R[Len(B) + 1] = byte
            BY <4>4, <6>1 DEF Joins
          <6>3. \A i \in 1 .. Len(B) : R[i] = B[i]
            BY <6>1 DEF Joins
          <6> QED
            BY <1>2, <5>1, <6>2, <6>3
        <5>3. R[1] = B[1] /\ R[2] = B[2] /\ R[3] = B[3] /\ R[5] = B[5] /\ R[6] = B[6]
          BY <1>2, <5>2, SMTT(30)
        <5>4. Good(R)
          BY <5>1, <5>3 DEF Good
        <5>5. ASSUME NEW i \in 1 .. m.pos + 1  PROVE R[6 + i] = <<"data", data[i]>>
          <6>1. CASE i = m.pos + 1
            BY <1>2, <5>2, <6>1, SMTT(30)
          <6>2. CASE i \in 1 .. m.pos
            <7>1. R[6 + i] = B[6 + i]
              BY <1>2, <5>2, <6>2, SMTT(30)
            <7> QED
              BY <5>1, <6>2, <7>1
          <6> QED
            BY <1>2, <6>1, <6>2, SMTT(30)
        <5>6. Len(R) = 6 + (m.pos + 1) /\ m.pos + 1 <= Len(data)
          BY <1>2, <1>8, <4>1, <5>2, SMTT(30)
        <5> HIDE DEF byte
        <5> QED
          BY <2>2, <4>1, <5>1, <5>3, <5>4, <5>5, <5>6, SMTT(30) DEF Sending
      <4>9. Right(r, h, k, R)
        <5>1. mem'[w].pos \in Nat /\ h.data \in Seq(Unit)
          BY <1>2, <2>2, <4>1
        <5> QED
          BY <4>1, <4>8, <5>1, SendingRight
      <4> QED
        BY <3>2, <4>6, <4>7, <4>8, <4>9 DEF Continues
    <3>5. Serves(w)
      BY <1>1, <1>3, <1>4, <1>5, <3>4, ServesIf
    <3> QED
      BY <1>1, <1>2, <1>3, <1>4, <2>2, <2>3, <3>1, <3>5, SendsStep
  <2> QED
    BY <2>1, <2>4, <2>5 DEF Send
<1> QED
  BY <1>7, <1>8


\* The process ends in a handler that has changed nothing yet.
LEMMA DieHere ==
  ASSUME ExchangeInv, NEW w \in Worker, UNCHANGED clientVars, Die,
         pc[w] \notin {"idle", "dead"}, SameFiles, UNCHANGED <<mem, buf, wire, req, client>>
  PROVE  ExchangeInv'
<1>1. FileTypes /\ Domains /\ WorkerInv(w)
  BY DEF ExchangeInv
<1>2. FileTypes' /\ FilesSame /\ Disturbs(w)
  BY <1>1, SameFilesFacts
<1>3. /\ DOMAIN mem' = Worker /\ DOMAIN buf' = Worker
      /\ mem'[w] \in Mem /\ buf'[w] \in Seq(Fields)
      /\ \A v \in Worker \ {w} : mem'[v] = mem[v] /\ buf'[v] = buf[v]
  BY <1>1 DEF Domains, WorkerInv
<1> QED
  BY <1>2, <1>3, DieStep

LEMMA HandleKeeps ==
  ASSUME ExchangeInv, NEW w \in Worker, AgentStep(w)
  PROVE  ExchangeInv'
<1>1. Handle(w) /\ UNCHANGED clientVars
  BY DEF AgentStep
<1>2. CASE ReadRequest(w)
  BY <1>1, <1>2, ReadRequestStep
<1>3. CASE ReplyResultSet(w)
  BY <1>1, <1>3, ReplyResultSetStep
<1>4. CASE ConnectionEnds(w)
  BY <1>1, <1>4, ConnectionEndsStep
<1>5. CASE API03_PING(w)
  BY <1>1, <1>5, PingStep
<1>6. CASE ViewStat(w)
  BY <1>1, <1>6, ViewStatStep
<1>7. CASE ViewOpen(w)
  BY <1>1, <1>7, ViewOpenStep
<1>8. CASE ViewInfo(w)
  <2>1. CASE name[req[w].path] # 0
    BY <1>1, <1>8, <2>1, ViewInfoStep
  <2>2. CASE name[req[w].path] = 0
    <3>1. /\ pc[w] = "info" /\ Die /\ SameFiles /\ UNCHANGED <<mem, buf, wire, req, client>>
      BY <1>8, <2>2 DEF ViewInfo
    <3> QED
      BY <1>1, <3>1, DieHere
  <2> QED
    BY <2>1, <2>2
<1>9. CASE ViewHead(w)
  BY <1>1, <1>9, ViewHeadStep
<1>10. CASE ViewData(w)
  BY <1>1, <1>10, ViewDataStep
<1>11. CASE IsDir(w)
  BY <1>1, <1>11, IsDirStep
<1>12. CASE ProbeDir(w)
  BY <1>1, <1>12, ProbeDirStep
<1>13. CASE MakeDir(w)
  BY <1>1, <1>13, MakeDirStep
<1>14. CASE IsDirNow(w)
  BY <1>1, <1>14, IsDirNowStep
<1>15. CASE CreateOpen(w)
  BY <1>1, <1>15, CreateOpenStep
<1>16. CASE CreateWrite(w)
  BY <1>1, <1>16, CreateWriteStep
<1>17. CASE CreateUtime(w)
  BY <1>1, <1>17, CreateUtimeStep
<1>18. CASE CreateChmod(w)
  BY <1>1, <1>18, CreateChmodStep
<1>19. CASE DeleteAccess(w)
  BY <1>1, <1>19, DeleteAccessStep
<1>20. CASE DeleteRemove(w)
  BY <1>1, <1>20, DeleteRemoveStep
<1>21. CASE BuildStart(w)
  BY <1>1, <1>21, BuildStartStep
<1>22. CASE BuildOutput(w)
  <2>1. CASE Answer(w, Ok \o <<<<"msg", 0>>>>) /\ UNCHANGED <<up, link>>
    BY <1>1, <1>22, <2>1, BuildOutputStep
  <2>2. CASE Die /\ UNCHANGED buf
    <3>1. pc[w] = "getline" /\ Die /\ SameFiles /\ UNCHANGED <<mem, buf, wire, req, client>>
      BY <1>22, <2>2 DEF BuildOutput
    <3> QED
      BY <1>1, <3>1, DieHere
  <2> QED
    BY <1>22, <2>1, <2>2 DEF BuildOutput
<1> QED
  BY <1>1, <1>2, <1>3, <1>4, <1>5, <1>6, <1>7, <1>8, <1>9, <1>10, <1>11, <1>12, <1>13,
     <1>14, <1>15, <1>16, <1>17, <1>18, <1>19, <1>20, <1>21, <1>22 DEF Handle


-----------------------------------------------------------------------------
(* The steps of a client                                                   *)

\* Client c works on its connection to w, if it has one.
LEMMA ClientKeeps ==
  ASSUME ExchangeInv, NEW c \in Client, NEW w,
         UNCHANGED <<name, body, attr, dirs>>, clean' \in [Client -> BOOLEAN], Domains',
         \A v \in Worker \ {w} : WorkerFollows(v) /\ (link[v] = "open" => client[v] # c),
         \A d \in Client \ {c} : /\ ClientKept(d) /\ (clean'[d] => clean[d])
                                 /\ phase[d] \in {"header", "body"} => at[d] # w,
         w \in Worker => WorkerInv(w)', ClientInv(c)', CallInv(c)'
  PROVE  ExchangeInv'
<1>1. FileTypes' /\ FilesSame
  BY DEF ExchangeInv, FileTypes, FilesSame
<1>2. ASSUME NEW v \in Worker  PROVE WorkerInv(v)'
  <2>1. CASE v = w
    BY <2>1
  <2>2. CASE v # w
    <3>1. WorkerInv(v) /\ WorkerFollows(v)
      BY <2>2 DEF ExchangeInv
    <3>2. link[v] = "open" => ClientKept(client[v])
      BY <2>2, <3>1 DEF WorkerInv
    <3> QED
      BY <3>1, <3>2, WorkerRemains
  <2> QED
    BY <2>1, <2>2
<1>3. ASSUME NEW d \in Client  PROVE ClientInv(d)' /\ CallInv(d)'
  <2>1. CASE d = c
    BY <2>1
  <2>2. CASE d # c
    <3>1. ClientInv(d) /\ CallInv(d)
      BY DEF ExchangeInv
    <3>2. phase[d] \in {"header", "body"} => WorkerFollows(at[d])
      BY <2>2, <3>1 DEF ClientInv
    <3>3. ClientKept(d) /\ (clean'[d] => clean[d] /\ FilesSame)
      BY <1>1, <2>2
    <3> QED
      BY <3>1, <3>2, <3>3, ClientRemains
  <2> QED
    BY <2>1, <2>2
<1> QED
  BY <1>1, <1>2, <1>3 DEF ExchangeInv

\* Nobody else has the connection of a client.
LEMMA OwnConnection ==
  ASSUME ExchangeInv, NEW c \in Client, phase[c] # "spin"
  PROVE  /\ \A v \in Worker \ {at[c]} : link[v] = "open" => client[v] # c
         /\ \A d \in Client \ {c} : phase[d] \in {"header", "body"} => at[d] # at[c]
<1>1. ASSUME NEW v \in Worker, link[v] = "open"  PROVE at[client[v]] = v
  BY <1>1 DEF ExchangeInv, WorkerInv
<1>2. ASSUME NEW d \in Client, phase[d] \in {"header", "body"}
      PROVE  at[d] \in Worker /\ client[at[d]] = d
  BY <1>2 DEF ExchangeInv, ClientInv
<1>3. phase[c] \in {"header", "body"} \/ at[c] = 0
  BY DEF ExchangeInv, ClientInv
<1>4. 0 \notin Worker
  BY DEF Worker
<1> QED
  BY <1>1, <1>2, <1>3, <1>4

LEMMA CallStep ==
  ASSUME ExchangeInv, NEW c \in Client, Call(c)
  PROVE  ExchangeInv'
<1>1. FileTypes /\ Domains /\ ClientInv(c)
  BY DEF ExchangeInv
<1>2. PICK r \in RequestOf(c) : asked' = [asked EXCEPT ![c] = r]
  BY DEF Call
<1>3. phase[c] = "idle" /\ at[c] = 0 /\ have[c] = <<>>
  BY <1>1 DEF Call, ClientInv
<1>4. Domains'
  BY <1>1, <1>2 DEF Domains, Call, AgentSame
<1>5. r \in Requests
  BY DEF Requests
<1>6. ClientInv(c)' /\ CallInv(c)'
  BY <1>1, <1>2, <1>3, <1>5 DEF ClientInv, CallInv, Call, Domains
<1>7. \A v \in Worker : WorkerFollows(v)
  BY DEF WorkerFollows, Call, AgentSame
<1>8. /\ clean' \in [Client -> BOOLEAN] /\ UNCHANGED <<name, body, attr, dirs>>
      /\ \A d \in Client \ {c} : ClientKept(d) /\ (clean'[d] => clean[d])
  BY <1>1, <1>2 DEF ClientKept, FileTypes, Domains, Call, AgentSame
<1>9. at[c] \notin Worker
  BY <1>3 DEF Worker
<1> QED
  BY <1>3, <1>4, <1>6, <1>7, <1>8, <1>9, OwnConnection, ClientKeeps

LEMMA ConnectStep ==
  ASSUME ExchangeInv, NEW c \in Client, Connect(c)
  PROVE  ExchangeInv'
<1>1. PICK w \in Worker :
        /\ phase[c] = "connect" /\ pc[w] = "idle"
        /\ at' = [at EXCEPT ![c] = w]
        /\ phase' = [phase EXCEPT ![c] = "header"]
        /\ pc' = [pc EXCEPT ![w] = "read"]
        /\ req' = [req EXCEPT ![w] = asked[c]]
        /\ link' = [link EXCEPT ![w] = "open"]
        /\ client' = [client EXCEPT ![w] = c]
        /\ SameFiles
        /\ UNCHANGED <<up, mem, buf, wire, calls, asked, need, have, got>>
  BY DEF Connect
<1>2. FileTypes /\ Domains /\ ClientInv(c) /\ WorkerInv(w)
  BY DEF ExchangeInv
<1>3. asked[c] \in Requests /\ at[c] = 0 /\ have[c] = <<>>
  BY <1>1, <1>2 DEF ClientInv
<1>4. link[w] = "none" /\ wire[w] = <<>> /\ mem[w] = NoMem
  BY <1>1, <1>2 DEF WorkerInv
<1>5. Domains'
  BY <1>1, <1>2 DEF Domains
<1>6. /\ pc'[w] = "read" /\ req'[w] = asked[c] /\ link'[w] = "open" /\ client'[w] = c
      /\ at'[c] = w /\ phase'[c] = "header"
  BY <1>1, <1>2 DEF Domains
<1>7. WorkerInv(w)'
  BY <1>1, <1>2, <1>3, <1>4, <1>6 DEF WorkerInv, OpAt
<1>8. ClientInv(c)'
  BY <1>1, <1>2, <1>3, <1>6 DEF ClientInv
<1>9. Underway(c, w)'
  <2>1. Silent(c, w)'
    BY <1>1, <1>3, <1>4, <1>6 DEF Silent
  <2>2. \A r, h, levels, m, b : Progress(r, h, levels, "read", m, b)
    BY DEF Progress
  <2> QED
    BY <1>6, <2>1, <2>2 DEF Underway
<1>10. CallInv(c)'
  BY <1>6, <1>9 DEF CallInv
<1>11. \A v \in Worker \ {w} : WorkerFollows(v) /\ (link[v] = "open" => client[v] # c)
  <2>1. \A v \in Worker : v # at[c]
    BY <1>3 DEF Worker
  <2>2. \A v \in Worker : link[v] = "open" => client[v] # c
    BY <1>1, <2>1, OwnConnection
  <2> QED
    BY <1>1, <1>2, <2>2 DEF WorkerFollows, Domains
<1>12. \A d \in Client \ {c} : /\ ClientKept(d) /\ (clean'[d] => clean[d])
                               /\ phase[d] \in {"header", "body"} => at[d] # w
  <2>1. \A d \in Client : phase[d] \in {"header", "body"} => at[d] # w
    BY <1>4 DEF ExchangeInv, ClientInv
  <2> QED
    BY <1>1, <1>2, <2>1 DEF ClientKept, SameFiles, Domains
<1>13. clean' \in [Client -> BOOLEAN] /\ UNCHANGED <<name, body, attr, dirs>>
  BY <1>1, <1>2 DEF SameFiles, FileTypes
<1> QED
  BY <1>5, <1>7, <1>8, <1>10, <1>11, <1>12, <1>13, ClientKeeps


LEMMA ResetStep ==
  ASSUME ExchangeInv, NEW w \in Worker, ResetArrives(w)
  PROVE  ExchangeInv'
<1>1. FileTypes /\ Domains /\ WorkerInv(w) /\ link[w] = "left"
  BY DEF ExchangeInv, ResetArrives
<1>2. link' = [link EXCEPT ![w] = "reset"] /\ AgentSame
      /\ UNCHANGED <<wire, client, clean, clientVars>>
  BY DEF ResetArrives
<1>3. FileTypes' /\ FilesSame /\ Domains'
  BY <1>1, <1>2 DEF FileTypes, FilesSame, Domains, AgentSame, clientVars
<1>4. \A v \in Worker \ {w} : WorkerFollows(v)
  BY <1>1, <1>2 DEF WorkerFollows, AgentSame, Domains
<1>5. \A c \in Client : ClientKept(c)
  BY <1>2 DEF ClientKept, clientVars
<1>6. WorkerInv(w)'
  BY <1>1, <1>2 DEF WorkerInv, AgentSame, Domains
<1>7. ASSUME NEW v \in Worker  PROVE WorkerInv(v)'
  <2>1. CASE v = w
    BY <1>6, <2>1
  <2>2. CASE v # w
    <3>1. WorkerInv(v) /\ WorkerFollows(v)
      BY <1>4, <2>2 DEF ExchangeInv
    <3>2. link[v] = "open" => ClientKept(client[v])
      BY <1>5, <3>1 DEF WorkerInv
    <3> QED
      BY <3>1, <3>2, WorkerRemains
  <2> QED
    BY <2>1, <2>2
<1>8. ASSUME NEW c \in Client  PROVE ClientInv(c)' /\ CallInv(c)'
  <2>1. ClientInv(c) /\ CallInv(c)
    BY DEF ExchangeInv
  <2>2. phase[c] \in {"header", "body"} => at[c] \in Worker /\ at[c] # w
    BY <1>1, <2>1 DEF ClientInv
  <2>3. phase[c] \in {"header", "body"} => WorkerFollows(at[c])
    BY <1>4, <2>2
  <2>4. clean'[c] => clean[c] /\ FilesSame
    BY <1>2, <1>3
  <2> QED
    BY <1>5, <2>1, <2>3, <2>4, ClientRemains
<1> QED
  BY <1>3, <1>7, <1>8 DEF ExchangeInv

\* What the client makes of an answer that is right.
LEMMA ParseFits ==
  ASSUME NEW r \in Requests, NEW h, h.data \in Seq(Unit), h.read \in BOOLEAN,
         NEW n \in Nat, NEW f \in Seq(Fields), Len(f) >= n, Right(r, h, n, f)
  PROVE  Fits(r, h, Parse(r, f))
<1>1. \A i \in 1 .. n : Field(f, i) = f[i]
  BY DEF Field
<1>2. Good(f) /\ n >= 3 => /\ IntOf(Field(f, 1)) = 0 /\ IntOf(Field(f, 2)) = 0
                           /\ Field(f, 3)[1] = "true"
  BY <1>1 DEF Good, IntOf
<1>3. CASE n >= 3 /\ f[3] = <<"false", 0>> /\ r.op = "view" /\ h.ino = 0
  <2>1. Field(f, 3)[1] # "true"
    BY <1>1, <1>3
  <2>2. Parse(r, f) = Nothing
    BY <2>1 DEF Parse
  <2> QED
    BY <1>3, <2>2 DEF Fits, Nothing
<1>4. CASE n >= 3 /\ Good(f) /\ r.op # "view" /\ Done(r, h)
  <2>1. Parse(r, f) = [Nothing EXCEPT !.ok = TRUE]
    BY <1>2, <1>4 DEF Parse
  <2>2. Parse(r, f).ok
    BY <2>1 DEF Nothing
  <2> QED
    BY <1>4, <2>2 DEF Fits
<1>5. CASE /\ n >= 5 /\ Good(f)
           /\ r.op = "view" /\ h.ino # 0
           /\ f[5] = Info(h)
           /\ h.read => /\ n = 6 + Len(h.data)
                        /\ f[6] = <<"long", Len(h.data)>>
                        /\ \A i \in 1 .. Len(h.data) : f[6 + i] = <<"data", h.data[i]>>
  <2>1. /\ IntOf(Field(f, 1)) = 0 /\ IntOf(Field(f, 2)) = 0 /\ Field(f, 3)[1] = "true"
    BY <1>2, <1>5
  <2>2. Field(f, 5) = Info(h)
    <3>1. 5 \in 1 .. n
      BY <1>5
    <3> QED
      BY <1>1, <1>5, <3>1
  <2>3. /\ Field(f, 5)[1] = "info" /\ Field(f, 5)[2].size = Len(h.data)
        /\ Field(f, 5)[2].readable = h.read
    BY <2>2 DEF Info
  <2> DEFINE result == Parse(r, f)
  <2>4. CASE ~h.read
    <3>1. result = [ok |-> TRUE, size |-> Field(f, 5)[2].size, data |-> <<>>]
      BY <1>5, <2>1, <2>3, <2>4 DEF Parse
    <3>2. result.ok /\ result.size = Len(h.data)
      BY <2>3, <3>1
    <3> HIDE DEF result
    <3>3. Fits(r, h, result)
      BY <1>5, <2>4, <3>2 DEF Fits, Done
    <3> QED
      BY <3>3 DEF result
  <2>5. CASE h.read
    <3>1. /\ n = 6 + Len(h.data) /\ f[6] = <<"long", Len(h.data)>>
          /\ \A i \in 1 .. Len(h.data) : f[6 + i] = <<"data", h.data[i]>>
      BY <1>5, <2>5
    <3>2. Len(h.data) \in Nat
      OBVIOUS
    <3>3. 6 \in 1 .. n /\ \A i \in 1 .. Len(h.data) : 6 + i \in 1 .. n
      BY <3>1, <3>2
    <3>4. Field(f, 6)[1] = "long" /\ Field(f, 6)[2] = Len(h.data)
      BY <1>1, <3>1, <3>3
    <3>5. \A i \in 1 .. Len(h.data) : Field(f, 6 + i) = <<"data", h.data[i]>>
      BY <1>1, <3>1, <3>3
    <3>6. result = [ok |-> TRUE, size |-> Field(f, 5)[2].size,
                    data |-> [i \in 1 .. Field(f, 6)[2] |-> Field(f, 6 + i)]]
      BY <1>5, <2>1, <2>3, <2>5, <3>4 DEF Parse
    <3>7. result.ok /\ result.size = Len(h.data)
      BY <2>3, <3>6
    <3>8. result.data = [i \in 1 .. Len(h.data) |-> <<"data", h.data[i]>>]
      BY <3>4, <3>5, <3>6
    <3> HIDE DEF result
    <3>9. Fits(r, h, result)
      BY <1>5, <2>5, <3>7, <3>8 DEF Fits, Done
    <3> QED
      BY <3>9 DEF result
  <2> QED
    BY <2>4, <2>5
<1> QED
  BY <1>3, <1>4, <1>5 DEF Right

\* A call that ends returns what fits, if nothing has disturbed it.
LEMMA ReturnKeeps ==
  ASSUME ExchangeInv, NEW c \in Client, phase[c] \in {"connect", "header", "body"},
         NEW result, Return(c, result), AgentSame, UNCHANGED <<client, calls>>,
         clean' \in [Client -> BOOLEAN], \A d \in Client : clean'[d] => clean[d],
         clean'[c] => Fits(asked[c], Held(asked[c]), result)
  PROVE  ExchangeInv'
<1>0. PICK w : w = at[c]
  OBVIOUS
<1>1. FileTypes /\ Domains /\ ClientInv(c) /\ \A v \in Worker : WorkerInv(v)
  BY DEF ExchangeInv
<1>2. /\ phase'[c] = "idle" /\ at'[c] = 0 /\ have'[c] = <<>>
      /\ asked'[c] = IF clean'[c] THEN asked[c] ELSE Free
      /\ got'[c] = IF clean'[c] THEN result ELSE Nothing
      /\ \A d \in Client \ {c} : ClientKept(d)
  BY <1>1 DEF Return, ClientKept, Domains
<1>3. UNCHANGED <<name, body, attr, dirs, pc, req, mem, buf>>
  BY DEF AgentSame
<1>4. w = 0 => link' = link /\ wire' = wire
  BY <1>0 DEF Return
<1>5. w # 0 => /\ link' = [link EXCEPT ![w] = IF @ = "open" THEN "left" ELSE @]
               /\ wire' = [wire EXCEPT ![w] = <<>>]
  BY <1>0 DEF Return
<1>6. Domains'
  <2>1. DOMAIN link' = Worker /\ DOMAIN wire' = Worker
    BY <1>1, <1>4, <1>5 DEF Domains
  <2> QED
    BY <1>1, <1>3, <2>1 DEF Domains, Return
<1>7. \A v \in Worker \ {w} : WorkerFollows(v)
  BY <1>1, <1>3, <1>4, <1>5 DEF WorkerFollows, Domains
<1>8. w \in Worker => WorkerInv(w)'
  <2> SUFFICES ASSUME w \in Worker  PROVE WorkerInv(w)'
    OBVIOUS
  <2>1. w # 0
    BY DEF Worker
  <2>2. wire'[w] = <<>> /\ link'[w] = IF link[w] = "open" THEN "left" ELSE link[w]
    BY <1>1, <1>5, <2>1 DEF Domains
  <2>3. WorkerInv(w)
    BY <1>1
  <2>4. link'[w] # "open" /\ (link'[w] \in {"end", "refused"} => link[w] = link'[w])
    BY <2>2
  <2>5. pc[w] = "idle" => link'[w] = "none"
    BY <2>2, <2>3 DEF WorkerInv
  <2> QED
    BY <1>3, <2>2, <2>3, <2>4, <2>5 DEF WorkerInv
<1>9. ClientInv(c)'
  BY <1>1, <1>2 DEF ClientInv
<1>10. CallInv(c)'
  <2> SUFFICES ASSUME clean'[c]  PROVE Fits(asked[c], Held(asked[c]), got[c])'
    BY <1>2 DEF CallInv
  <2>1. PICK r \in Requests : r = asked[c]
    BY <1>1 DEF ClientInv
  <2>2. Held(r)' = Held(r)
    BY <1>3 DEF Held, InodeOf, Seen
  <2> QED
    BY <1>2, <2>1, <2>2
<1> QED
  <2>1. /\ \A v \in Worker \ {w} : link[v] = "open" => client[v] # c
        /\ \A d \in Client \ {c} : phase[d] \in {"header", "body"} => at[d] # w
    BY <1>0, OwnConnection
  <2> QED
    BY <1>2, <1>3, <1>6, <1>7, <1>8, <1>9, <1>10, <2>1, ClientKeeps


\* A call that is undisturbed and sees its answer come.
LEMMA Arriving ==
  ASSUME ExchangeInv, NEW c \in Client, clean[c], phase[c] \in {"header", "body"},
         wire[at[c]] # <<>>
  PROVE  \E r \in Requests, n \in Nat, B \in Seq(Fields) :
           /\ r = asked[c]
           /\ OnTheWay(phase[c], need[c], have[c], wire[at[c]], n, B)
           /\ Right(r, Held(r), n, B)
           /\ link[at[c]] = "open" => Sending(Held(r), pc[at[c]], mem[at[c]], n, B)
<1>1. ClientInv(c) /\ CallInv(c)
  BY DEF ExchangeInv
<1>2. Underway(c, at[c]) /\ asked[c] \in Requests
  BY <1>1 DEF CallInv, ClientInv
<1>3. ~Silent(c, at[c])
  BY DEF Silent
<1> QED
  BY <1>2, <1>3 DEF Underway, Carries

\* What is still to come once the client has read on.
StillComing(c, w) ==
  \E r \in Requests, n \in Nat, B \in Seq(Fields) :
    /\ r = asked[c] /\ Right(r, Held(r), n, B)
    /\ OnTheWay(phase'[c], need'[c], have'[c], wire'[w], n, B)
    /\ link[w] = "open" => Sending(Held(r), pc[w], mem[w], n, B)

\* Its worker is not concerned.
LEMMA ReadsOn ==
  ASSUME ExchangeInv, NEW c \in Client, phase[c] \in {"header", "body"},
         phase'[c] \in {"header", "body"}, AgentSame,
         UNCHANGED <<link, client, calls, asked, at, got>>, clean' \in [Client -> BOOLEAN],
         NEW w, w = at[c],
         DOMAIN wire' = Worker, DOMAIN phase' = Client, DOMAIN need' = Client,
         DOMAIN have' = Client, \A v \in Worker \ {w} : wire'[v] = wire[v],
         \A d \in Client \ {c} : /\ phase'[d] = phase[d] /\ need'[d] = need[d]
                                 /\ have'[d] = have[d] /\ (clean'[d] => clean[d]),
         clean'[c] => StillComing(c, w)
  PROVE  ExchangeInv'
<1>1. FileTypes /\ Domains /\ ClientInv(c)
  BY DEF ExchangeInv
<1>2. /\ UNCHANGED <<name, body, attr, dirs, pc, req, mem, buf>>
      /\ UNCHANGED <<link, client, calls, asked, at, got>>
  BY DEF AgentSame
<1>3. Domains'
  BY <1>1, <1>2 DEF Domains
<1>4. w \in Worker /\ WorkerInv(w) /\ link[w] \in {"open", "end", "refused"}
  BY <1>1 DEF ClientInv, ExchangeInv
<1>5. pc[w] # "idle"
  BY <1>4 DEF WorkerInv
<1>6. link[w] = "open" => client[w] = c
  BY <1>1 DEF ClientInv
<1>7. WorkerInv(w)'
  BY <1>2, <1>4, <1>5, <1>6 DEF WorkerInv
<1>8. ClientInv(c)'
  BY <1>1, <1>2 DEF ClientInv
<1>9. CallInv(c)'
  <2> SUFFICES ASSUME clean'[c]  PROVE Underway(c, w)'
    BY <1>2 DEF CallInv
  <2>1. PICK r \in Requests, n \in Nat, B \in Seq(Fields) :
              /\ r = asked[c] /\ Right(r, Held(r), n, B)
              /\ OnTheWay(phase'[c], need'[c], have'[c], wire'[w], n, B)
              /\ link[w] = "open" => Sending(Held(r), pc[w], mem[w], n, B)
    BY DEF StillComing
  <2>2. Held(r)' = Held(r) /\ asked'[c] = r
    BY <1>2, <2>1 DEF Held, InodeOf, Seen
  <2> QED
    BY <1>2, <2>1, <2>2 DEF Underway, Carries
<1>10. \A v \in Worker \ {w} : WorkerFollows(v) /\ (link[v] = "open" => client[v] # c)
  BY <1>2, OwnConnection DEF WorkerFollows
<1>11. \A d \in Client \ {c} : /\ ClientKept(d) /\ (clean'[d] => clean[d])
                               /\ phase[d] \in {"header", "body"} => at[d] # w
  BY <1>2, OwnConnection DEF ClientKept
<1> QED
  BY <1>2, <1>3, <1>7, <1>8, <1>9, <1>10, <1>11, ClientKeeps

LEMMA ReadHeaderStep ==
  ASSUME ExchangeInv, NEW c \in Client, ReadHeader(c)
  PROVE  ExchangeInv'
<1>1. PICK w : w = at[c]
  OBVIOUS
<1>2. PICK k \in 1 .. 2 :
        /\ k <= Len(wire[w])
        /\ IF Len(have[c]) + k < 2
           THEN Take(c, k) /\ UNCHANGED <<phase, need>>
           ELSE /\ wire' = [wire EXCEPT ![w] = SubSeq(@, k + 1, Len(@))]
                /\ have' = [have EXCEPT ![c] = <<>>]
                /\ need' = [need EXCEPT ![c] = (have[c] \o wire[w])[1][2]]
                /\ phase' = [phase EXCEPT ![c] = "body"]
        /\ clean' = [clean EXCEPT ![c] = @ /\ k = 2]
  BY <1>1 DEF ReadHeader
<1>3. /\ phase[c] = "header" /\ AgentSame
      /\ UNCHANGED <<link, client, calls, asked, at, got>>
  BY DEF ReadHeader
<1>4. FileTypes /\ Domains /\ ClientInv(c)
  BY DEF ExchangeInv
<1>5. w \in Worker
  BY <1>1, <1>3, <1>4 DEF ClientInv
<1>6. /\ clean' \in [Client -> BOOLEAN] /\ (clean'[c] => clean[c] /\ k = 2)
      /\ \A d \in Client \ {c} : clean'[d] => clean[d]
  BY <1>2, <1>4 DEF FileTypes
<1>7. CASE Len(have[c]) + k < 2
  <2>1. Take(c, k) /\ UNCHANGED <<phase, need>>
    BY <1>2, <1>7
  <2>2. ~clean'[c]
    <3> SUFFICES ASSUME clean'[c]  PROVE FALSE
      OBVIOUS
    <3>1. wire[w] # <<>> /\ k = 2 /\ clean[c]
      BY <1>2, <1>6
    <3>2. have[c] = <<>>
      BY <1>1, <1>3, <3>1, Arriving DEF OnTheWay
    <3> QED
      BY <1>7, <3>1, <3>2
  <2> QED
    BY <1>1, <1>3, <1>4, <1>5, <1>6, <2>1, <2>2, ReadsOn DEF Take, Domains
<1>8. CASE ~(Len(have[c]) + k < 2)
  <2>1. /\ wire' = [wire EXCEPT ![w] = SubSeq(@, k + 1, Len(@))]
        /\ have' = [have EXCEPT ![c] = <<>>]
        /\ need' = [need EXCEPT ![c] = (have[c] \o wire[w])[1][2]]
        /\ phase' = [phase EXCEPT ![c] = "body"]
    BY <1>2, <1>8
  <2>2. /\ wire'[w] = SubSeq(wire[w], k + 1, Len(wire[w])) /\ have'[c] = <<>>
        /\ need'[c] = (have[c] \o wire[w])[1][2] /\ phase'[c] = "body"
    BY <1>4, <1>5, <2>1 DEF Domains
  <2>3. ASSUME clean'[c]
        PROVE  StillComing(c, w)
    <3>1. wire[w] # <<>> /\ k = 2 /\ clean[c]
      BY <1>2, <1>6, <2>3
    <3>2. PICK r \in Requests, n \in Nat, B \in Seq(Fields) :
             /\ r = asked[c]
             /\ OnTheWay(phase[c], need[c], have[c], wire[w], n, B)
             /\ Right(r, Held(r), n, B)
             /\ link[w] = "open" => Sending(Held(r), pc[w], mem[w], n, B)
      BY <1>1, <1>3, <3>1, Arriving
    <3>3. have[c] = <<>> /\ wire[w] = Header(n) \o B
      BY <1>3, <3>2 DEF OnTheWay
    <3>4. PICK H \in Seq(Fields) : H = Header(n) /\ Len(H) = 2 /\ H[1] = <<"header", n>>
      BY FieldFacts DEF Header
    <3>5. PICK S \in Seq(Fields) : S = wire[w] /\ Joins(S, H, B)
      BY <3>3, <3>4, Joined, ZenonT(30) DEF Joins
    <3>6. need'[c] = n
      <4>1. <<>> \o S = S
        BY ConcatEmptySeq
      <4>2. S[1] = <<"header", n>>
        BY <3>4, <3>5 DEF Joins
      <4>3. have[c] \o wire[w] = S
        BY <3>3, <3>5, <4>1
      <4>4. need'[c] = S[1][2]
        BY <2>2, <4>3
      <4> QED
        BY <4>2, <4>4
    <3>7. wire'[w] = B
      <4>1. Len(S) = 2 + Len(B) /\ \A i \in 1 .. Len(B) : S[2 + i] = B[i]
        BY <3>4, <3>5 DEF Joins
      <4>2. SubSeq(S, 3, Len(S)) = B
        BY <4>1
      <4> QED
        BY <2>2, <3>1, <3>5, <4>2
    <3>8. OnTheWay("body", n, <<>>, B, n, B)
      BY ConcatEmptySeq DEF OnTheWay
    <3> QED
      BY <2>2, <3>2, <3>6, <3>7, <3>8 DEF StillComing
  <2>4. /\ DOMAIN wire' = Worker /\ DOMAIN phase' = Client /\ DOMAIN need' = Client
        /\ DOMAIN have' = Client /\ \A v \in Worker \ {w} : wire'[v] = wire[v]
        /\ \A d \in Client \ {c} : /\ phase'[d] = phase[d] /\ need'[d] = need[d]
                                    /\ have'[d] = have[d] /\ (clean'[d] => clean[d])
    BY <1>4, <1>5, <1>6, <2>1 DEF Domains
  <2> QED
    BY <1>1, <1>3, <1>6, <2>2, <2>3, <2>4, ReadsOn
<1> QED
  BY <1>7, <1>8


\* Q is cut behind its first k fields.
Cut(X, Y, Q, k) ==
  /\ X \in Seq(Fields) /\ Y \in Seq(Fields) /\ X \o Y = Q
  /\ Len(X) = k

LEMMA CutAt ==
  ASSUME NEW Q \in Seq(Fields), NEW k \in 0 .. Len(Q)
  PROVE  Cut(SubSeq(Q, 1, k), SubSeq(Q, k + 1, Len(Q)), Q, k)
<1>1. Len(Q) \in Nat /\ \A i \in 1 .. Len(Q) : Q[i] \in Fields
  OBVIOUS
<1>2. \A i \in 1 .. k : Q[i] \in Fields
  BY <1>1
<1>3. \A i \in k + 1 .. Len(Q) : Q[i] \in Fields
  BY <1>1
<1>4. SubSeq(Q, 1, k) \in Seq(Fields) /\ Len(SubSeq(Q, 1, k)) = k
  BY <1>1, <1>2, SubSeqProperties
<1>5. SubSeq(Q, k + 1, Len(Q)) \in Seq(Fields)
  BY <1>1, <1>3, SubSeqProperties
<1>6. SubSeq(Q, 1, k) \o SubSeq(Q, k + 1, Len(Q)) = Q
  <2>1. 1 \in 1 .. Len(Q) + 1 /\ k \in 1 - 1 .. Len(Q) /\ Len(Q) \in k .. Len(Q)
    BY <1>1
  <2>2. SubSeq(Q, 1, k) \o SubSeq(Q, k + 1, Len(Q)) = SubSeq(Q, 1, Len(Q))
    BY <2>1, ConcatAdjacentSubSeq
  <2> QED
    BY <2>2, SubSeqFull
<1> QED
  BY <1>4, <1>5, <1>6 DEF Cut

LEMMA ReadBodyStep ==
  ASSUME ExchangeInv, NEW c \in Client, ReadBody(c)
  PROVE  ExchangeInv'
<1>1. PICK w : w = at[c]
  OBVIOUS
<1>2. PICK k : k = IF Len(wire[w]) < need[c] THEN Len(wire[w]) ELSE need[c]
  OBVIOUS
<1>3. PICK all : all = have[c] \o SubSeq(wire[w], 1, k)
  OBVIOUS
<1>4. /\ phase[c] = "body" /\ k > 0 /\ UNCHANGED clean
      /\ IF Len(all) < need[c]
         THEN Take(c, k) /\ UNCHANGED <<link, phase, asked, got, at, need>>
         ELSE Return(c, Parse(asked[c], all))
      /\ AgentSame /\ UNCHANGED <<client, calls>>
  BY <1>1, <1>2, <1>3 DEF ReadBody
<1>5. FileTypes /\ Domains /\ ClientInv(c)
  BY DEF ExchangeInv
<1>6. w \in Worker /\ asked[c] \in Requests
  BY <1>1, <1>4, <1>5 DEF ClientInv
<1>7. clean' \in [Client -> BOOLEAN] /\ \A d \in Client : clean'[d] => clean[d]
  BY <1>4, <1>5 DEF FileTypes
<1>8. ASSUME clean[c]
      PROVE  \E r \in Requests, n \in Nat, B \in Seq(Fields), P \in Seq(Fields), Q \in Seq(Fields) :
               /\ r = asked[c] /\ n = need[c] /\ k \in 0 .. n /\ P = have[c] /\ Q = wire[w]
               /\ k <= Len(Q) /\ P \o Q = B /\ (k < n => k = Len(Q))
               /\ Right(r, Held(r), n, B)
               /\ link[w] = "open" => Sending(Held(r), pc[w], mem[w], n, B)
  <2>1. CallInv(c) /\ Underway(c, w)
    BY <1>1, <1>4, <1>8 DEF ExchangeInv, CallInv
  <2>2. ~Silent(c, w)
    BY <1>4 DEF Silent
  <2>3. PICK n \in Nat, B \in Seq(Fields) :
          /\ Carries(c, w, n, B) /\ Right(asked[c], Held(asked[c]), n, B)
          /\ link[w] = "open" => Sending(Held(asked[c]), pc[w], mem[w], n, B)
    BY <2>1, <2>2 DEF Underway
  <2>4. /\ have[c] \in Seq(Fields) /\ wire[w] \in Seq(Fields)
        /\ need[c] = n /\ have[c] \o wire[w] = B
    BY <1>4, <2>3 DEF Carries, OnTheWay
  <2>5. k \in 0 .. n /\ k <= Len(wire[w]) /\ (k < n => k = Len(wire[w]))
    BY <1>2, <1>4, <2>4
  <2> QED
    BY <1>6, <2>3, <2>4, <2>5
<1>9. CASE Len(all) < need[c]
  <2>1. Take(c, k) /\ UNCHANGED <<link, phase, asked, got, at, need>>
    BY <1>4, <1>9
  <2>2. /\ wire'[w] = SubSeq(wire[w], k + 1, Len(wire[w])) /\ have'[c] = all
    BY <1>1, <1>3, <1>5, <1>6, <2>1 DEF Take, Domains
  <2>3. ASSUME clean'[c]  PROVE StillComing(c, w)
    <3>1. PICK r \in Requests, n \in Nat, B \in Seq(Fields), P \in Seq(Fields), Q \in Seq(Fields) :
               /\ r = asked[c] /\ n = need[c] /\ k \in 0 .. n /\ P = have[c] /\ Q = wire[w]
               /\ k <= Len(Q) /\ P \o Q = B /\ (k < n => k = Len(Q))
               /\ Right(r, Held(r), n, B)
               /\ link[w] = "open" => Sending(Held(r), pc[w], mem[w], n, B)
      BY <1>7, <1>8, <2>3
    <3>2. PICK X, Y : X = SubSeq(Q, 1, k) /\ Y = SubSeq(Q, k + 1, Len(Q)) /\ Cut(X, Y, Q, k)
      <4>1. k \in 0 .. Len(Q)
        BY <3>1
      <4> QED
        BY <4>1, CutAt
    <3>3. X \in Seq(Fields) /\ Y \in Seq(Fields) /\ X \o Y = Q
      BY <3>2 DEF Cut
    <3>4. (P \o X) \o Y = B
      <4>1. (P \o X) \o Y = P \o (X \o Y)
        <5>1. P \in Seq(Fields) /\ X \in Seq(Fields) /\ Y \in Seq(Fields)
          BY <3>3
        <5> QED
          BY ONLY <5>1, Associative, ZenonT(60)
      <4> QED
        BY <3>1, <3>3, <4>1
    <3>5. P \o X \in Seq(Fields)
      BY <3>3, Joined DEF Joins
    <3>6. have'[c] = P \o X /\ wire'[w] = Y
      BY <1>3, <2>2, <3>1, <3>2
    <3>7. OnTheWay(phase'[c], need'[c], have'[c], wire'[w], n, B)
      BY <1>4, <2>1, <3>1, <3>3, <3>4, <3>5, <3>6 DEF OnTheWay
    <3> QED
      BY <3>1, <3>7 DEF StillComing
  <2>4. /\ DOMAIN wire' = Worker /\ DOMAIN phase' = Client /\ DOMAIN need' = Client
        /\ DOMAIN have' = Client /\ \A v \in Worker \ {w} : wire'[v] = wire[v]
        /\ \A d \in Client \ {c} : /\ phase'[d] = phase[d] /\ need'[d] = need[d]
                                    /\ have'[d] = have[d] /\ (clean'[d] => clean[d])
    BY <1>1, <1>5, <1>6, <1>7, <2>1 DEF Domains, Take
  <2> QED
    BY <1>1, <1>4, <1>7, <2>1, <2>3, <2>4, ReadsOn
<1>10. CASE ~(Len(all) < need[c])
  <2>1. Return(c, Parse(asked[c], all))
    BY <1>4, <1>10
  <2>2. ASSUME clean'[c]  PROVE Fits(asked[c], Held(asked[c]), Parse(asked[c], all))
    <3>1. PICK r \in Requests, n \in Nat, B \in Seq(Fields), P \in Seq(Fields), Q \in Seq(Fields) :
               /\ r = asked[c] /\ n = need[c] /\ k \in 0 .. n /\ P = have[c] /\ Q = wire[w]
               /\ k <= Len(Q) /\ P \o Q = B /\ (k < n => k = Len(Q))
               /\ Right(r, Held(r), n, B)
               /\ link[w] = "open" => Sending(Held(r), pc[w], mem[w], n, B)
      BY <1>7, <1>8, <2>2
    <3>2. PICK X, Y : X = SubSeq(Q, 1, k) /\ Y = SubSeq(Q, k + 1, Len(Q)) /\ Cut(X, Y, Q, k)
      <4>1. k \in 0 .. Len(Q)
        BY <3>1
      <4> QED
        BY <4>1, CutAt
    <3>3. X \in Seq(Fields) /\ Y \in Seq(Fields) /\ X \o Y = Q
      BY <3>2 DEF Cut
    <3>4. (P \o X) \o Y = B
      <4>1. (P \o X) \o Y = P \o (X \o Y)
        <5>1. P \in Seq(Fields) /\ X \in Seq(Fields) /\ Y \in Seq(Fields)
          BY <3>3
        <5> QED
          BY ONLY <5>1, Associative, ZenonT(60)
      <4> QED
        BY <3>1, <3>3, <4>1
    <3>5. PICK R \in Seq(Fields) : R = all /\ R \o Y = B
      <4>1. P \o X \in Seq(Fields) /\ P \o X = all
        BY <1>3, <3>1, <3>2, <3>3, Joined DEF Joins
      <4> QED
        BY <3>4, <4>1
    <3>6. Len(R) >= n /\ Len(B) >= n /\ \A i \in 1 .. n : R[i] = B[i]
      <4>1. Joins(B, R, Y)
        BY <3>3, <3>5, Joined
      <4>2. Len(R) >= n /\ Len(Y) \in Nat /\ Len(R) \in Nat
        BY <1>10, <3>1, <3>3, <3>5
      <4>3. Len(B) = Len(R) + Len(Y) /\ \A i \in 1 .. Len(R) : B[i] = R[i]
        BY <4>1 DEF Joins
      <4> QED
        BY <4>2, <4>3
    <3>7. PICK h : h = Held(r) /\ h.data \in Seq(Unit) /\ h.read \in BOOLEAN
      BY <1>5, HeldFacts DEF HeldFits
    <3>8. Right(r, h, n, R)
      BY <3>1, <3>6, <3>7, RightAgrees
    <3>9. Fits(r, h, Parse(r, R))
      BY <3>6, <3>7, <3>8, ParseFits
    <3> QED
      BY <3>1, <3>5, <3>7, <3>9
  <2> QED
    BY <1>4, <1>7, <2>1, <2>2, ReturnKeeps
<1> QED
  BY <1>9, <1>10

LEMMA ReadEndStep ==
  ASSUME ExchangeInv, NEW c \in Client, ReadEnd(c)
  PROVE  ExchangeInv'
<1>1. PICK w : w = at[c]
  OBVIOUS
<1>2. /\ phase[c] \in {"header", "body"} /\ AgentSame /\ UNCHANGED <<client, calls>>
      /\ clean' = [clean EXCEPT ![c] = FALSE]
  BY DEF ReadEnd
<1>3. FileTypes /\ Domains /\ ClientInv(c)
  BY DEF ExchangeInv
<1>4. clean' \in [Client -> BOOLEAN] /\ ~clean'[c] /\ \A d \in Client : clean'[d] => clean[d]
  BY <1>2, <1>3 DEF FileTypes
<1>5. CASE Return(c, Nothing)
  BY <1>2, <1>4, <1>5, ReturnKeeps
<1>6. CASE /\ link[w] = "end" /\ phase' = [phase EXCEPT ![c] = "spin"]
           /\ UNCHANGED <<link, wire, asked, got, at, need, have>>
  <2>1. WorkerInv(w) /\ w \in Worker
    BY <1>1, <1>2, <1>3 DEF ExchangeInv, ClientInv
  <2>2. /\ UNCHANGED <<name, body, attr, dirs, pc, req, mem, buf>>
        /\ UNCHANGED <<client, calls, link, wire, asked, got, at, need, have>>
    BY <1>2, <1>6 DEF AgentSame
  <2>3. Domains'
    BY <1>3, <1>6, <2>2 DEF Domains
  <2>4. WorkerInv(w)'
    BY <1>6, <2>1, <2>2 DEF WorkerInv
  <2>5. ClientInv(c)' /\ CallInv(c)'
    BY <1>2, <1>3, <1>4, <1>6, <2>2 DEF ClientInv, CallInv, Domains
  <2>6. \A v \in Worker \ {w} : WorkerFollows(v) /\ (link[v] = "open" => client[v] # c)
    BY <1>1, <1>2, <2>2, OwnConnection DEF WorkerFollows
  <2>7. \A d \in Client \ {c} : /\ ClientKept(d) /\ (clean'[d] => clean[d])
                                /\ phase[d] \in {"header", "body"} => at[d] # w
    BY <1>1, <1>2, <1>3, <1>4, <1>6, <2>2, OwnConnection DEF ClientKept, Domains
  <2> QED
    BY <1>4, <2>2, <2>3, <2>4, <2>5, <2>6, <2>7, ClientKeeps
<1> QED
  BY <1>1, <1>5, <1>6 DEF ReadEnd

LEMMA TimeoutStep ==
  ASSUME ExchangeInv, NEW c \in Client, Timeout(c)
  PROVE  ExchangeInv'
<1>1. FileTypes
  BY DEF ExchangeInv
<1>2. /\ clean' = [clean EXCEPT ![c] = FALSE] /\ phase[c] \in {"connect", "header", "body"}
      /\ Return(c, Nothing) /\ AgentSame /\ UNCHANGED <<client, calls>>
  BY DEF Timeout
<1>3. clean' \in [Client -> BOOLEAN] /\ ~clean'[c] /\ \A d \in Client : clean'[d] => clean[d]
  BY <1>1, <1>2 DEF FileTypes
<1> QED
  BY <1>2, <1>3, ReturnKeeps


-----------------------------------------------------------------------------
(* The invariant and what it means                                         *)

LEMMA ExchangeStart ==
  ASSUME Init
  PROVE  ExchangeInv
<1>1. FileTypes
  <2>1. dirs \in 0 .. Depth /\ name \in [Path -> Inode \cup {0}]
    BY FilesAssumption DEF Init, FilesInit
  <2>2. <<"old", "old">> \in Seq(Unit) /\ <<>> \in Seq(Unit)
    BY DEF Unit
  <2>3. body \in [Inode -> Seq(Unit)]
    <3>1. body = [i \in Inode |-> IF \E p \in Path : name[p] = i THEN <<"old", "old">> ELSE <<>>]
      BY DEF Init, FilesInit
    <3> QED
      BY <2>2, <3>1
  <2>4. attr \in [Inode -> Attr] /\ clean \in [Client -> BOOLEAN]
    BY DEF Init, FilesInit, NewAttr, Attr
  <2> QED
    BY <2>1, <2>3, <2>4 DEF FileTypes
<1>2. Domains
  BY DEF Init, FilesInit, Domains
<1>3. ASSUME NEW w \in Worker  PROVE WorkerInv(w)
  BY NoMemFact DEF Init, FilesInit, WorkerInv, OpAt
<1>4. ASSUME NEW c \in Client  PROVE ClientInv(c) /\ CallInv(c)
  BY DEF Init, FilesInit, ClientInv, CallInv
<1> QED
  BY <1>1, <1>2, <1>3, <1>4 DEF ExchangeInv

LEMMA Stutters ==
  ASSUME ExchangeInv, UNCHANGED vars
  PROVE  ExchangeInv'
<1>1. /\ UNCHANGED <<up, name, body, attr, dirs, pc, req, mem, buf, link, wire, client, clean>>
      /\ UNCHANGED <<calls, phase, asked, at, need, have, got>>
  BY DEF vars, fileVars, clientVars
<1>2. FileTypes' /\ Domains' /\ FilesSame
  BY <1>1 DEF ExchangeInv, FileTypes, Domains, FilesSame
<1>3. \A v \in Worker : WorkerFollows(v)
  BY <1>1 DEF WorkerFollows
<1>4. \A c \in Client : ClientKept(c) /\ (clean'[c] => clean[c] /\ FilesSame)
  BY <1>1, <1>2 DEF ClientKept
<1>5. ASSUME NEW v \in Worker  PROVE WorkerInv(v)'
  <2>1. WorkerInv(v)
    BY DEF ExchangeInv
  <2>2. link[v] = "open" => ClientKept(client[v])
    BY <1>4, <2>1 DEF WorkerInv
  <2> QED
    BY <1>3, <2>1, <2>2, WorkerRemains
<1>6. ASSUME NEW c \in Client  PROVE ClientInv(c)' /\ CallInv(c)'
  <2>1. ClientInv(c) /\ CallInv(c)
    BY DEF ExchangeInv
  <2>2. phase[c] \in {"header", "body"} => WorkerFollows(at[c])
    BY <1>3, <2>1 DEF ClientInv
  <2> QED
    BY <1>4, <2>1, <2>2, ClientRemains
<1> QED
  BY <1>2, <1>5, <1>6 DEF ExchangeInv

LEMMA ExchangeStep ==
  ASSUME ExchangeInv, [Next]_vars
  PROVE  ExchangeInv'
<1>1. ASSUME NEW c \in Client, Call(c)  PROVE ExchangeInv'
  BY <1>1, CallStep
<1>2. ASSUME NEW c \in Client, ClientStep(c)  PROVE ExchangeInv'
  <2>1. CASE Connect(c)
    BY <2>1, ConnectStep
  <2>2. CASE ReadHeader(c)
    BY <2>2, ReadHeaderStep
  <2>3. CASE ReadBody(c)
    BY <2>3, ReadBodyStep
  <2>4. CASE ReadEnd(c)
    BY <2>4, ReadEndStep
  <2>5. CASE Timeout(c)
    BY <2>5, TimeoutStep
  <2> QED
    BY <1>2, <2>1, <2>2, <2>3, <2>4, <2>5 DEF ClientStep
<1>3. ASSUME NEW w \in Worker, AgentStep(w)  PROVE ExchangeInv'
  BY <1>3, HandleKeeps
<1>4. ASSUME NEW w \in Worker, ResetArrives(w)  PROVE ExchangeInv'
  BY <1>4, ResetStep
<1>5. CASE Over
  BY <1>5, Stutters DEF Over
<1>6. CASE UNCHANGED vars
  BY <1>6, Stutters
<1> QED
  BY <1>1, <1>2, <1>3, <1>4, <1>5, <1>6 DEF Next

\* Every step of the agent and its clients keeps what an undisturbed call has
\* been promised: what its handler has done to the files, what it has sent and
\* what the client has received fit together.
THEOREM ExchangeInvariant == Spec => []ExchangeInv
<1>1. Init => ExchangeInv
  BY ExchangeStart
<1>2. ExchangeInv /\ [Next]_vars => ExchangeInv'
  BY ExchangeStep
<1> QED
  BY <1>1, <1>2, PTL DEF Spec

LEMMA ReturnedFits ==
  ASSUME ExchangeInv, NEW c \in Client, Undisturbed(c)
  PROVE  /\ asked[c] \in Requests
         /\ Fits(asked[c], Held(asked[c]), got[c])
  BY DEF ExchangeInv, ClientInv, CallInv, Undisturbed

LEMMA HeldIsFile ==
  ASSUME ExchangeInv, NEW r \in Requests, r.op \in {"view", "create", "delete"}
  PROVE  /\ r.path \in Path
         /\ Held(r) = IF name[r.path] = 0 THEN Gone ELSE Seen(name[r.path])
         /\ Held(r).ino = name[r.path]
<1>1. r.path \in Path
  BY RequestFacts
<1>2. Held(r) = IF name[r.path] = 0 THEN Gone ELSE Seen(name[r.path])
  BY DEF Held, InodeOf
<1> QED
  BY <1>1, <1>2 DEF Gone, Seen

\* A view that nobody disturbs and that succeeds returns the file as it is: its
\* size and every byte in its place, and none of the fields that the dispatcher
\* sends once more, into however many pieces TCP cuts the answer and however
\* the reads of the client fall.  (API06_VIEWFILE6, ReplyResultSet,
\* readByteStream, ReadFileByte)
THEOREM ViewsAreSnapshots == Spec => []ViewIsSnapshot
<1>1. ExchangeInv => ViewIsSnapshot
  <2> SUFFICES ASSUME ExchangeInv, NEW c \in Client,
                      Undisturbed(c), asked[c].op = "view", got[c].ok
               PROVE  LET p == asked[c].path IN
                      /\ name[p] # 0
                      /\ LET file == body[name[p]] IN
                         /\ got[c].size = Len(file)
                         /\ attr[name[p]].read =>
                              got[c].data = [i \in 1 .. Len(file) |-> <<"data", file[i]>>]
    BY DEF ViewIsSnapshot
  <2>1. PICK r \in Requests : r = asked[c]
    BY ReturnedFits
  <2>2. PICK h : h = Held(r)
    OBVIOUS
  <2>3. /\ h.ino # 0 /\ got[c].size = Len(h.data)
        /\ h.read => got[c].data = [i \in 1 .. Len(h.data) |-> <<"data", h.data[i]>>]
    BY <2>1, <2>2, ReturnedFits DEF Fits
  <2>4. name[r.path] # 0 /\ h = Seen(name[r.path])
    BY <2>1, <2>2, <2>3, HeldIsFile
  <2>5. h.data = body[name[r.path]] /\ h.read = attr[name[r.path]].read
    BY <2>4 DEF Seen
  <2> QED
    BY <2>1, <2>3, <2>4, <2>5
<1> QED
  BY <1>1, ExchangeInvariant, PTL

\* A create or delete that nobody disturbs and that is answered "true" has been
\* done: all the data is there, the date and the permission are set, or the path
\* leads to no file.  (API07_CREATEFILE, createFile, API28_DELETEFILE)
THEOREM AnswersTakeEffect == Spec => []TakesEffect
<1>1. ExchangeInv => TakesEffect
  <2> SUFFICES ASSUME ExchangeInv, NEW c \in Client, Undisturbed(c), got[c].ok
               PROVE  LET r == asked[c] IN
                      /\ r.op = "create" =>
                           /\ name[r.path] # 0
                           /\ body[name[r.path]] = r.data
                           /\ attr[name[r.path]] = [date |-> "asked", read |-> r.read]
                      /\ r.op = "delete" => name[r.path] = 0
    BY DEF TakesEffect
  <2>1. PICK r \in Requests : r = asked[c]
    BY ReturnedFits
  <2>2. PICK h : h = Held(r)
    OBVIOUS
  <2>3. Done(r, h)
    BY <2>1, <2>2, ReturnedFits DEF Fits
  <2>4. CASE r.op = "create"
    <3>1. h.ino # 0 /\ h.data = r.data /\ h.date = "asked" /\ h.read = r.read
      BY <2>3, <2>4 DEF Done
    <3>2. r.path \in Path /\ name[r.path] # 0 /\ h = Seen(name[r.path])
      BY <2>2, <2>4, <3>1, HeldIsFile
    <3>3. /\ body[name[r.path]] = r.data
          /\ attr[name[r.path]].date = "asked" /\ attr[name[r.path]].read = r.read
      BY <3>1, <3>2 DEF Seen
    <3>4. attr[name[r.path]] \in Attr
      BY <3>2 DEF ExchangeInv, FileTypes
    <3>5. attr[name[r.path]] = [date |-> "asked", read |-> r.read]
      BY <3>3, <3>4 DEF Attr
    <3> QED
      BY <2>1, <2>4, <3>2, <3>3, <3>5
  <2>5. CASE r.op = "delete"
    <3>1. name[r.path] = 0
      BY <2>2, <2>3, <2>5, HeldIsFile DEF Done
    <3> QED
      BY <2>1, <2>5, <3>1
  <2> QED
    BY <2>1, <2>4, <2>5
<1> QED
  BY <1>1, ExchangeInvariant, PTL

\* A call that fails though no other request was at work on the files, the
\* system refused it nothing, and its answer came in time and in one piece, was
\* to view a file that is not there.  (the false answers of CFAPI,
\* MBRS_Call_Full)
THEOREM FailuresHaveCauses == Spec => []FailureHasCause
<1>1. ExchangeInv => FailureHasCause
  <2> SUFFICES ASSUME ExchangeInv, NEW c \in Client, Undisturbed(c), ~got[c].ok
               PROVE  asked[c].op = "view" /\ name[asked[c].path] = 0
    BY DEF FailureHasCause
  <2>1. PICK r \in Requests : r = asked[c]
    BY ReturnedFits
  <2>2. r.op = "view" /\ Held(r).ino = 0
    BY <2>1, ReturnedFits DEF Fits
  <2> QED
    BY <2>1, <2>2, HeldIsFile
<1> QED
  BY <1>1, ExchangeInvariant, PTL
=============================================================================
