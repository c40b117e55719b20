----------------------------- MODULE FileExchange -----------------------------
(***************************************************************************)
(* Client threads of the Java library (CFAPI5J, CAgentConnector) and the   *)
(* agent's file handlers.  A client opens a connection for each call,      *)
(* sends one request, reads the header and then the announced number of    *)
(* bytes, and closes the connection with a reset, whatever it got.         *)
(***************************************************************************)
EXTENDS AgentFiles

CONSTANT MaxCalls       \* bound: MaxCalls[c] calls of client c

VARIABLES calls,        \* how many it has made
          phase,        \* where a client thread is in its call
          asked,        \* its request
          at,           \* the worker that has its connection; 0 if none
          need,         \* the length the header announced
          have,         \* what the current read has received
          got           \* what its last call returned, if nothing disturbed it

clientVars == <<calls, phase, asked, at, need, have, got>>
vars == <<fileVars, clientVars>>

Nothing == [ok |-> FALSE, size |-> 0, data |-> <<>>]
AgentSame == UNCHANGED <<up, name, body, attr, dirs, pc, req, mem, buf>>

Call(c) ==
  /\ phase[c] = "idle" /\ up
  /\ calls[c] < MaxCalls[c]
  /\ calls' = [calls EXCEPT ![c] = @ + 1]
  /\ \E r \in RequestOf(c) : asked' = [asked EXCEPT ![c] = r]
  /\ clean' = [clean EXCEPT ![c] = TRUE]
  /\ phase' = [phase EXCEPT ![c] = "connect"]
  /\ got' = [got EXCEPT ![c] = Nothing]
  /\ AgentSame /\ UNCHANGED <<link, wire, client, at, need, have>>

\* A worker that is idle takes the connection and finds the whole request in it.
Connect(c) ==
  \E w \in Worker :
    /\ phase[c] = "connect" /\ pc[w] = "idle"
    /\ \A v \in 1 .. w - 1 : pc[v] # "idle"
    /\ at' = [at EXCEPT ![c] = w]
    /\ phase' = [phase EXCEPT ![c] = "header"]
    /\ pc' = [pc EXCEPT ![w] = "read"]
    /\ req' = [req EXCEPT ![w] = asked[c]]
    /\ link' = [link EXCEPT ![w] = "open"]
    /\ client' = [client EXCEPT ![w] = c]
    /\ SameFiles
    /\ UNCHANGED <<up, mem, buf, wire, calls, asked, need, have, got>>

--------------------------------------------------------------------------
(* Reading the answer *)

\* The library's ReadInt answers 0 for anything that is no number.
IntOf(f) == IF f[1] = "long" THEN f[2] ELSE 0
Field(fields, i) == IF i \in DOMAIN fields THEN fields[i] ELSE <<"empty", 0>>

\* BuildResult and the CMD_ method: both codes, the result, and for a view the
\* file information and, unless it says "can't read", the announced data.
Parse(r, f) ==
  LET good == /\ IntOf(Field(f, 1)) = 0 /\ IntOf(Field(f, 2)) = 0
              /\ Field(f, 3)[1] = "true"
      info == Field(f, 5)
      size == Field(f, 6)
  IN IF ~good THEN Nothing
     ELSE IF r.op # "view" THEN [Nothing EXCEPT !.ok = TRUE]
     ELSE IF info[1] # "info" THEN Nothing
     ELSE IF ~info[2].readable THEN [ok |-> TRUE, size |-> info[2].size, data |-> <<>>]
     ELSE IF size[1] # "long" THEN Nothing
     ELSE [ok |-> TRUE, size |-> info[2].size,
           data |-> [i \in 1 .. size[2] |-> Field(f, 6 + i)]]

\* socketClose: the client is rid of the connection, the worker's socket finds
\* out when the reset arrives.
Return(c, result) ==
  LET w == at[c] IN
  /\ phase' = [phase EXCEPT ![c] = "idle"]
  /\ got' = [got EXCEPT ![c] = IF clean'[c] THEN result ELSE Nothing]
  /\ asked' = [asked EXCEPT ![c] = IF clean'[c] THEN @ ELSE Free]
  /\ at' = [at EXCEPT ![c] = 0]
  /\ need' = [need EXCEPT ![c] = 0]
  /\ have' = [have EXCEPT ![c] = <<>>]
  /\ IF w = 0
     THEN UNCHANGED <<link, wire>>
     ELSE /\ link' = [link EXCEPT ![w] = IF @ = "open" THEN "left" ELSE @]
          /\ wire' = [wire EXCEPT ![w] = <<>>]

ResetArrives(w) ==
  /\ link[w] = "left"
  /\ link' = [link EXCEPT ![w] = "reset"]
  /\ AgentSame /\ UNCHANGED <<wire, client, clean, clientVars>>

Take(c, k) ==
  LET w == at[c] IN
  /\ wire' = [wire EXCEPT ![w] = SubSeq(@, k + 1, Len(@))]
  /\ have' = [have EXCEPT ![c] = @ \o SubSeq(wire[w], 1, k)]

\* Each read asks for the whole header again: a header that comes in two pieces
\* takes the beginning of the body with it, which is lost.
ReadHeader(c) ==
  LET w == at[c] IN
  /\ phase[c] = "header" /\ w # 0
  /\ \E k \in 1 .. 2 :
       /\ k <= Len(wire[w])
       /\ IF Len(have[c]) + k < 2
          THEN Take(c, k) /\ UNCHANGED <<phase, need>>
          ELSE /\ wire' = [wire EXCEPT ![w] = SubSeq(@, k + 1, Len(@))]
               /\ have' = [have EXCEPT ![c] = <<>>]
               /\ need' = [need EXCEPT ![c] = (have[c] \o wire[w])[1][2]]
               /\ phase' = [phase EXCEPT ![c] = "body"]
       /\ clean' = [clean EXCEPT ![c] = @ /\ k = 2]
  /\ AgentSame /\ UNCHANGED <<link, client, calls, asked, at, got>>

ReadBody(c) ==
  LET w == at[c]
      k == IF Len(wire[w]) < need[c] THEN Len(wire[w]) ELSE need[c]
      all == have[c] \o SubSeq(wire[w], 1, k) IN
  /\ phase[c] = "body" /\ k > 0
  /\ UNCHANGED clean
  /\ IF Len(all) < need[c]
     THEN Take(c, k) /\ UNCHANGED <<link, phase, asked, got, at, need>>
     ELSE Return(c, Parse(asked[c], all))
  /\ AgentSame /\ UNCHANGED <<client, calls>>

\* The end of the stream is an error for a first read.  A later read gets -1,
\* adds nothing and tries again for ever.
ReadEnd(c) ==
  LET w == at[c] IN
  /\ phase[c] \in {"header", "body"} /\ w # 0
  /\ wire[w] = <<>> /\ link[w] \in {"end", "refused"}
  /\ clean' = [clean EXCEPT ![c] = FALSE]
  /\ IF link[w] = "end" /\ have[c] # <<>>
     THEN /\ phase' = [phase EXCEPT ![c] = "spin"]
          /\ UNCHANGED <<link, wire, asked, got, at, need, have>>
     ELSE Return(c, Nothing)
  /\ AgentSame /\ UNCHANGED <<client, calls>>

\* Slip: a read that times out is tried again.
Timeout_Again(c) ==
  \/ /\ phase[c] = "connect"
     /\ clean' = [clean EXCEPT ![c] = FALSE]
     /\ Return(c, Nothing)
     /\ AgentSame /\ UNCHANGED <<client, calls>>
  \/ phase[c] \in {"header", "body"} /\ UNCHANGED vars

\* connect fails, or nothing has come for readTimeout.
Timeout(c) ==
  LET w == at[c] IN
  /\ \/ phase[c] = "connect"
     \/ /\ phase[c] \in {"header", "body"} /\ w # 0
        /\ wire[w] = <<>> /\ link[w] = "open"
  /\ clean' = [clean EXCEPT ![c] = FALSE]
  /\ Return(c, Nothing)
  /\ AgentSame /\ UNCHANGED <<client, calls>>

--------------------------------------------------------------------------
ClientStep(c) == Connect(c) \/ ReadHeader(c) \/ ReadBody(c) \/ ReadEnd(c) \/ Timeout(c)
AgentStep(w) == Handle(w) /\ UNCHANGED clientVars

\* Every call is over, or its client reads for ever, and no more is made.
Over == /\ ~up \/ calls = MaxCalls
        /\ \A c \in Client : phase[c] \in {"idle", "spin"}
        /\ UNCHANGED vars

Next == \/ \E c \in Client : Call(c) \/ ClientStep(c)
        \/ \E w \in Worker : AgentStep(w) \/ ResetArrives(w)
        \/ Over

Init == /\ FilesInit
        /\ calls = [c \in Client |-> 0]
        /\ phase = [c \in Client |-> "idle"]
        /\ asked = [c \in Client |-> Free]
        /\ at = [c \in Client |-> 0]
        /\ need = [c \in Client |-> 0]
        /\ have = [c \in Client |-> <<>>]
        /\ got = [c \in Client |-> Nothing]

Spec == Init /\ [][Next]_vars
\* No step of the system repeats, and the calls are bounded: that it goes on
\* while it can is all the fairness its calls need.
FairSpec == Spec /\ WF_vars(Next)
--------------------------------------------------------------------------
(* Properties *)

Unit == Client \cup {"old", "hole"}
Kinds == {"header", "pad", "long", "true", "false", "msg", "info", "data"}

\* Every variable has its type: lengths of pieces and answers stay within the
\* longest file, and a worker's position within the file it works on.
TypeOK ==
  /\ up \in BOOLEAN /\ name \in [Path -> Inode \cup {0}] /\ dirs \in 0 .. Depth
  /\ \A i \in Inode : \A n \in DOMAIN body[i] : body[i][n] \in Unit
  /\ attr \in [Inode -> [date : {"now", "asked"}, read : BOOLEAN]]
  /\ \A w \in Worker : /\ mem[w].ino \in Inode \cup {0}
                       /\ client[w] \in Client \cup {NoClient}
                       /\ \A f \in {wire[w][n] : n \in DOMAIN wire[w]} : f[1] \in Kinds
                       /\ link[w] \in {"none", "open", "left", "reset", "end", "refused"}
  /\ at \in [Client -> Worker \cup {0}]
  /\ phase \in [Client -> {"idle", "connect", "header", "body", "spin"}]

\* The call of c is over and nothing has disturbed it.
Undisturbed(c) == phase[c] = "idle" /\ asked[c] # Free /\ clean[c]

\* A view that nobody disturbs and that succeeds returns the file: the size of
\* the file information and every byte, and none of the fields that the
\* dispatcher sends a second time.  (API06_VIEWFILE6, ReplyResultSet,
\* readByteStream, ReadFileByte)
ViewIsSnapshot ==
  \A c \in Client : Undisturbed(c) /\ asked[c].op = "view" /\ got[c].ok =>
    LET p == asked[c].path IN
    /\ name[p] # 0
    /\ LET file == body[name[p]] IN
       /\ got[c].size = Len(file)
       /\ attr[name[p]].read =>
            got[c].data = [i \in 1 .. Len(file) |-> <<"data", file[i]>>]

\* A create or delete that nobody disturbs and that is answered "true" has done
\* what it was asked: all the data, the date and the permission, or no file.
\* (API07_CREATEFILE, createFile, API28_DELETEFILE)
TakesEffect ==
  \A c \in Client : Undisturbed(c) /\ got[c].ok =>
    LET r == asked[c] IN
    /\ r.op = "create" => /\ name[r.path] # 0
                          /\ body[name[r.path]] = r.data
                          /\ attr[name[r.path]] = [date |-> "asked", read |-> r.read]
    /\ r.op = "delete" => name[r.path] = 0

\* A call fails for a reason: another request was at work on the files, the
\* system refused something, the answer was late or torn; or the file to view
\* is not there.  (the false answers of CFAPI, MBRS_Call_Full)
FailureHasCause ==
  \A c \in Client : Undisturbed(c) /\ ~got[c].ok =>
    asked[c].op = "view" /\ name[asked[c].path] = 0

\* As long as the agent lives every call comes to its end, whatever the others
\* do: an answer that is too short ends in the timeout.  (readTimeout,
\* readByteStream; it is the death of the agent in the middle of an answer that
\* leaves a client reading for ever)
EveryCallEnds == \A c \in Client : phase[c] # "idle" ~> (phase[c] = "idle" \/ ~up)
===============================================================================
