------------------------ MODULE DirectorySearchProofs ------------------------
(***************************************************************************)
(* Proofs about DirectorySearch, for every tree, order and set of          *)
(* requests: a listing is exact, the pages of a collecting client make the *)
(* whole listing, and the temporary files are removed.                     *)
(***************************************************************************)
EXTENDS DirectorySearch, FiniteSetTheorems, FunctionTheorems, SequenceTheorems, WellFoundedInduction, TLAPS

Names == ToSet(Order)
Stream == [path : Path, at : 0 .. Len(Order)]
Apis == {"VIEWDIR", "ONLY_DIR", "ONLY_FILE", "COLLECT", "SCANDIR"}
Fields == {"api", "sub", "filter", "max", "start"}
Answers == [ok : BOOLEAN, text : BOOLEAN, rows : Seq(Path)]
Kinds == {"none", "file", "dir"}

\* The walk is on its way; or has come to its end, with an answer that holds.
Walking == pc \in {"read", "info", "opendir"}
Walked == \/ pc \in {"contents", "zip", "copy", "send"}
          \/ pc = "answered" /\ answer.ok /\ answer.text

DirPaths == {dirs[j].path : j \in DOMAIN dirs}

\* The stream of its directory is past p.
Passed(p) ==
  \E n \in DOMAIN Order, j \in DOMAIN dirs :
    Order[n] = p /\ dirs[j].path = Parent[p] /\ n <= dirs[j].at

\* The path p, when it was of kind k, is one to be listed.
Asked(p, k) == k \in {"file", "dir"} /\ <<p, k>> \in was /\ Lists(k) /\ Passes(p, k)

\* Only VIEWDIR limits the rows.
RequestOK(r) ==
  /\ DOMAIN r = Fields /\ r.api \in Apis /\ r.max \in Int
  /\ r.api # "VIEWDIR" => r.max = -1
  /\ r.api \in {"ONLY_DIR", "ONLY_FILE", "SCANDIR"} => r.sub

SearchTypeOK ==
  /\ kind \in [Path -> Kinds]
  /\ pc \in {"start", "root", "read", "info", "opendir", "contents", "zip", "copy", "send",
             "answered", "done"}
  /\ RequestOK(req)
  /\ dirs \in Seq(Stream)
  /\ cur \in Nat \ {0}
  /\ entry \in [path : Path, kind : Kinds]
  /\ rows \in Seq(Path) /\ count \in Nat
  /\ answer \in Answers
  /\ got \in Seq(Path)
  /\ stayed \subseteq Path /\ refused \subseteq Path
  /\ pc \in {"start", "root"} => dirs = <<>> /\ cur = 1 /\ rows = <<>> /\ count = 0

\* What exists is in a directory; what stayed exists; what is, was.
TreeInv ==
  /\ \A p \in Names : kind[p] # "none" => kind[Parent[p]] = "dir"
  /\ \A p \in stayed : kind[p] # "none"
  /\ \A p \in Path : <<p, kind[p]>> \in was

\* No directory is read twice and no row is written twice, because both are
\* behind the streams.
OnceInv ==
  /\ \A i, j \in DOMAIN dirs : dirs[i].path = dirs[j].path => i = j
  /\ \A i \in DOMAIN dirs : dirs[i].path = Root \/ Passed(dirs[i].path)
  /\ \A m, n \in DOMAIN rows : rows[m] = rows[n] => m = n
  /\ \A n \in DOMAIN rows : Passed(rows[n]) \/ (rows[n] = Root /\ req.api = "ONLY_DIR")

\* The entry at hand is new, and what stat found still holds if it stayed.
EntryInv ==
  /\ Walking => cur \in DOMAIN dirs
  /\ pc \in {"info", "opendir"} =>
       /\ entry.path \in Names /\ Passed(entry.path) /\ entry.path \notin DirPaths
       /\ entry.path \in stayed => entry.kind = kind[entry.path]
  /\ pc = "info" => /\ req.api # "SCANDIR"
                    /\ entry.path \notin ToSet(rows) /\ Asked(entry.path, entry.kind)

\* Every row was asked for.
RowsInv == \A n \in DOMAIN rows : \E k \in {"file", "dir"} : Asked(rows[n], k)

\* A path that stayed and that a stream is past is listed, and read if it is a
\* directory; or it is the entry at hand.
Settled(p) ==
  /\ Lists(kind[p]) /\ Passes(p, kind[p]) /\ (req.api = "SCANDIR" => kind[p] = "file")
       => p \in ToSet(rows) \/ (pc = "info" /\ entry.path = p)
  /\ kind[p] = "dir" /\ req.sub
       => p \in DirPaths \cup refused \/ (pc \in {"info", "opendir"} /\ entry.path = p)

NoneMissed == \A p \in stayed \cap Names : Passed(p) => Settled(p)

\* A directory that has been read is read to its end.
NoneLeft == \A j \in DOMAIN dirs : \A p \in stayed \cap Names :
              j < cur /\ Parent[p] = dirs[j].path => Passed(p)

RootOpened == \/ /\ dirs # <<>> /\ dirs[1].path = Root
                 /\ req.api = "ONLY_DIR" => Root \in ToSet(rows)
              \/ /\ dirs = <<>> /\ req.api = "SCANDIR"
                 /\ Root \in refused \/ kind[Root] # "dir"

CompleteInv ==
  req.api # "COLLECT" =>
    /\ req.api = "VIEWDIR" => count = Len(rows)
    /\ Walking \/ Walked => /\ RootOpened
                            /\ LimitReached(count) \/ (NoneMissed /\ NoneLeft)
    /\ Walked => cur > Len(dirs)
    /\ pc = "answered" /\ answer.ok /\ answer.text => answer.rows = rows

\* Which temporary files there are at each step.
TempInv ==
  /\ pc = "start" => temp = {}
  /\ pc \in {"root", "read", "info", "opendir", "contents"} => temp = {"list"}
  /\ pc = "zip" => req.api = "SCANDIR" /\ temp = {"list"}
  /\ pc = "copy" => req.api = "SCANDIR" /\ temp = {"list", "zip"}
  /\ pc = "send" => req.api = "SCANDIR" /\ temp = {"zip"}
  /\ TempsAreRemoved

SearchInv == /\ SearchTypeOK /\ TreeInv /\ OnceInv /\ EntryInv /\ RowsInv /\ CompleteInv
             /\ TempInv

\* The rows of a page with the one that is being written.
Page == IF pc = "info" THEN Append(rows, entry.path) ELSE rows

\* After place at of the order n entries were counted: those of earlier pages
\* only, or with the page they tile the directory up to there.
Paging(step, page, at, n, sum) ==
  /\ n = Nth(at) /\ sum \in Nat
  /\ n < req.start => step = "read" /\ page = <<>> /\ sum = 0
  /\ n >= req.start => Tiles(got \o page, at) /\ (page = <<>> => sum = 0)
  /\ \A k \in DOMAIN page : ~Huge(page[k])

\* The page is all there is to come.
PageDone(page) ==
  /\ \E place \in 0 .. Len(Order) : Tiles(got \o page, place)
  /\ page = <<>> => \A i \in Collected :
       Nth(i) <= Len(got) <=> \A j \in Collected : j <= i => ~Huge(Order[j])

PageInv ==
  /\ changes \in Nat
  /\ req.api = "COLLECT" /\ changes = 0 =>
       /\ \A p \in Path : kind[p] # "none" => p \in stayed
       /\ ~req.sub /\ req.start = Len(got)
       /\ \E place \in 0 .. Len(Order) : Tiles(got, place)
       /\ \A k \in DOMAIN got : ~Huge(got[k])
       /\ pc \in {"start", "root"} => total = 0
       /\ Walking => /\ cur = 1 /\ Len(dirs) = 1 /\ dirs[1].path = Root /\ pc # "opendir"
                     /\ Paging(pc, Page, dirs[1].at, count, total)
       /\ Walked => PageDone(rows) /\ \A k \in DOMAIN rows : ~Huge(rows[k])
       /\ pc = "answered" /\ answer.ok /\ answer.text => answer.rows = rows
       /\ pc = "answered" /\ answer.rows # <<>> => answer.text
--------------------------------------------------------------------------
(* Facts about the order and the streams *)

\* The names are the paths below the root, each with its place in the order.
LEMMA OrderFacts ==
  /\ Len(Order) \in Nat /\ DOMAIN Order = 1 .. Len(Order)
  /\ Names \subseteq Path /\ Root \in Path /\ Root \notin Names
  /\ Path = {Root} \cup Names
  /\ \A p \in Names : Parent[p] \in Path /\ \E n \in DOMAIN Order : Order[n] = p
  /\ \A n \in DOMAIN Order : Order[n] \in Names
  /\ \A m, n \in DOMAIN Order : Order[m] = Order[n] => m = n
  BY SearchAssumption DEF Names, Path, ToSet, IsInjective

\* A set of numbers that is not empty has a least one.
LEMMA LeastExists ==
  ASSUME NEW S, S \subseteq Nat, S # {}
  PROVE  \E n \in S : \A m \in S : n <= m
<1>1. PICK n \in S : \A m \in S : <<m, n>> \notin OpToRel(<, Nat)
  BY NatLessThanWellFounded, WFMin, Zenon
<1>2. \A m \in S : ~(m < n)
  BY <1>1 DEF OpToRel
<1>. QED
  BY <1>2

\* The streams only go on and the directories stay where they are in the list.
Advance == /\ DOMAIN dirs \subseteq DOMAIN dirs'
           /\ \A j \in DOMAIN dirs : dirs'[j].path = dirs[j].path /\ dirs[j].at <= dirs'[j].at

\* Each stream is one of a path, at a place of the order.
LEMMA StreamFacts ==
  ASSUME NEW s \in Seq(Stream)
  PROVE  /\ Len(s) \in Nat /\ DOMAIN s = 1 .. Len(s)
         /\ \A j \in DOMAIN s : /\ s[j].path \in Path
                               /\ s[j].at \in Nat /\ s[j].at <= Len(Order)
<1>1. \A j \in DOMAIN s : s[j] \in Stream
  OBVIOUS
<1>2. \A r \in Stream : r.path \in Path /\ r.at \in Nat /\ r.at <= Len(Order)
  BY OrderFacts DEF Stream
<1>. QED
  BY <1>1, <1>2

\* What a stream is past, it stays past.
LEMMA PassedStays ==
  ASSUME dirs \in Seq(Stream), dirs' \in Seq(Stream), Advance, NEW p, Passed(p)
  PROVE  Passed(p)'
<1>1. PICK n \in DOMAIN Order, j \in DOMAIN dirs :
             Order[n] = p /\ dirs[j].path = Parent[p] /\ n <= dirs[j].at
  BY DEF Passed
<1>2. n \in Nat /\ dirs[j].at \in Nat /\ dirs'[j].at \in Nat /\ j \in DOMAIN dirs'
  <2>1. j \in DOMAIN dirs'
    BY DEF Advance
  <2>2. dirs'[j].at \in Nat
    BY <2>1, StreamFacts
  <2>3. dirs[j].at \in Nat
    BY StreamFacts
  <2>. QED
    BY <2>1, <2>2, <2>3, OrderFacts
<1>3. n <= dirs'[j].at /\ dirs'[j].path = Parent[p]
  BY <1>1, <1>2 DEF Advance
<1>. QED
  BY <1>1, <1>2, <1>3 DEF Passed

\* No stream is past the entry that readdir has next.
LEMMA EntryIsNew ==
  ASSUME SearchTypeOK, OnceInv, cur \in DOMAIN dirs, NEW i \in Ahead
  PROVE  /\ i \in DOMAIN Order /\ Order[i] \in Names /\ ~Passed(Order[i])
         /\ Parent[Order[i]] = dirs[cur].path /\ kind[Order[i]] # "none"
         /\ Order[i] \notin DirPaths /\ Order[i] \notin ToSet(rows)
<1>1. i \in DOMAIN Order /\ Order[i] \in Names /\ Parent[Order[i]] = dirs[cur].path /\ i > dirs[cur].at
      /\ kind[Order[i]] # "none"
  BY OrderFacts DEF Ahead
<1>2. ~Passed(Order[i])
  <2>. SUFFICES ASSUME NEW n \in DOMAIN Order, NEW j \in DOMAIN dirs,
                       Order[n] = Order[i], dirs[j].path = Parent[Order[i]], n <= dirs[j].at
                PROVE  FALSE
    BY DEF Passed
  <2>1. n = i /\ j = cur
    BY <1>1, OrderFacts DEF OnceInv
  <2>2. i \in Nat /\ dirs[cur].at \in Nat
    <3>1. dirs \in Seq(Stream)
      BY DEF SearchTypeOK
    <3>. QED
      BY <3>1, StreamFacts, OrderFacts, <1>1
  <2>. QED
    BY <2>1, <2>2, <1>1
<1>3. Order[i] # Root
  BY <1>1, OrderFacts
<1>. QED
  BY <1>1, <1>2, <1>3 DEF OnceInv, DirPaths, ToSet
--------------------------------------------------------------------------
(* Steps that leave the walk alone *)

\* What is asked for depends on the request only, and stays asked for.
LEMMA AskedStays ==
  ASSUME req'.api = req.api, req'.sub = req.sub, req'.filter = req.filter, was \subseteq was'
  PROVE  /\ \A k : Lists(k)' <=> Lists(k)
         /\ \A p, k : Passes(p, k)' <=> Passes(p, k)
         /\ \A p, k : Asked(p, k) => Asked(p, k)'
<1>1. \A k : Lists(k)' <=> Lists(k)
  BY DEF Lists
<1>2. \A p, k : Passes(p, k)' <=> Passes(p, k)
  BY DEF Passes
<1>. QED
  BY <1>1, <1>2 DEF Asked

LEMMA LimitStays ==
  ASSUME req'.max = req.max, NEW m \in Nat, NEW n \in Nat, m <= n, req.max \in Int, LimitReached(m)
  PROVE  LimitReached(n) /\ LimitReached(n)'
  BY DEF LimitReached

\* An answer, or the end of a walk that has failed.
LEMMA AnswerSteps ==
  ASSUME SearchInv, UNCHANGED <<fileVars, req, walkVars, got>>,
         refused \subseteq refused', refused' \subseteq Path,
         pc' \in {"root", "zip", "copy", "send", "answered"}, pc' = "root" => pc = "start",
         answer' \in Answers,
         pc' = "answered" /\ answer'.ok /\ answer'.text => answer'.rows = rows,
         Walked' => Walked \/ /\ pc = "root" /\ req.api = "SCANDIR"
                              /\ Root \in refused' \/ kind[Root] # "dir",
         TempInv'
  PROVE  SearchInv'
<1>1. SearchTypeOK'
  BY DEF SearchInv, SearchTypeOK, fileVars, walkVars
<1>2. TreeInv'
  BY DEF SearchInv, TreeInv, fileVars
<1>3. \A p : Passed(p)' <=> Passed(p)
  BY DEF Passed, walkVars
<1>4. OnceInv'
  BY <1>3 DEF SearchInv, OnceInv, walkVars
<1>5. EntryInv'
  BY DEF EntryInv, Walking
<1>6. /\ \A k : Lists(k)' <=> Lists(k)
      /\ \A p, k : Passes(p, k)' <=> Passes(p, k)
      /\ \A p, k : Asked(p, k) => Asked(p, k)'
  <2>1. req' = req /\ was' = was
    BY DEF fileVars
  <2>. QED
    BY <2>1, AskedStays
<1>7. RowsInv'
  BY <1>6 DEF SearchInv, RowsInv, walkVars
<1>8. CompleteInv'
  <2>. SUFFICES ASSUME req.api # "COLLECT"
                PROVE  /\ req.api = "VIEWDIR" => count = Len(rows)
                       /\ Walked' => /\ RootOpened'
                                     /\ LimitReached(count)' \/ (NoneMissed' /\ NoneLeft')
                                     /\ cur > Len(dirs)
    BY DEF CompleteInv, Walking, walkVars
  <2>1. req.api = "VIEWDIR" => count = Len(rows)
    BY DEF SearchInv, CompleteInv
  <2>2. CASE Walked /\ Walked'
    <3>1. RootOpened /\ (LimitReached(count) \/ (NoneMissed /\ NoneLeft)) /\ cur > Len(dirs)
      BY <2>2 DEF SearchInv, CompleteInv
    <3>2. RootOpened'
      BY <3>1 DEF RootOpened, walkVars, fileVars
    <3>3. LimitReached(count) => LimitReached(count)'
      BY DEF LimitReached, walkVars
    <3>4. NoneLeft => NoneLeft'
      BY <1>3 DEF NoneLeft, walkVars, fileVars
    <3>5. pc \notin {"info", "opendir"}
      BY <2>2 DEF Walked
    <3>6. ASSUME NEW p, Settled(p) PROVE Settled(p)'
      BY <3>5, <3>6, <1>6 DEF Settled, DirPaths, walkVars, fileVars
    <3>7. NoneMissed => NoneMissed'
      BY <3>6, <1>3 DEF NoneMissed, fileVars
    <3>. QED
      BY <2>1, <3>1, <3>2, <3>3, <3>4, <3>7
  <2>3. CASE pc = "root" /\ req.api = "SCANDIR" /\ (Root \in refused' \/ kind[Root] # "dir")
    <3>1. dirs = <<>> /\ dirs' = <<>> /\ cur = 1
      BY <2>3 DEF SearchInv, SearchTypeOK, walkVars
    <3>2. RootOpened' /\ cur > Len(dirs)
      BY <3>1, <2>3 DEF RootOpened, fileVars
    <3>3. NoneMissed' /\ NoneLeft'
      BY <3>1 DEF NoneMissed, NoneLeft, Passed
    <3>. QED
      BY <2>1, <3>2, <3>3
  <2>. QED
    BY <2>1, <2>2, <2>3
<1>. QED
  BY <1>1, <1>2, <1>4, <1>5, <1>7, <1>8 DEF SearchInv

LEMMA RequestFacts == ASSUME NEW r \in Request PROVE RequestOK(r)
<1>0. RowLimits \subseteq Int
  BY SearchAssumption
<1>1. CASE r \in ViewDir
  <2>1. DOMAIN r = Fields
    BY <1>1 DEF ViewDir, Fields
  <2>2. r.api = "VIEWDIR" /\ r.max \in RowLimits
    BY <1>1 DEF ViewDir
  <2>. QED
    BY <1>0, <2>1, <2>2 DEF RequestOK, Apis
<1>2. CASE r \in OnlyDir
  <2>1. DOMAIN r = Fields
    BY <1>2 DEF OnlyDir, Fields
  <2>2. r.api = "ONLY_DIR" /\ r.max \in {-1}
    BY <1>2 DEF OnlyDir
  <2>3. r.sub
    BY <1>2 DEF OnlyDir
  <2>. QED
    BY <1>0, <2>1, <2>2, <2>3 DEF RequestOK, Apis
<1>3. CASE r \in OnlyFile
  <2>1. DOMAIN r = Fields
    BY <1>3 DEF OnlyFile, Fields
  <2>2. r.api = "ONLY_FILE" /\ r.max \in {-1}
    BY <1>3 DEF OnlyFile
  <2>3. r.sub
    BY <1>3 DEF OnlyFile
  <2>. QED
    BY <1>0, <2>1, <2>2, <2>3 DEF RequestOK, Apis
<1>4. CASE r \in CollectPage
  <2>1. DOMAIN r = Fields
    BY <1>4 DEF CollectPage, Fields
  <2>2. r.api = "COLLECT" /\ r.max \in {-1}
    BY <1>4 DEF CollectPage
  <2>. QED
    BY <1>0, <2>1, <2>2 DEF RequestOK, Apis
<1>5. CASE r \in ScanDir
  <2>1. DOMAIN r = Fields
    BY <1>5 DEF ScanDir, Fields
  <2>2. r.api = "SCANDIR" /\ r.max \in {-1}
    BY <1>5 DEF ScanDir
  <2>3. r.sub
    BY <1>5 DEF ScanDir
  <2>. QED
    BY <1>0, <2>1, <2>2, <2>3 DEF RequestOK, Apis
<1>. QED
  BY <1>1, <1>2, <1>3, <1>4, <1>5 DEF Request

\* The page that is asked for next is the same request.
LEMMA RequestGoesOn ==
  ASSUME NEW r, RequestOK(r), NEW n \in Nat
  PROVE  LET q == [r EXCEPT !.start = n] IN
         RequestOK(q) /\ q.api = r.api /\ q.max = r.max /\ q.sub = r.sub /\ q.filter = r.filter
<1>. DEFINE q == [r EXCEPT !.start = n]
<1>1. DOMAIN q = Fields /\ q.api = r.api /\ q.max = r.max
  BY DEF RequestOK, Fields
<1>2. q.sub = r.sub /\ q.filter = r.filter
  BY DEF RequestOK, Fields
<1>. QED
  BY <1>1, <1>2 DEF RequestOK

LEMMA AnswerRecord ==
  ASSUME NEW a \in BOOLEAN, NEW b \in BOOLEAN, NEW r \in Seq(Path)
  PROVE  /\ [ok |-> a, text |-> b, rows |-> r] \in Answers
         /\ [ok |-> a, text |-> b, rows |-> r].ok = a
         /\ [ok |-> a, text |-> b, rows |-> r].text = b
         /\ [ok |-> a, text |-> b, rows |-> r].rows = r
  BY DEF Answers

LEMMA AnswerFacts == NoAnswer \in Answers /\ NoAnswer.ok = FALSE /\ <<>> \in Seq(Path)
<1>1. <<>> \in Seq(Path)
  OBVIOUS
<1>. QED
  BY <1>1, AnswerRecord DEF NoAnswer

LEMMA SearchInit == Init => SearchInv
<1>. SUFFICES ASSUME Init PROVE SearchInv
  OBVIOUS
<1>1. kind \in [Path -> Kinds]
  BY SearchAssumption DEF Init, Kinds
<1>2. RequestOK(req)
  BY RequestFacts DEF Init
<1>3. SearchTypeOK
  <2>1. dirs \in Seq(Stream) /\ rows \in Seq(Path) /\ got \in Seq(Path)
    BY DEF Init
  <2>2. entry \in [path : Path, kind : Kinds] /\ answer \in Answers
    BY OrderFacts, AnswerFacts DEF Init, Kinds
  <2>3. cur \in Nat \ {0} /\ count \in Nat
    BY DEF Init
  <2>. QED
    BY <1>1, <1>2, <2>1, <2>2, <2>3 DEF Init, SearchTypeOK
<1>4. TreeInv
  BY <1>1, SearchAssumption DEF Init, TreeInv, Names
<1>5. OnceInv /\ EntryInv /\ RowsInv
  BY DEF Init, OnceInv, EntryInv, RowsInv, Walking
<1>6. CompleteInv
  BY DEF Init, CompleteInv, Walking, Walked
<1>7. TempInv
  BY DEF Init, TempInv, TempsAreRemoved
<1>. QED
  BY <1>3, <1>4, <1>5, <1>6, <1>7 DEF SearchInv

LEMMA MakeTempStep == SearchInv /\ MakeTemp => SearchInv'
<1>. SUFFICES ASSUME SearchInv, MakeTemp PROVE SearchInv'
  OBVIOUS
<1>1. UNCHANGED <<fileVars, req, walkVars, got, refused>> /\ refused \subseteq Path
  BY DEF MakeTemp, Unchanged, SearchInv, SearchTypeOK
<1>2. /\ pc' \in {"root", "answered"} /\ (pc' = "root" => pc = "start")
      /\ answer' \in Answers
      /\ pc' = "answered" => ~answer'.ok
  BY AnswerFacts DEF MakeTemp, Reply, SearchInv, SearchTypeOK
<1>3. ~Walked'
  BY <1>2 DEF Walked
<1>4. TempInv'
  BY DEF MakeTemp, Reply, SearchInv, TempInv, TempsAreRemoved
<1>. QED
  BY <1>1, <1>2, <1>3, <1>4, AnswerSteps

LEMMA ContentsStep == SearchInv /\ Contents => SearchInv'
<1>. SUFFICES ASSUME SearchInv, Contents PROVE SearchInv'
  OBVIOUS
<1>1. UNCHANGED <<fileVars, req, walkVars, got, refused>> /\ refused \subseteq Path
  BY DEF Contents, Unchanged, SearchInv, SearchTypeOK
<1>2. rows \in Seq(Path) /\ (Len(rows) <= BufferRows) \in BOOLEAN
  BY DEF SearchInv, SearchTypeOK
<1>3. /\ pc' = "answered"
      /\ answer' \in Answers
      /\ answer'.text => answer'.rows = rows
  <2>. DEFINE fits == Len(rows) <= BufferRows
              text == IF fits THEN rows ELSE <<>>
  <2>1. \/ Reply([ok |-> TRUE, text |-> fits, rows |-> text])
        \/ Reply([ok |-> TRUE, text |-> FALSE, rows |-> <<>>])
        \/ Reply(NoAnswer)
    BY DEF Contents
  <2>2. fits \in BOOLEAN /\ text \in Seq(Path) /\ (fits => text = rows)
    BY <1>2, AnswerFacts
  <2>. HIDE DEF fits, text
  <2>3. CASE Reply([ok |-> TRUE, text |-> fits, rows |-> text])
    <3>1. pc' = "answered" /\ answer' = [ok |-> TRUE, text |-> fits, rows |-> text]
      BY <2>3 DEF Reply
    <3>2. answer' \in Answers /\ answer'.text = fits /\ answer'.rows = text
      BY <3>1, <2>2, AnswerRecord
    <3>. QED
      BY <3>1, <3>2, <2>2
  <2>4. CASE Reply([ok |-> TRUE, text |-> FALSE, rows |-> <<>>])
    <3>1. pc' = "answered" /\ answer' = [ok |-> TRUE, text |-> FALSE, rows |-> <<>>]
      BY <2>4 DEF Reply
    <3>2. answer' \in Answers /\ answer'.text = FALSE
      BY <3>1, AnswerFacts, AnswerRecord
    <3>. QED
      BY <3>1, <3>2
  <2>5. CASE Reply(NoAnswer)
    <3>1. pc' = "answered" /\ answer' = NoAnswer
      BY <2>5 DEF Reply
    <3>. QED
      BY <3>1, AnswerFacts DEF NoAnswer
  <2>. QED
    BY <2>1, <2>3, <2>4, <2>5
<1>4. Walked' => Walked
  BY DEF Contents, Walked
<1>5. TempInv'
  BY <1>3 DEF Contents, TempInv, TempsAreRemoved
<1>. QED
  BY <1>1, <1>3, <1>4, <1>5, AnswerSteps

LEMMA ZipSteps == SearchInv /\ (MakeZip \/ CopyToZip \/ SendZip) => SearchInv'
<1>. SUFFICES ASSUME SearchInv, MakeZip \/ CopyToZip \/ SendZip PROVE SearchInv'
  OBVIOUS
<1>1. UNCHANGED <<fileVars, req, walkVars, got, refused>> /\ refused \subseteq Path
  BY DEF MakeZip, CopyToZip, SendZip, Unchanged, SearchInv, SearchTypeOK
<1>2. rows \in Seq(Path) /\ answer \in Answers
  BY DEF SearchInv, SearchTypeOK
<1>3. /\ pc' \in {"copy", "send", "answered"}
      /\ answer' \in Answers
      /\ pc' = "answered" /\ answer'.ok /\ answer'.text => answer'.rows = rows
  <2>1. \/ pc' \in {"copy", "send"} /\ answer' = answer
        \/ pc' = "answered" /\ answer' = NoAnswer
        \/ pc' = "answered" /\ answer' = [ok |-> TRUE, text |-> TRUE, rows |-> rows]
    BY DEF MakeZip, CopyToZip, SendZip, Reply
  <2>2. CASE pc' \in {"copy", "send"} /\ answer' = answer
    BY <1>2, <2>2
  <2>3. CASE pc' = "answered" /\ answer' = NoAnswer
    BY <2>3, AnswerFacts
  <2>4. CASE pc' = "answered" /\ answer' = [ok |-> TRUE, text |-> TRUE, rows |-> rows]
    BY <1>2, <2>4, AnswerRecord
  <2>. QED
    BY <2>1, <2>2, <2>3, <2>4
<1>4. Walked
  BY DEF MakeZip, CopyToZip, SendZip, Walked
<1>5. TempInv'
  <2>1. req' = req /\ req.api = "SCANDIR"
    BY <1>1 DEF SearchInv, TempInv, MakeZip, CopyToZip, SendZip
  <2>2. CASE MakeZip
    BY <2>1, <2>2, AnswerFacts DEF MakeZip, Reply, TempInv, TempsAreRemoved
  <2>3. CASE CopyToZip
    BY <2>1, <2>3 DEF CopyToZip, Reply, TempInv, TempsAreRemoved
  <2>4. CASE SendZip
    BY <2>1, <2>4, AnswerFacts DEF SendZip, Reply, SearchInv, TempInv, TempsAreRemoved
  <2>. QED
    BY <2>2, <2>3, <2>4
<1>. QED
  BY <1>1, <1>3, <1>4, <1>5, AnswerSteps

LEMMA OpenRootStep == SearchInv /\ OpenRoot => SearchInv'
<1>. SUFFICES ASSUME SearchInv, OpenRoot PROVE SearchInv'
  OBVIOUS
<1>. DEFINE
  Limited == /\ req.api # "SCANDIR" /\ LimitReached(count)
             /\ WalkFails /\ UNCHANGED refused
  Missing == /\ kind[Root] # "dir" /\ WalkFails /\ UNCHANGED refused
  Refused == /\ WalkFails /\ refused' = refused \cup {Root}
  Opened == /\ kind[Root] = "dir" /\ pc' = "read"
            /\ dirs' = <<[path |-> Root, at |-> 0]>>
            /\ rows' = IF req.api = "ONLY_DIR" THEN <<Root>> ELSE <<>>
            /\ UNCHANGED <<cur, entry, count, total, temp, answer, refused>>
<1>1. pc = "root" /\ (Limited \/ Missing \/ Refused \/ Opened)
  BY DEF OpenRoot
<1>2. UNCHANGED <<fileVars, req, got>>
  BY DEF OpenRoot, Unchanged
<1>3. CASE Limited \/ Missing \/ Refused
  <2>1. UNCHANGED walkVars /\ refused \subseteq refused' /\ refused' \subseteq Path
    BY <1>3, OrderFacts DEF WalkFails, SearchInv, SearchTypeOK
  <2>2. /\ pc' \in {"zip", "answered"}
        /\ answer' \in Answers
        /\ pc' = "answered" => ~answer'.ok
        /\ pc' = "zip" => req.api = "SCANDIR"
    BY <1>3, AnswerFacts DEF WalkFails, Reply, SearchInv, SearchTypeOK
  <2>3. Walked' => pc' = "zip"
    BY <2>2 DEF Walked
  <2>4. Walked' => /\ pc = "root" /\ req.api = "SCANDIR"
                   /\ Root \in refused' \/ kind[Root] # "dir"
    BY <1>1, <1>3, <2>2, <2>3
  <2>5. TempInv'
    BY <1>1, <1>2, <1>3 DEF WalkFails, Reply, SearchInv, TempInv, TempsAreRemoved
  <2>. QED
    BY <1>2, <2>1, <2>2, <2>4, <2>5, AnswerSteps
<1>4. CASE Opened
  <2>0. dirs' \in Seq(Stream) /\ rows' \in Seq(Path) /\ dirs' # <<>> /\ DOMAIN dirs' = {1}
        /\ dirs'[1].path = Root /\ dirs'[1].at = 0 /\ count = 0 /\ cur = 1
    <3>1. [path |-> Root, at |-> 0] \in Stream
      BY OrderFacts DEF Stream
    <3>2. dirs' = <<[path |-> Root, at |-> 0]>> /\ count = 0 /\ cur = 1
      BY <1>1, <1>4 DEF SearchInv, SearchTypeOK
    <3>3. rows' \in Seq(Path)
      <4>1. \A p \in Path : <<p>> \in Seq(Path) /\ <<>> \in Seq(Path)
        OBVIOUS
      <4>. QED
        BY <1>4, <4>1, OrderFacts
    <3>4. \A d \in Stream : <<d>> \in Seq(Stream) /\ <<d>> # <<>> /\ DOMAIN <<d>> = {1} /\ <<d>>[1] = d
      OBVIOUS
    <3>5. [path |-> Root, at |-> 0].path = Root /\ [path |-> Root, at |-> 0].at = 0
      OBVIOUS
    <3>. QED
      BY <3>1, <3>2, <3>3, <3>4, <3>5
  <2>1. SearchTypeOK'
    BY <2>0, <1>2, <1>4 DEF SearchInv, SearchTypeOK, fileVars
  <2>2. TreeInv'
    BY <1>2 DEF SearchInv, TreeInv, fileVars
  <2>3. \A p : ~Passed(p)'
    BY <2>0, OrderFacts DEF Passed
  <2>4. OnceInv'
    <3>1. \A n \in DOMAIN rows' : n = 1 /\ rows'[n] = Root /\ req.api = "ONLY_DIR"
      BY <1>4
    <3>. QED
      BY <2>0, <3>1, <1>2 DEF OnceInv
  <2>5. EntryInv'
    BY <1>4, <2>0 DEF EntryInv, Walking
  <2>6. RowsInv'
    <3>1. \A n \in DOMAIN rows' : rows'[n] = Root /\ req.api = "ONLY_DIR"
      BY <1>4
    <3>2. req.api = "ONLY_DIR" => Asked(Root, "dir")
      BY <1>4, OrderFacts DEF SearchInv, TreeInv, Asked, Lists, Passes
    <3>3. \A p, k : Asked(p, k) => Asked(p, k)'
      <4>1. req' = req /\ was' = was
        BY <1>2 DEF fileVars
      <4>. QED
        BY <4>1, AskedStays
    <3>. QED
      BY <3>1, <3>2, <3>3 DEF RowsInv
  <2>7. CompleteInv'
    <3>1. RootOpened'
      BY <1>2, <1>4, <2>0 DEF RootOpened, ToSet
    <3>2. NoneMissed' /\ NoneLeft'
      BY <2>0, <2>3, <1>4 DEF NoneMissed, NoneLeft
    <3>3. ~Walked' /\ pc' # "answered"
      BY <1>4 DEF Walked
    <3>4. req.api = "VIEWDIR" => count' = Len(rows')
      BY <1>4, <2>0
    <3>. QED
      BY <3>1, <3>2, <3>3, <3>4, <1>2 DEF CompleteInv
  <2>8. TempInv'
    BY <1>1, <1>4 DEF SearchInv, TempInv, TempsAreRemoved
  <2>. QED
    BY <2>1, <2>2, <2>4, <2>5, <2>6, <2>7, <2>8 DEF SearchInv
<1>. QED
  BY <1>1, <1>3, <1>4

--------------------------------------------------------------------------
(* Other requests *)

\* A change is to a path that does not stay, and leaves a tree.
LEMMA ChangeFacts ==
  ASSUME SearchInv, NEW c \in Names, NEW k \in Kinds, Change(c, k),
         \/ kind[c] = "none" /\ kind[Parent[c]] = "dir"
         \/ k = "none" /\ \A q \in Names : Parent[q] = c => kind[q] = "none"
  PROVE  /\ kind' \in [Path -> Kinds] /\ stayed' \subseteq stayed /\ was \subseteq was'
         /\ TreeInv'
         /\ \A p \in stayed' : kind'[p] = kind[p]
         /\ \A q \in stayed' \cap Names : Parent[q] # c
         /\ kind'[Root] = kind[Root]
<1>1. /\ kind' = [kind EXCEPT ![c] = k] /\ stayed' = stayed \ {c}
      /\ was' = was \cup {<<c, k>>} /\ kind \in [Path -> Kinds] /\ c \in Path /\ c # Root
      /\ stayed \subseteq Path /\ Root \in Path
  BY OrderFacts DEF Change, SearchInv, SearchTypeOK
<1>2. \A q \in Names : Parent[q] = c => kind[q] = "none"
  <2>1. kind[c] = "none" => \A q \in Names : Parent[q] = c => kind[q] = "none"
    BY DEF SearchInv, TreeInv
  <2>. QED
    BY <2>1
<1>3. k # "none" => kind[Parent[c]] = "dir" /\ Parent[c] # c
  BY <1>1
<1>4. kind' \in [Path -> Kinds] /\ \A p \in Path : kind'[p] = IF p = c THEN k ELSE kind[p]
  BY <1>1
<1>5. \A p \in Names : kind'[p] # "none" => kind'[Parent[p]] = "dir"
  <2>. SUFFICES ASSUME NEW p \in Names, kind'[p] # "none" PROVE kind'[Parent[p]] = "dir"
    OBVIOUS
  <2>1. Parent[p] \in Path /\ p \in Path
    BY OrderFacts
  <2>2. CASE p = c
    BY <2>1, <2>2, <1>3, <1>4
  <2>3. CASE p # c
    <3>1. kind[p] # "none"
      BY <2>1, <2>3, <1>4
    <3>2. kind[Parent[p]] = "dir" /\ Parent[p] # c
      BY <3>1, <1>2 DEF SearchInv, TreeInv
    <3>. QED
      BY <3>2, <2>1, <1>4
  <2>. QED
    BY <2>2, <2>3
<1>6. TreeInv'
  <2>1. \A p \in stayed' : kind'[p] # "none"
    BY <1>1, <1>4 DEF SearchInv, TreeInv
  <2>2. \A p \in Path : <<p, kind'[p]>> \in was'
    BY <1>1, <1>4 DEF SearchInv, TreeInv
  <2>. QED
    BY <1>5, <2>1, <2>2 DEF TreeInv
<1>7. \A q \in stayed' \cap Names : Parent[q] # c
  BY <1>1, <1>2 DEF SearchInv, TreeInv
<1>. QED
  BY <1>1, <1>4, <1>6, <1>7

LEMMA ChangeStep ==
  ASSUME SearchInv, NEW c \in Names, NEW k \in Kinds, Change(c, k),
         \/ kind[c] = "none" /\ kind[Parent[c]] = "dir"
         \/ k = "none" /\ \A q \in Names : Parent[q] = c => kind[q] = "none"
  PROVE  SearchInv'
<1>1. UNCHANGED <<pc, req, cur, entry, rows, count, total, temp, answer, got, refused>>
  BY DEF Change
<1>2. /\ kind' \in [Path -> Kinds] /\ stayed' \subseteq stayed /\ was \subseteq was'
      /\ TreeInv'
      /\ \A p \in stayed' : kind'[p] = kind[p]
      /\ \A q \in stayed' \cap Names : Parent[q] # c
      /\ kind'[Root] = kind[Root]
  BY ChangeFacts
<1>3. /\ dirs' \in Seq(Stream) /\ DOMAIN dirs' = DOMAIN dirs /\ Len(dirs') = Len(dirs)
      /\ dirs = <<>> => dirs' = <<>>
      /\ \A j \in DOMAIN dirs :
           /\ dirs'[j].path = dirs[j].path /\ dirs[j].at <= dirs'[j].at
           /\ dirs[j].path # c => dirs'[j].at = dirs[j].at
  <2>1. dirs \in Seq(Stream)
    BY DEF SearchInv, SearchTypeOK
  <2>2. dirs' = [i \in DOMAIN dirs |-> IF dirs[i].path = c THEN [dirs[i] EXCEPT !.at = Len(Order)] ELSE dirs[i]]
    BY DEF Change
  <2>3. \A r \in Stream : /\ [r EXCEPT !.at = Len(Order)] \in Stream
                          /\ [r EXCEPT !.at = Len(Order)].path = r.path
                          /\ [r EXCEPT !.at = Len(Order)].at = Len(Order)
    BY OrderFacts DEF Stream
  <2>4. \A j \in DOMAIN dirs : dirs[j] \in Stream /\ dirs[j].at <= Len(Order) /\ dirs[j].at \in Nat
    BY <2>1, StreamFacts
  <2>5. \A j \in DOMAIN dirs :
           /\ dirs'[j] \in Stream
           /\ dirs'[j].path = dirs[j].path /\ dirs[j].at <= dirs'[j].at
           /\ dirs[j].path # c => dirs'[j].at = dirs[j].at
    BY <2>2, <2>3, <2>4
  <2>6. dirs' \in Seq(Stream) /\ Len(dirs') = Len(dirs)
    BY <2>1, <2>2, <2>5
  <2>7. dirs = <<>> => dirs' = <<>>
    BY <2>6, <2>1
  <2>. QED
    BY <2>2, <2>5, <2>6, <2>7
<1>4. SearchTypeOK'
  BY <1>1, <1>2, <1>3 DEF SearchInv, SearchTypeOK
<1>5. \A p : Passed(p) => Passed(p)'
  <2>1. Advance
    BY <1>3 DEF Advance
  <2>. QED
    BY <2>1, <1>3, PassedStays DEF SearchInv, SearchTypeOK
<1>6. \A q \in stayed' \cap Names : Passed(q)' => Passed(q)
  BY <1>2, <1>3 DEF Passed
<1>7. DirPaths' = DirPaths
  BY <1>3 DEF DirPaths
<1>8. OnceInv'
  BY <1>1, <1>3, <1>5 DEF SearchInv, OnceInv
<1>9. /\ \A k1 : Lists(k1)' <=> Lists(k1)
      /\ \A p, k1 : Passes(p, k1)' <=> Passes(p, k1)
      /\ \A p, k1 : Asked(p, k1) => Asked(p, k1)'
  BY <1>1, <1>2, AskedStays
<1>10. EntryInv'
  BY <1>1, <1>2, <1>3, <1>5, <1>7, <1>9 DEF SearchInv, EntryInv, Walking
<1>11. RowsInv'
  BY <1>1, <1>9 DEF SearchInv, RowsInv
<1>12. CompleteInv'
  <2>. SUFFICES ASSUME req.api # "COLLECT"
                PROVE  /\ req.api = "VIEWDIR" => count = Len(rows)
                       /\ Walking \/ Walked => /\ RootOpened'
                                               /\ LimitReached(count)' \/ (NoneMissed' /\ NoneLeft')
                       /\ Walked => cur > Len(dirs')
                       /\ pc = "answered" /\ answer.ok /\ answer.text => answer.rows = rows
    BY <1>1 DEF CompleteInv, Walking, Walked
  <2>1. RootOpened => RootOpened'
    BY <1>1, <1>2, <1>3 DEF RootOpened
  <2>2. LimitReached(count) => LimitReached(count)'
    BY <1>1 DEF LimitReached
  <2>3. NoneLeft => NoneLeft'
    BY <1>1, <1>2, <1>3, <1>5 DEF NoneLeft
  <2>4. \A p \in stayed' : Settled(p) => Settled(p)'
    BY <1>1, <1>2, <1>7, <1>9 DEF Settled
  <2>5. NoneMissed => NoneMissed'
    BY <1>2, <1>6, <2>4 DEF NoneMissed
  <2>. QED
    BY <1>3, <2>1, <2>2, <2>3, <2>5 DEF SearchInv, CompleteInv
<1>13. TempInv'
  BY <1>1 DEF SearchInv, TempInv, TempsAreRemoved
<1>. QED
  BY <1>2, <1>4, <1>8, <1>10, <1>11, <1>12, <1>13 DEF SearchInv

LEMMA OtherRequestStep == SearchInv /\ OtherRequest => SearchInv'
<1>. SUFFICES ASSUME SearchInv, OtherRequest PROVE SearchInv'
  OBVIOUS
<1>1. PICK c \in Names :
        \/ /\ kind[c] = "none" /\ kind[Parent[c]] = "dir"
           /\ \E k \in {"file", "dir"} : Change(c, k)
        \/ /\ kind[c] # "none"
           /\ \A q \in Names : Parent[q] = c => kind[q] = "none"
           /\ Change(c, "none")
  BY DEF OtherRequest, Names
<1>. QED
  BY <1>1, ChangeStep DEF Kinds

LEMMA CollectStep == SearchInv /\ Collect => SearchInv'
<1>. SUFFICES ASSUME SearchInv, Collect PROVE SearchInv'
  OBVIOUS
<1>1. UNCHANGED <<kind, stayed, was, temp, refused>> /\ pc = "answered"
  BY DEF Collect, fileVars
<1>2. TreeInv'
  BY <1>1 DEF SearchInv, TreeInv
<1>3. CASE req.api = "COLLECT" /\ answer.ok /\ answer.rows # <<>>
  <2>1. /\ got' = got \o answer.rows /\ req' = [req EXCEPT !.start = Len(got')]
        /\ pc' = "start" /\ answer' = NoAnswer
        /\ dirs' = <<>> /\ cur' = 1 /\ rows' = <<>> /\ count' = 0
        /\ entry' = [path |-> Root, kind |-> "dir"]
    BY <1>3 DEF Collect
  <2>2. got' \in Seq(Path) /\ Len(got') \in Nat
    <3>1. answer.rows \in Seq(Path) /\ got \in Seq(Path)
      BY DEF SearchInv, SearchTypeOK, Answers
    <3>. QED
      BY <3>1, <2>1
  <2>3. RequestOK(req') /\ req'.api = req.api /\ req'.max = req.max /\ req'.sub = req.sub
    <3>1. RequestOK(req)
      BY DEF SearchInv, SearchTypeOK
    <3>. QED
      BY <2>1, <2>2, <3>1, RequestGoesOn
  <2>4. SearchTypeOK'
    BY <1>1, <2>1, <2>2, <2>3, AnswerFacts, OrderFacts DEF SearchInv, SearchTypeOK, Kinds
  <2>5. OnceInv' /\ EntryInv' /\ RowsInv' /\ CompleteInv'
    BY <2>1, <2>3, <1>3 DEF OnceInv, EntryInv, RowsInv, CompleteInv, Walking, Walked
  <2>6. TempInv'
    BY <1>1, <1>3, <2>1 DEF SearchInv, TempInv, TempsAreRemoved
  <2>. QED
    BY <1>2, <2>4, <2>5, <2>6 DEF SearchInv
<1>4. CASE ~(req.api = "COLLECT" /\ answer.ok /\ answer.rows # <<>>)
  <2>1. pc' = "done" /\ UNCHANGED <<got, req, answer, walkVars>>
    BY <1>4 DEF Collect
  <2>2. SearchTypeOK'
    BY <1>1, <2>1 DEF SearchInv, SearchTypeOK, walkVars
  <2>3. \A p : Passed(p)' <=> Passed(p)
    BY <2>1 DEF Passed, walkVars
  <2>4. OnceInv' /\ EntryInv'
    BY <2>1, <2>3 DEF SearchInv, OnceInv, EntryInv, Walking, walkVars
  <2>5. RowsInv'
    <3>1. \A p, k : Asked(p, k) => Asked(p, k)'
      BY <1>1, <2>1, AskedStays
    <3>. QED
      BY <3>1, <2>1 DEF SearchInv, RowsInv, walkVars
  <2>6. CompleteInv' /\ TempInv'
    BY <2>1 DEF SearchInv, CompleteInv, TempInv, TempsAreRemoved, Walking, Walked, walkVars
  <2>. QED
    BY <1>2, <2>2, <2>4, <2>5, <2>6 DEF SearchInv
<1>. QED
  BY <1>3, <1>4

--------------------------------------------------------------------------
(* The walk *)

\* readdir moves one stream, past one entry that is there.
LEMMA ReadStream ==
  ASSUME SearchInv, cur \in DOMAIN dirs, NEW i \in Ahead, \A m \in Ahead : i <= m,
         dirs' = [dirs EXCEPT ![cur].at = i], UNCHANGED fileVars
  PROVE  /\ dirs' \in Seq(Stream) /\ DOMAIN dirs' = DOMAIN dirs /\ Len(dirs') = Len(dirs)
         /\ \A j \in DOMAIN dirs : dirs'[j].path = dirs[j].path
         /\ Advance
         /\ \A p : Passed(p) => Passed(p)'
         /\ Passed(Order[i])'
         /\ \A q \in stayed \cap Names : Passed(q)' => Passed(q) \/ q = Order[i]
<1>0. dirs \in Seq(Stream) /\ DOMAIN dirs = 1 .. Len(dirs) /\ Len(dirs) \in Nat
      /\ \A j \in DOMAIN dirs : dirs[j].at \in Nat /\ dirs[j].path \in Path /\ dirs[j] \in Stream
  BY StreamFacts DEF SearchInv, SearchTypeOK
<1>1. /\ i \in DOMAIN Order /\ Order[i] \in Names /\ Parent[Order[i]] = dirs[cur].path
      /\ i \in Nat /\ i > dirs[cur].at /\ i \in 0 .. Len(Order)
  BY OrderFacts DEF Ahead
<1>2. dirs' = [dirs EXCEPT ![cur] = [path |-> dirs[cur].path, at |-> i]]
  <2>1. [dirs[cur] EXCEPT !.at = i] = [path |-> dirs[cur].path, at |-> i]
    BY <1>0 DEF Stream
  <2>. QED
    BY <2>1
<1>3. [path |-> dirs[cur].path, at |-> i] \in Stream
  BY <1>0, <1>1 DEF Stream
<1>4. /\ dirs' \in Seq(Stream) /\ DOMAIN dirs' = DOMAIN dirs /\ Len(dirs') = Len(dirs)
      /\ \A j \in DOMAIN dirs : j # cur => dirs'[j] = dirs[j]
      /\ dirs'[cur].path = dirs[cur].path /\ dirs'[cur].at = i
  <2>. DEFINE d == [path |-> dirs[cur].path, at |-> i]
  <2>1. dirs \in Seq(Stream) /\ cur \in DOMAIN dirs /\ d \in Stream /\ dirs' = [dirs EXCEPT ![cur] = d]
    BY <1>0, <1>2, <1>3
  <2>2. d.path = dirs[cur].path /\ d.at = i
    OBVIOUS
  <2>. HIDE DEF d
  <2>3. /\ dirs' \in Seq(Stream) /\ DOMAIN dirs' = DOMAIN dirs /\ Len(dirs') = Len(dirs)
        /\ dirs'[cur] = d /\ \A j \in DOMAIN dirs : j # cur => dirs'[j] = dirs[j]
    BY <2>1
  <2>. QED
    BY <2>2, <2>3
<1>5. \A j \in DOMAIN dirs : dirs'[j].path = dirs[j].path
  BY <1>4
<1>6. Advance
  BY <1>0, <1>1, <1>4, <1>5 DEF Advance
<1>7. \A p : Passed(p) => Passed(p)'
  BY <1>0, <1>4, <1>6, PassedStays
<1>8. Passed(Order[i])'
  BY <1>1, <1>4 DEF Passed
<1>9. ASSUME NEW q \in stayed \cap Names, Passed(q)', ~Passed(q) PROVE q = Order[i]
  <2>1. PICK n \in DOMAIN Order, j \in DOMAIN dirs :
               Order[n] = q /\ dirs'[j].path = Parent[q] /\ n <= dirs'[j].at
    BY <1>4, <1>9 DEF Passed
  <2>2. j = cur
    BY <1>4, <1>9, <2>1 DEF Passed
  <2>3. n \in Nat /\ n <= i /\ n > dirs[cur].at
    BY <1>0, <1>4, <1>9, <2>1, <2>2, OrderFacts DEF Passed
  <2>4. kind[q] # "none"
    BY DEF SearchInv, TreeInv
  <2>5. n \in Ahead
    BY <1>4, <2>1, <2>2, <2>3, <2>4, OrderFacts DEF Ahead
  <2>6. n = i
    BY <1>1, <2>3, <2>5
  <2>. QED
    BY <2>1, <2>6
<1>. QED
  BY <1>4, <1>5, <1>6, <1>7, <1>8, <1>9

\* A step of the walk: what is left to show when the files stay as they are.
LEMMA WalkStep ==
  ASSUME SearchInv, Walking, UNCHANGED <<fileVars, req, got, answer, temp>>,
         refused \subseteq refused', refused' \subseteq Path,
         dirs' \in Seq(Stream), cur' \in Nat \ {0}, entry' \in [path : Path, kind : Kinds],
         rows' \in Seq(Path), count' \in Nat,
         pc' \in {"read", "info", "opendir"} \/ WalkEnds,
         OnceInv', EntryInv', RowsInv', CompleteInv'
  PROVE  SearchInv'
<1>1. pc' \in {"read", "info", "opendir", "contents"} \/ (pc' = "zip" /\ req.api = "SCANDIR")
  BY DEF WalkEnds
<1>2. SearchTypeOK'
  BY <1>1 DEF SearchInv, SearchTypeOK, fileVars
<1>3. TreeInv'
  BY DEF SearchInv, TreeInv, fileVars
<1>4. temp = {"list"}
  BY DEF SearchInv, TempInv, Walking
<1>5. TempInv'
  BY <1>1, <1>4 DEF TempInv, TempsAreRemoved
<1>. QED
  BY <1>2, <1>3, <1>5 DEF SearchInv

\* What the cases of ReadEntry have in common.
ReadFacts(i) ==
  /\ i \in Ahead /\ \A m \in Ahead : i <= m
  /\ dirs' = [dirs EXCEPT ![cur].at = i]
  /\ pc = "read" /\ UNCHANGED <<fileVars, req, got, temp, answer, refused>>

\* The directories are read once, whatever comes of the entry; and a row is new
\* if it is the entry's.
LEMMA ReadOnce ==
  ASSUME SearchInv, NEW i, ReadFacts(i),
         rows' = rows \/ rows' = Append(rows, Order[i])
  PROVE  /\ OnceInv'
         /\ rows' \in Seq(Path)
         /\ ToSet(rows) \subseteq ToSet(rows')
         /\ rows' = Append(rows, Order[i]) => Order[i] \in ToSet(rows')
<1>0. cur \in DOMAIN dirs
  BY DEF ReadFacts, SearchInv, EntryInv, Walking
<1>1. /\ DOMAIN dirs' = DOMAIN dirs
      /\ \A j \in DOMAIN dirs : dirs'[j].path = dirs[j].path
      /\ \A p : Passed(p) => Passed(p)'
      /\ Passed(Order[i])'
  BY <1>0, ReadStream DEF ReadFacts
<1>2. Order[i] \in Path /\ Order[i] \notin ToSet(rows)
  BY <1>0, EntryIsNew, OrderFacts DEF ReadFacts, SearchInv
<1>3. rows \in Seq(Path)
  BY DEF SearchInv, SearchTypeOK
<1>4. /\ \A i1, j \in DOMAIN dirs' : dirs'[i1].path = dirs'[j].path => i1 = j
      /\ \A j \in DOMAIN dirs' : dirs'[j].path = Root \/ Passed(dirs[j].path)'
  BY <1>1 DEF SearchInv, OnceInv
<1>5. req' = req
  BY DEF ReadFacts
<1>6. CASE rows' = rows
  BY <1>1, <1>3, <1>4, <1>5, <1>6, <1>2 DEF SearchInv, OnceInv, ToSet
<1>7. CASE rows' = Append(rows, Order[i])
  <2>1. /\ rows' \in Seq(Path) /\ DOMAIN rows' = DOMAIN rows \cup {Len(rows) + 1}
        /\ rows'[Len(rows) + 1] = Order[i]
        /\ \A n \in DOMAIN rows : rows'[n] = rows[n]
    BY <1>2, <1>3, <1>7
  <2>2. \A m, n \in DOMAIN rows' : rows'[m] = rows'[n] => m = n
    BY <2>1, <1>2 DEF SearchInv, OnceInv, ToSet
  <2>3. \A n \in DOMAIN rows' : Passed(rows[n])' \/ (rows'[n] = Root /\ req'.api = "ONLY_DIR")
    BY <2>1, <1>1, <1>5 DEF SearchInv, OnceInv
  <2>4. OnceInv'
    BY <1>4, <2>2, <2>3 DEF OnceInv
  <2>5. ToSet(rows) \subseteq ToSet(rows') /\ Order[i] \in ToSet(rows')
    BY <2>1 DEF ToSet
  <2>. QED
    BY <2>1, <2>4, <2>5
<1>. QED
  BY <1>6, <1>7

\* Nothing is missed when the entry is settled.
LEMMA ReadMissesNone ==
  ASSUME SearchInv, NEW i, ReadFacts(i), req.api # "COLLECT",
         rows' = rows \/ rows' = Append(rows, Order[i]),
         Order[i] \in stayed => Settled(Order[i])',
         cur' = cur, ~LimitReached(count)
  PROVE  NoneMissed' /\ NoneLeft'
<1>0. cur \in DOMAIN dirs
  BY DEF ReadFacts, SearchInv, EntryInv, Walking
<1>1. /\ DOMAIN dirs' = DOMAIN dirs
      /\ \A j \in DOMAIN dirs : dirs'[j].path = dirs[j].path
      /\ \A p : Passed(p) => Passed(p)'
      /\ \A q \in stayed \cap Names : Passed(q)' => Passed(q) \/ q = Order[i]
  BY <1>0, ReadStream DEF ReadFacts
<1>2. ToSet(rows) \subseteq ToSet(rows')
  BY ReadOnce
<1>3. /\ req' = req /\ refused' = refused /\ kind' = kind /\ stayed' = stayed /\ was' = was
      /\ pc = "read"
  BY DEF ReadFacts, fileVars
<1>4. NoneMissed /\ NoneLeft
  BY <1>3 DEF SearchInv, CompleteInv, Walking
<1>5. DirPaths' = DirPaths
  BY <1>1 DEF DirPaths
<1>6. /\ \A k : Lists(k)' <=> Lists(k)
      /\ \A p, k : Passes(p, k)' <=> Passes(p, k)
  BY <1>3, AskedStays
<1>7. ASSUME NEW q, Settled(q) PROVE Settled(q)'
  BY <1>2, <1>3, <1>5, <1>6, <1>7 DEF Settled
<1>8. NoneMissed'
  BY <1>1, <1>3, <1>4, <1>7 DEF NoneMissed
<1>9. NoneLeft'
  BY <1>1, <1>3, <1>4 DEF NoneLeft
<1>. QED
  BY <1>8, <1>9

\* The root is still the first directory.
LEMMA RootStaysOpen ==
  ASSUME SearchInv, Walking, req.api # "COLLECT", req' = req, Advance,
         dirs' \in Seq(Stream), ToSet(rows) \subseteq ToSet(rows')
  PROVE  RootOpened'
<1>1. dirs \in Seq(Stream) /\ cur \in DOMAIN dirs
  BY DEF SearchInv, SearchTypeOK, EntryInv
<1>2. 1 \in DOMAIN dirs /\ dirs # <<>>
  BY <1>1
<1>3. dirs[1].path = Root /\ (req.api = "ONLY_DIR" => Root \in ToSet(rows))
  BY <1>2 DEF SearchInv, CompleteInv, RootOpened
<1>4. dirs' # <<>> /\ dirs'[1].path = Root
  BY <1>2, <1>3 DEF Advance
<1>. QED
  BY <1>3, <1>4 DEF RootOpened

\* The entry is new, and what is known of it.
LEMMA EntryFacts ==
  ASSUME SearchInv, NEW i, ReadFacts(i)
  PROVE  /\ cur \in DOMAIN dirs /\ DOMAIN dirs' = DOMAIN dirs /\ Len(dirs') = Len(dirs)
         /\ DOMAIN dirs = 1 .. Len(dirs) /\ Len(dirs) \in Nat
         /\ dirs' \in Seq(Stream) /\ Advance /\ DirPaths' = DirPaths
         /\ Order[i] \in Names /\ Order[i] \in Path /\ Order[i] \notin DirPaths
         /\ Order[i] \notin ToSet(rows) /\ Passed(Order[i])'
         /\ kind[Order[i]] \in {"file", "dir"} /\ <<Order[i], kind[Order[i]]>> \in was
<1>0. cur \in DOMAIN dirs
  BY DEF ReadFacts, SearchInv, EntryInv, Walking
<1>1. /\ dirs' \in Seq(Stream) /\ DOMAIN dirs' = DOMAIN dirs /\ Len(dirs') = Len(dirs) /\ Advance
      /\ \A j \in DOMAIN dirs : dirs'[j].path = dirs[j].path
      /\ Passed(Order[i])'
  BY <1>0, ReadStream DEF ReadFacts
<1>2. DirPaths' = DirPaths
  BY <1>1 DEF DirPaths
<1>3. /\ Order[i] \in Names /\ Order[i] \in Path /\ Order[i] \notin DirPaths
      /\ Order[i] \notin ToSet(rows) /\ kind[Order[i]] # "none"
  BY <1>0, EntryIsNew, OrderFacts DEF ReadFacts, SearchInv
<1>4. kind[Order[i]] \in {"file", "dir"} /\ <<Order[i], kind[Order[i]]>> \in was
  BY <1>3 DEF SearchInv, SearchTypeOK, TreeInv, Kinds
<1>5. DOMAIN dirs = 1 .. Len(dirs) /\ Len(dirs) \in Nat
  BY StreamFacts DEF SearchInv, SearchTypeOK
<1>. QED
  BY <1>0, <1>1, <1>2, <1>3, <1>4, <1>5

\* The case of an entry that is left out.
LEMMA SkipStep ==
  ASSUME SearchInv, NEW i, ReadFacts(i), Order[i] \notin stayed \/ ~Passes(Order[i], kind[Order[i]]),
         UNCHANGED <<pc, cur, entry, rows, count, total>>
  PROVE  SearchInv'
<1>1. OnceInv' /\ rows' \in Seq(Path) /\ Advance /\ dirs' \in Seq(Stream) /\ DOMAIN dirs' = DOMAIN dirs
      /\ cur \in DOMAIN dirs
  BY ReadOnce, EntryFacts
<1>2. UNCHANGED <<fileVars, req, got, temp, answer, refused>> /\ pc = "read" /\ kind' = kind /\ was' = was
      /\ req' = req
  BY DEF ReadFacts, fileVars
<1>3. EntryInv'
  BY <1>1, <1>2 DEF EntryInv
<1>4. /\ \A k : Lists(k)' <=> Lists(k)
      /\ \A p, k : Passes(p, k)' <=> Passes(p, k)
      /\ \A p, k : Asked(p, k) => Asked(p, k)'
  BY <1>2, AskedStays
<1>5. RowsInv'
  BY <1>4 DEF SearchInv, RowsInv
<1>6. Order[i] \in stayed => Settled(Order[i])'
  <2>. SUFFICES ASSUME Order[i] \in stayed PROVE Settled(Order[i])'
    OBVIOUS
  <2>1. ~Passes(Order[i], kind[Order[i]]) /\ kind[Order[i]] # "dir"
    BY DEF Passes
  <2>. QED
    BY <2>1, <1>2, <1>4 DEF Settled
<1>7. CompleteInv'
  <2>. SUFFICES ASSUME req.api # "COLLECT"
                PROVE  /\ req.api = "VIEWDIR" => count' = Len(rows')
                       /\ RootOpened'
                       /\ LimitReached(count)' \/ (NoneMissed' /\ NoneLeft')
    BY <1>2 DEF CompleteInv, Walked
  <2>1. RootOpened'
    BY <1>1, <1>2, RootStaysOpen DEF Walking
  <2>2. LimitReached(count)' <=> LimitReached(count)
    BY <1>2 DEF LimitReached
  <2>3. ~LimitReached(count) => NoneMissed' /\ NoneLeft'
    BY <1>6, ReadMissesNone
  <2>4. req.api = "VIEWDIR" => count' = Len(rows')
    BY DEF SearchInv, CompleteInv
  <2>. QED
    BY <2>1, <2>2, <2>3, <2>4
<1>8. /\ refused \subseteq refused' /\ refused' \subseteq Path
      /\ cur' \in Nat \ {0} /\ entry' \in [path : Path, kind : Kinds] /\ count' \in Nat
  BY <1>2 DEF SearchInv, SearchTypeOK
<1>. QED
  BY <1>1, <1>2, <1>3, <1>5, <1>7, <1>8, WalkStep DEF Walking

\* The case of a page.
LEMMA PageStep ==
  ASSUME SearchInv, NEW i, ReadFacts(i), Passes(Order[i], kind[Order[i]]), req.api = "COLLECT",
         entry' = [path |-> Order[i], kind |-> kind[Order[i]]],
         PageEntry(Order[i], kind[Order[i]])
  PROVE  SearchInv'
<1>1. /\ UNCHANGED <<cur, rows>> /\ count' = count + 1
      /\ pc' = "read" \/ WalkEnds \/ pc' = "info"
  BY DEF PageEntry
<1>2. /\ OnceInv' /\ rows' \in Seq(Path) /\ Advance /\ dirs' \in Seq(Stream) /\ DOMAIN dirs' = DOMAIN dirs
      /\ cur \in DOMAIN dirs /\ DirPaths' = DirPaths
      /\ Order[i] \in Names /\ Order[i] \in Path /\ Order[i] \notin DirPaths
      /\ Order[i] \notin ToSet(rows) /\ Passed(Order[i])'
      /\ kind[Order[i]] \in {"file", "dir"} /\ <<Order[i], kind[Order[i]]>> \in was
  BY <1>1, ReadOnce, EntryFacts
<1>3. UNCHANGED <<fileVars, req, got, temp, answer, refused>> /\ pc = "read" /\ kind' = kind /\ was' = was
      /\ req' = req
  BY DEF ReadFacts, fileVars
<1>4. \A p, k : Asked(p, k) => Asked(p, k)'
  BY <1>3, AskedStays
<1>5. Asked(Order[i], kind[Order[i]])
  BY <1>2 DEF Asked, Lists
<1>6. entry'.path = Order[i] /\ entry'.kind = kind[Order[i]] /\ pc' # "opendir"
  BY <1>1 DEF WalkEnds
<1>7. EntryInv'
  <2>1. Asked(entry.path, entry.kind)'
    BY <1>3, <1>4, <1>5, <1>6 DEF Asked, Lists, Passes
  <2>. QED
    BY <1>1, <1>2, <1>3, <1>6, <2>1 DEF EntryInv
<1>8. RowsInv'
  BY <1>1, <1>4 DEF SearchInv, RowsInv
<1>9. CompleteInv'
  BY <1>3 DEF CompleteInv
<1>10. /\ refused \subseteq refused' /\ refused' \subseteq Path
       /\ cur' \in Nat \ {0} /\ entry' \in [path : Path, kind : Kinds] /\ count' \in Nat
  BY <1>1, <1>2, <1>3 DEF SearchInv, SearchTypeOK, Kinds
<1>. QED
  BY <1>1, <1>2, <1>3, <1>7, <1>8, <1>9, <1>10, WalkStep DEF Walking

\* The case of a scan.
LEMMA ScanStep ==
  ASSUME SearchInv, NEW i, ReadFacts(i), Passes(Order[i], kind[Order[i]]), req.api = "SCANDIR",
         entry' = [path |-> Order[i], kind |-> kind[Order[i]]],
         ScanEntry(Order[i], kind[Order[i]])
  PROVE  SearchInv'
<1>. DEFINE p == Order[i]
            k == kind[p]
<1>1. /\ UNCHANGED <<cur, count>>
      /\ k = "file" => rows' = Append(rows, p) /\ pc' = "read"
      /\ k = "dir" => rows' = rows /\ pc' = "opendir"
  BY DEF ScanEntry
<1>2. cur \in DOMAIN dirs /\ p \in Names /\ p \in Path /\ p \notin DirPaths /\ Passed(p)'
      /\ DOMAIN dirs' = DOMAIN dirs /\ dirs' \in Seq(Stream) /\ Advance /\ DirPaths' = DirPaths
      /\ k \in {"file", "dir"} /\ <<p, k>> \in was
  BY EntryFacts
<1>3. OnceInv' /\ rows' \in Seq(Path) /\ ToSet(rows) \subseteq ToSet(rows')
      /\ (k = "file" => p \in ToSet(rows'))
  BY <1>1, <1>2, ReadOnce
<1>4. UNCHANGED <<fileVars, req, got, temp, answer, refused>> /\ pc = "read" /\ kind' = kind /\ was' = was
      /\ req' = req
  BY DEF ReadFacts, fileVars
<1>5. /\ \A c : Lists(c)' <=> Lists(c)
      /\ \A q, c : Passes(q, c)' <=> Passes(q, c)
      /\ \A q, c : Asked(q, c) => Asked(q, c)'
  BY <1>4, AskedStays
<1>6. entry'.path = p /\ entry'.kind = k /\ pc' \in {"read", "opendir"}
  BY <1>1, <1>2
<1>7. EntryInv'
  BY <1>1, <1>2, <1>4, <1>6 DEF EntryInv
<1>8. RowsInv'
  <2>1. Asked(p, k)
    BY <1>2 DEF Asked, Lists
  <2>2. CASE k = "dir"
    BY <1>1, <1>5, <2>2 DEF SearchInv, RowsInv
  <2>3. CASE k = "file"
    <3>1. rows \in Seq(Path)
      BY DEF SearchInv, SearchTypeOK
    <3>2. \A n \in DOMAIN rows' : (n \in DOMAIN rows /\ rows'[n] = rows[n]) \/ rows'[n] = p
      BY <1>1, <2>3, <3>1
    <3>3. \A n \in DOMAIN rows' : \E c \in {"file", "dir"} : Asked(rows'[n], c)
      BY <2>1, <2>3, <3>2 DEF SearchInv, RowsInv
    <3>4. \A q, c : Asked(q, c)' <=> Asked(q, c)
      BY <1>4 DEF Asked, Lists, Passes
    <3>. QED
      BY <3>3, <3>4 DEF RowsInv
  <2>. QED
    BY <1>2, <2>2, <2>3
<1>9. CompleteInv'
  <2>1. Settled(p)'
    BY <1>1, <1>2, <1>3, <1>4, <1>6 DEF Settled
  <2>2. ~LimitReached(count) /\ req.api # "VIEWDIR"
    BY DEF LimitReached, SearchInv, SearchTypeOK, RequestOK
  <2>3. NoneMissed' /\ NoneLeft'
    BY <1>1, <1>2, <2>1, <2>2, ReadMissesNone
  <2>4. RootOpened'
    BY <1>2, <1>3, <1>4, RootStaysOpen DEF Walking
  <2>5. ~Walked' /\ pc' # "answered"
    BY <1>6 DEF Walked
  <2>. QED
    BY <1>4, <2>2, <2>3, <2>4, <2>5 DEF CompleteInv
<1>10. /\ refused \subseteq refused' /\ refused' \subseteq Path
       /\ cur' \in Nat \ {0} /\ entry' \in [path : Path, kind : Kinds] /\ count' \in Nat
  BY <1>1, <1>2, <1>4 DEF SearchInv, SearchTypeOK, Kinds
<1>. QED
  BY <1>2, <1>3, <1>4, <1>6, <1>7, <1>8, <1>9, <1>10, WalkStep DEF Walking

\* The directory that is read next, or the end of the walk.
LEMMA NextFacts ==
  ASSUME NextDirectory, cur \in 1 .. Len(dirs), Len(dirs) \in Nat
  PROVE  /\ cur' = cur + 1 /\ pc' \in {"read", "contents", "zip"}
         /\ \/ pc' = "read" /\ cur' \in 1 .. Len(dirs)
            \/ WalkEnds /\ cur' > Len(dirs)
<1>1. cur' = cur + 1 /\ (IF cur < Len(dirs) THEN pc' = "read" ELSE WalkEnds)
  BY DEF NextDirectory
<1>2. WalkEnds => pc' \in {"contents", "zip"}
  BY DEF WalkEnds
<1>. QED
  BY <1>1, <1>2

\* The case of a listing.
LEMMA ListStep ==
  ASSUME SearchInv, NEW i, ReadFacts(i), Passes(Order[i], kind[Order[i]]),
         req.api \notin {"COLLECT", "SCANDIR"},
         entry' = [path |-> Order[i], kind |-> kind[Order[i]]],
         ListEntry(Order[i], kind[Order[i]])
  PROVE  SearchInv'
<1>. DEFINE p == Order[i]
            k == kind[p]
<1>1. /\ UNCHANGED <<rows, count>>
      /\ \/ Lists(k) /\ pc' = "info" /\ cur' = cur
         \/ ~Lists(k) /\ LimitReached(count) /\ NextDirectory
         \/ /\ ~Lists(k) /\ ~LimitReached(count) /\ cur' = cur
            /\ pc' = IF k = "dir" /\ req.sub THEN "opendir" ELSE "read"
  BY DEF ListEntry, Descend
<1>2. cur \in DOMAIN dirs /\ p \in Names /\ p \in Path /\ p \notin DirPaths /\ p \notin ToSet(rows)
      /\ DOMAIN dirs = 1 .. Len(dirs) /\ Len(dirs) \in Nat /\ Len(dirs') = Len(dirs)
      /\ DOMAIN dirs' = DOMAIN dirs /\ dirs' \in Seq(Stream) /\ Advance /\ DirPaths' = DirPaths
      /\ k \in {"file", "dir"} /\ <<p, k>> \in was /\ Passed(p)'
  BY EntryFacts
<1>3. OnceInv' /\ rows' \in Seq(Path)
  BY <1>1, ReadOnce
<1>4. UNCHANGED <<fileVars, req, got, temp, answer, refused>> /\ pc = "read" /\ kind' = kind /\ was' = was
      /\ req' = req
  BY DEF ReadFacts, fileVars
<1>5. /\ \A c : Lists(c)' <=> Lists(c)
      /\ \A q, c : Passes(q, c)' <=> Passes(q, c)
      /\ \A q, c : Asked(q, c) => Asked(q, c)'
  BY <1>4, AskedStays
<1>6. entry'.path = p /\ entry'.kind = k
  OBVIOUS
<1>7. /\ pc' \in {"read", "info", "opendir"} \/ WalkEnds
      /\ pc' \in {"read", "info", "opendir", "contents", "zip"}
      /\ pc' \in {"read", "info", "opendir"} => cur' \in DOMAIN dirs
      /\ pc' \in {"contents", "zip"} => cur' > Len(dirs)
      /\ pc' = "info" => Lists(k)
      /\ cur' \in Nat \ {0}
  <2>1. CASE cur' = cur /\ pc' \in {"read", "info", "opendir"} /\ (pc' = "info" => Lists(k))
    BY <2>1, <1>2
  <2>2. CASE NextDirectory
    <3>1. WalkEnds => pc' \in {"contents", "zip"}
      BY DEF WalkEnds
    <3>. QED
      BY <2>2, <3>1, <1>2, NextFacts
  <2>. QED
    BY <1>1, <2>1, <2>2
<1>8. EntryInv'
  <2>1. pc' = "info" => Asked(entry.path, entry.kind)'
    BY <1>2, <1>4, <1>6, <1>7 DEF Asked, Lists, Passes
  <2>. QED
    BY <1>1, <1>2, <1>4, <1>6, <1>7, <2>1 DEF EntryInv, Walking
<1>9. RowsInv'
  BY <1>1, <1>5 DEF SearchInv, RowsInv
<1>10. CompleteInv'
  <2>1. RootOpened'
    BY <1>1, <1>2, <1>4, RootStaysOpen DEF Walking
  <2>2. LimitReached(count)' <=> LimitReached(count)
    BY <1>1, <1>4 DEF LimitReached
  <2>3. ASSUME ~LimitReached(count) PROVE NoneMissed' /\ NoneLeft'
    <3>1. CASE Lists(k) /\ pc' = "info" /\ cur' = cur
      <4>1. Settled(p)'
        BY <3>1, <1>6 DEF Settled
      <4>. QED
        BY <3>1, <4>1, <2>3, <1>1, ReadMissesNone
    <3>2. CASE /\ ~Lists(k) /\ cur' = cur
               /\ pc' = IF k = "dir" /\ req.sub THEN "opendir" ELSE "read"
      <4>1. Settled(p)'
        BY <3>2, <1>4, <1>5, <1>6 DEF Settled
      <4>. QED
        BY <3>2, <4>1, <2>3, <1>1, ReadMissesNone
    <3>. QED
      BY <1>1, <2>3, <3>1, <3>2
  <2>4. req.api = "VIEWDIR" => count' = Len(rows')
    BY <1>1 DEF SearchInv, CompleteInv
  <2>5. Walked' => cur' > Len(dirs')
    BY <1>2, <1>7 DEF Walked
  <2>6. pc' # "answered"
    BY <1>7
  <2>. QED
    BY <1>4, <2>1, <2>2, <2>3, <2>4, <2>5, <2>6 DEF CompleteInv
<1>11. /\ refused \subseteq refused' /\ refused' \subseteq Path
       /\ entry' \in [path : Path, kind : Kinds] /\ count' \in Nat
  BY <1>1, <1>2, <1>4 DEF SearchInv, SearchTypeOK, Kinds
<1>. QED
  BY <1>2, <1>3, <1>4, <1>7, <1>8, <1>9, <1>10, <1>11, WalkStep DEF Walking

LEMMA ReadEntryStep == SearchInv /\ ReadEntry => SearchInv'
<1>. SUFFICES ASSUME SearchInv, ReadEntry PROVE SearchInv'
  OBVIOUS
<1>. DEFINE i == CHOOSE n \in Ahead : \A m \in Ahead : n <= m
            p == Order[i]
            k == kind[p]
<1>1. i \in Ahead /\ \A m \in Ahead : i <= m
  <2>1. Ahead # {}
    BY DEF ReadEntry
  <2>2. Ahead \subseteq Nat
    BY OrderFacts DEF Ahead
  <2>. QED
    BY <2>1, <2>2, LeastExists
<1>2. /\ pc = "read" /\ dirs' = [dirs EXCEPT ![cur].at = i]
      /\ \/ /\ p \notin stayed \/ ~Passes(p, k)
            /\ UNCHANGED <<pc, cur, entry, rows, count, total>>
         \/ /\ Passes(p, k)
            /\ entry' = [path |-> p, kind |-> k]
            /\ CASE req.api = "COLLECT" -> PageEntry(p, k)
                 [] req.api = "SCANDIR" -> ScanEntry(p, k)
                 [] OTHER               -> ListEntry(p, k)
  BY DEF ReadEntry
<1>3. UNCHANGED <<fileVars, req, got, temp, answer, refused>>
  BY DEF ReadEntry, Unchanged
<1>4. ReadFacts(i)
  BY <1>1, <1>2, <1>3 DEF ReadFacts
<1>. HIDE DEF i
<1>5. CASE /\ p \notin stayed \/ ~Passes(p, k)
           /\ UNCHANGED <<pc, cur, entry, rows, count, total>>
  BY <1>4, <1>5, SkipStep
<1>6. CASE /\ Passes(p, k) /\ entry' = [path |-> p, kind |-> k]
           /\ CASE req.api = "COLLECT" -> PageEntry(p, k)
                [] req.api = "SCANDIR" -> ScanEntry(p, k)
                [] OTHER               -> ListEntry(p, k)
  <2>1. CASE req.api = "COLLECT"
    BY <1>4, <1>6, <2>1, PageStep
  <2>2. CASE req.api = "SCANDIR"
    BY <1>4, <1>6, <2>2, ScanStep
  <2>3. CASE req.api \notin {"COLLECT", "SCANDIR"}
    BY <1>4, <1>6, <2>3, ListStep
  <2>. QED
    BY <2>1, <2>2, <2>3
<1>. QED
  BY <1>2, <1>5, <1>6

LEMMA EndOfDirectoryStep == SearchInv /\ EndOfDirectory => SearchInv'
<1>. SUFFICES ASSUME SearchInv, EndOfDirectory PROVE SearchInv'
  OBVIOUS
<1>1. /\ pc = "read" /\ Ahead = {} /\ NextDirectory
      /\ UNCHANGED <<fileVars, req, got, dirs, entry, rows, count, total, temp, answer, refused>>
      /\ kind' = kind /\ was' = was /\ stayed' = stayed
  BY DEF EndOfDirectory, Unchanged, fileVars
<1>2. dirs \in Seq(Stream) /\ DOMAIN dirs = 1 .. Len(dirs) /\ Len(dirs) \in Nat /\ cur \in DOMAIN dirs
      /\ \A j \in DOMAIN dirs : dirs[j].at \in Nat
  BY <1>1, StreamFacts DEF SearchInv, SearchTypeOK, EntryInv, Walking
<1>3. /\ cur' = cur + 1 /\ cur \in Nat /\ pc' \in {"read", "contents", "zip"}
      /\ \/ pc' = "read" /\ cur' \in 1 .. Len(dirs)
         \/ WalkEnds /\ cur' > Len(dirs)
  BY <1>1, <1>2, NextFacts
<1>4. \A p : Passed(p)' <=> Passed(p)
  BY <1>1 DEF Passed
<1>5. OnceInv' /\ EntryInv'
  <2>1. WalkEnds => pc' \in {"contents", "zip"}
    BY DEF WalkEnds
  <2>. QED
    BY <1>1, <1>2, <1>3, <1>4, <2>1 DEF SearchInv, OnceInv, EntryInv, Walking
<1>6. /\ \A c : Lists(c)' <=> Lists(c)
      /\ \A q, c : Passes(q, c)' <=> Passes(q, c)
      /\ \A q, c : Asked(q, c) => Asked(q, c)'
  BY <1>1, AskedStays
<1>7. RowsInv'
  BY <1>1, <1>6 DEF SearchInv, RowsInv
<1>8. CompleteInv'
  <2>. SUFFICES ASSUME req.api # "COLLECT"
                PROVE  /\ req.api = "VIEWDIR" => count' = Len(rows')
                       /\ RootOpened'
                       /\ LimitReached(count)' \/ (NoneMissed' /\ NoneLeft')
                       /\ Walked' => cur' > Len(dirs')
    BY <1>1, <1>3 DEF CompleteInv
  <2>0. /\ req.api = "VIEWDIR" => count = Len(rows)
        /\ RootOpened /\ (LimitReached(count) \/ (NoneMissed /\ NoneLeft))
    BY <1>1 DEF SearchInv, CompleteInv, Walking
  <2>1. RootOpened'
    <3>1. dirs # <<>>
      BY <1>2
    <3>. QED
      BY <1>1, <2>0, <3>1 DEF RootOpened
  <2>2. LimitReached(count)' <=> LimitReached(count)
    BY <1>1 DEF LimitReached
  <2>3. NoneMissed => NoneMissed'
    BY <1>1, <1>3, <1>4, <1>6 DEF NoneMissed, Settled, DirPaths
  <2>4. ASSUME NEW p \in stayed \cap Names, Parent[p] = dirs[cur].path PROVE Passed(p)
    <3>1. PICK n \in DOMAIN Order : Order[n] = p
      BY OrderFacts
    <3>2. kind[p] # "none"
      BY DEF SearchInv, TreeInv
    <3>3. n \in Nat /\ n \in 1 .. Len(Order) /\ ~(n > dirs[cur].at)
      BY <1>1, <2>4, <3>1, <3>2, OrderFacts DEF Ahead
    <3>4. n <= dirs[cur].at
      BY <1>2, <3>3
    <3>. QED
      BY <1>2, <2>4, <3>1, <3>4 DEF Passed
  <2>5. NoneLeft => NoneLeft'
    <3>. SUFFICES ASSUME NoneLeft, NEW j \in DOMAIN dirs, NEW p \in stayed \cap Names,
                         j < cur + 1, Parent[p] = dirs[j].path
                  PROVE  Passed(p)
      BY <1>1, <1>3, <1>4 DEF NoneLeft
    <3>1. j < cur \/ j = cur
      BY <1>2
    <3>. QED
      BY <3>1, <2>4 DEF NoneLeft
  <2>6. Walked' => cur' > Len(dirs')
    BY <1>1, <1>3 DEF Walked
  <2>. QED
    BY <1>1, <2>0, <2>1, <2>2, <2>3, <2>5, <2>6
<1>9. /\ refused \subseteq refused' /\ refused' \subseteq Path
      /\ dirs' \in Seq(Stream) /\ cur' \in Nat \ {0}
      /\ rows' \in Seq(Path) /\ entry' \in [path : Path, kind : Kinds] /\ count' \in Nat
  BY <1>1, <1>2, <1>3 DEF SearchInv, SearchTypeOK
<1>. QED
  BY <1>1, <1>3, <1>5, <1>7, <1>8, <1>9, WalkStep DEF Walking

LEMMA OpenDirectoryStep == SearchInv /\ OpenDirectory => SearchInv'
<1>. SUFFICES ASSUME SearchInv, OpenDirectory PROVE SearchInv'
  OBVIOUS
<1>. DEFINE p == entry.path
            d == [path |-> p, at |-> 0]
<1>1. /\ pc = "opendir" /\ pc' = "read"
      /\ UNCHANGED <<fileVars, req, got, cur, entry, rows, count, total, temp, answer>>
      /\ kind' = kind /\ was' = was /\ stayed' = stayed
      /\ \/ dirs' = Append(dirs, d) /\ refused' = refused
         \/ dirs' = dirs /\ refused' = refused \cup {p}
  BY DEF OpenDirectory, Unchanged, fileVars
<1>2. /\ dirs \in Seq(Stream) /\ DOMAIN dirs = 1 .. Len(dirs) /\ Len(dirs) \in Nat /\ cur \in DOMAIN dirs
      /\ \A j \in DOMAIN dirs : dirs[j].at \in Nat
      /\ p \in Names /\ p \in Path /\ Passed(p) /\ p \notin DirPaths /\ refused \subseteq Path
  BY <1>1, StreamFacts, OrderFacts DEF SearchInv, SearchTypeOK, EntryInv, Walking
<1>3. d \in Stream /\ d.path = p /\ d.at = 0
  BY <1>2, OrderFacts DEF Stream
<1>. HIDE DEF d
<1>4. /\ dirs' \in Seq(Stream) /\ DOMAIN dirs \subseteq DOMAIN dirs'
      /\ \A j \in DOMAIN dirs : dirs'[j] = dirs[j]
      /\ \A j \in DOMAIN dirs' : j \in DOMAIN dirs \/ (dirs'[j] = d /\ j = Len(dirs) + 1)
  <2>1. CASE dirs' = Append(dirs, d)
    <3>1. dirs \in Seq(Stream) /\ d \in Stream
      BY <1>2, <1>3
    <3>. QED
      BY <2>1, <3>1
  <2>2. CASE dirs' = dirs
    BY <2>2, <1>2
  <2>. QED
    BY <1>1, <2>1, <2>2
<1>5. Advance
  BY <1>2, <1>4 DEF Advance
<1>6. /\ DirPaths \subseteq DirPaths' /\ DirPaths' \subseteq DirPaths \cup {p}
      /\ p \in DirPaths' \cup refused' /\ refused \subseteq refused' /\ refused' \subseteq Path
  <2>1. CASE dirs' = Append(dirs, d) /\ refused' = refused
    <3>1. Len(dirs) + 1 \in DOMAIN dirs' /\ dirs'[Len(dirs) + 1] = d
      BY <1>2, <1>3, <2>1
    <3>. QED
      BY <1>2, <1>3, <1>4, <2>1, <3>1 DEF DirPaths
  <2>2. CASE dirs' = dirs /\ refused' = refused \cup {p}
    BY <1>2, <2>2 DEF DirPaths
  <2>. QED
    BY <1>1, <2>1, <2>2
<1>7. \A q : Passed(q)' <=> Passed(q)
  <2>1. \A q : Passed(q) => Passed(q)'
    BY <1>2, <1>4, <1>5, PassedStays
  <2>2. ASSUME NEW q, Passed(q)' PROVE Passed(q)
    <3>1. PICK n \in DOMAIN Order, j \in DOMAIN dirs' :
                 Order[n] = q /\ dirs'[j].path = Parent[q] /\ n <= dirs'[j].at
      BY <2>2 DEF Passed
    <3>2. n >= 1 /\ n \in Nat
      BY OrderFacts
    <3>3. j \in DOMAIN dirs /\ dirs'[j] = dirs[j]
      BY <1>3, <1>4, <3>1, <3>2
    <3>. QED
      BY <3>1, <3>3 DEF Passed
  <2>. QED
    BY <2>1, <2>2
<1>8. OnceInv'
  <2>1. \A i, j \in DOMAIN dirs' : dirs'[i].path = dirs'[j].path => i = j
    BY <1>2, <1>3, <1>4 DEF SearchInv, OnceInv, DirPaths
  <2>2. \A j \in DOMAIN dirs' : dirs'[j].path = Root \/ Passed(dirs[j].path)'
    BY <1>2, <1>3, <1>4, <1>7 DEF SearchInv, OnceInv
  <2>. QED
    BY <1>1, <1>7, <2>1, <2>2 DEF SearchInv, OnceInv
<1>9. EntryInv'
  BY <1>1, <1>2, <1>4 DEF EntryInv, Walking
<1>10. /\ \A c : Lists(c)' <=> Lists(c)
       /\ \A q, c : Passes(q, c)' <=> Passes(q, c)
       /\ \A q, c : Asked(q, c) => Asked(q, c)'
  BY <1>1, AskedStays
<1>11. RowsInv'
  BY <1>1, <1>10 DEF SearchInv, RowsInv
<1>12. CompleteInv'
  <2>. SUFFICES ASSUME req.api # "COLLECT"
                PROVE  /\ req.api = "VIEWDIR" => count' = Len(rows')
                       /\ RootOpened'
                       /\ LimitReached(count)' \/ (NoneMissed' /\ NoneLeft')
    BY <1>1 DEF CompleteInv, Walked
  <2>0. /\ req.api = "VIEWDIR" => count = Len(rows)
        /\ LimitReached(count) \/ (NoneMissed /\ NoneLeft)
    BY <1>1 DEF SearchInv, CompleteInv, Walking
  <2>1. RootOpened'
    BY <1>1, <1>4, <1>5, RootStaysOpen DEF Walking
  <2>2. LimitReached(count)' <=> LimitReached(count)
    BY <1>1 DEF LimitReached
  <2>3. ASSUME NEW q, Settled(q) PROVE Settled(q)'
    BY <1>1, <1>6, <1>10, <2>3 DEF Settled
  <2>4. NoneMissed => NoneMissed'
    BY <1>1, <1>7, <2>3 DEF NoneMissed
  <2>5. NoneLeft => NoneLeft'
    <3>. SUFFICES ASSUME NoneLeft, NEW j \in DOMAIN dirs', NEW q \in stayed \cap Names,
                         j < cur, Parent[q] = dirs'[j].path
                  PROVE  Passed(q)
      BY <1>1, <1>7 DEF NoneLeft
    <3>1. j \in DOMAIN dirs /\ dirs'[j] = dirs[j]
      BY <1>2, <1>4
    <3>. QED
      BY <3>1 DEF NoneLeft
  <2>. QED
    BY <1>1, <2>0, <2>1, <2>2, <2>4, <2>5
<1>13. /\ cur' \in Nat \ {0} /\ rows' \in Seq(Path)
       /\ entry' \in [path : Path, kind : Kinds] /\ count' \in Nat
  BY <1>1 DEF SearchInv, SearchTypeOK
<1>. QED
  BY <1>1, <1>4, <1>6, <1>8, <1>9, <1>11, <1>12, <1>13, WalkStep DEF Walking

\* The row of the entry is written.
LEMMA AppendRow ==
  ASSUME SearchInv, pc = "info", rows' = Append(rows, entry.path),
         UNCHANGED <<dirs, req, was>>
  PROVE  /\ OnceInv' /\ RowsInv' /\ rows' \in Seq(Path) /\ Len(rows') = Len(rows) + 1
         /\ Len(rows) \in Nat
         /\ ToSet(rows) \subseteq ToSet(rows') /\ entry.path \in ToSet(rows')
<1>. DEFINE p == entry.path
<1>1. /\ p \in Path /\ Passed(p) /\ p \notin ToSet(rows) /\ Asked(p, entry.kind)
      /\ rows \in Seq(Path)
  BY OrderFacts DEF SearchInv, SearchTypeOK, EntryInv
<1>. HIDE DEF p
<1>2. /\ rows' \in Seq(Path) /\ DOMAIN rows' = DOMAIN rows \cup {Len(rows) + 1}
      /\ rows'[Len(rows) + 1] = p /\ Len(rows') = Len(rows) + 1 /\ Len(rows) \in Nat
      /\ \A n \in DOMAIN rows : rows'[n] = rows[n]
  <2>1. rows' = Append(rows, p)
    BY DEF p
  <2>. QED
    BY <1>1, <2>1
<1>3. ToSet(rows) \subseteq ToSet(rows') /\ p \in ToSet(rows')
  BY <1>2 DEF ToSet
<1>4. \A q : Passed(q)' <=> Passed(q)
  BY DEF Passed
<1>5. OnceInv'
  <2>1. \A m, n \in DOMAIN rows' : rows'[m] = rows'[n] => m = n
    BY <1>1, <1>2 DEF SearchInv, OnceInv, ToSet
  <2>2. \A n \in DOMAIN rows' : Passed(rows[n])' \/ (rows'[n] = Root /\ req'.api = "ONLY_DIR")
    BY <1>1, <1>2, <1>4 DEF SearchInv, OnceInv
  <2>. QED
    BY <1>4, <2>1, <2>2 DEF SearchInv, OnceInv
<1>6. RowsInv'
  <2>1. \A q, c : Asked(q, c)' <=> Asked(q, c)
    BY DEF Asked, Lists, Passes
  <2>2. entry.kind \in {"file", "dir"}
    BY <1>1 DEF Asked
  <2>3. \A n \in DOMAIN rows' : \E c \in {"file", "dir"} : Asked(rows'[n], c)
    BY <1>1, <1>2, <2>2 DEF SearchInv, RowsInv
  <2>. QED
    BY <2>1, <2>3 DEF RowsInv
<1>. QED
  BY <1>2, <1>3, <1>5, <1>6 DEF p

LEMMA WriteRowStep == SearchInv /\ WriteRow => SearchInv'
<1>. SUFFICES ASSUME SearchInv, WriteRow PROVE SearchInv'
  OBVIOUS
<1>1. /\ pc = "info" /\ UNCHANGED <<fileVars, req, got, refused>> /\ refused \subseteq Path
      /\ kind' = kind /\ was' = was /\ stayed' = stayed /\ req.api # "SCANDIR"
  BY DEF WriteRow, Unchanged, fileVars, SearchInv, SearchTypeOK, EntryInv
<1>2. CASE kind[entry.path] = "none"
  <2>1. WalkFails
    BY <1>2 DEF WriteRow
  <2>2. UNCHANGED walkVars /\ pc' = "answered" /\ answer' = NoAnswer /\ temp' = {}
    BY <1>1, <2>1 DEF WalkFails, Reply
  <2>3. answer' \in Answers /\ ~answer'.ok /\ ~Walked'
    BY <2>2, AnswerFacts DEF Walked
  <2>4. TempInv'
    BY <2>2 DEF TempInv, TempsAreRemoved
  <2>. QED
    BY <1>1, <2>2, <2>3, <2>4, AnswerSteps
<1>3. CASE kind[entry.path] # "none"
  <2>. DEFINE p == entry.path
  <2>1. /\ rows' = Append(rows, p)
        /\ UNCHANGED <<dirs, entry, total, temp, answer>>
        /\ \/ req.api = "COLLECT" /\ pc' = "read" /\ cur' = cur /\ count' = count
           \/ /\ req.api # "COLLECT" /\ count' = count + 1
              /\ \/ LimitReached(count + 1) /\ NextDirectory
                 \/ /\ ~LimitReached(count + 1) /\ cur' = cur
                    /\ pc' = IF entry.kind = "dir" /\ req.sub THEN "opendir" ELSE "read"
    BY <1>3 DEF WriteRow, Descend
  <2>2. /\ dirs \in Seq(Stream) /\ DOMAIN dirs = 1 .. Len(dirs) /\ Len(dirs) \in Nat
        /\ cur \in DOMAIN dirs /\ cur \in Nat \ {0}
        /\ p \in Names /\ Passed(p) /\ p \notin DirPaths
        /\ p \in stayed => entry.kind = kind[p]
    BY <1>1, StreamFacts DEF SearchInv, SearchTypeOK, EntryInv, Walking
  <2>3. /\ OnceInv' /\ RowsInv' /\ rows' \in Seq(Path) /\ Len(rows') = Len(rows) + 1
        /\ Len(rows) \in Nat /\ ToSet(rows) \subseteq ToSet(rows') /\ p \in ToSet(rows')
    BY <1>1, <2>1, AppendRow
  <2>4. /\ pc' \in {"read", "opendir"} \/ WalkEnds
        /\ pc' \in {"read", "opendir", "contents", "zip"}
        /\ pc' \in {"read", "opendir"} => cur' \in DOMAIN dirs
        /\ pc' \in {"contents", "zip"} => cur' > Len(dirs)
        /\ cur' \in Nat \ {0}
    <3>1. CASE cur' = cur /\ pc' \in {"read", "opendir"}
      BY <3>1, <2>2
    <3>2. CASE NextDirectory
      <4>1. WalkEnds => pc' \in {"contents", "zip"}
        BY DEF WalkEnds
      <4>. QED
        BY <3>2, <4>1, <2>2, NextFacts
    <3>. QED
      BY <2>1, <3>1, <3>2
  <2>5. /\ DirPaths' = DirPaths
        /\ \A q : Passed(q)' <=> Passed(q)
    BY <2>1 DEF Passed, DirPaths
  <2>6. EntryInv'
    BY <1>1, <2>1, <2>2, <2>4, <2>5 DEF EntryInv, Walking
  <2>7. /\ \A c : Lists(c)' <=> Lists(c)
        /\ \A q, c : Passes(q, c)' <=> Passes(q, c)
    BY <1>1, AskedStays
  <2>8. CompleteInv'
    <3>. SUFFICES ASSUME req.api # "COLLECT"
                  PROVE  /\ req.api = "VIEWDIR" => count' = Len(rows')
                         /\ RootOpened'
                         /\ LimitReached(count)' \/ (NoneMissed' /\ NoneLeft')
                         /\ Walked' => cur' > Len(dirs')
      BY <1>1, <2>4 DEF CompleteInv
    <3>0. /\ req.api = "VIEWDIR" => count = Len(rows)
          /\ LimitReached(count) \/ (NoneMissed /\ NoneLeft)
      BY <1>1 DEF SearchInv, CompleteInv, Walking
    <3>1. RootOpened'
      <4>0. \A j \in DOMAIN dirs : dirs[j].at \in Nat
        BY <2>2, StreamFacts
      <4>1. Advance
        BY <2>1, <4>0 DEF Advance
      <4>. QED
        BY <1>1, <2>1, <2>2, <2>3, <4>1, RootStaysOpen DEF Walking
    <3>2. count' = count + 1 /\ count \in Nat
      BY <2>1 DEF SearchInv, SearchTypeOK
    <3>3. req.max \in Int
      BY DEF SearchInv, SearchTypeOK, RequestOK
    <3>4. LimitReached(count) \/ LimitReached(count + 1) => LimitReached(count)'
      BY <1>1, <3>2, <3>3 DEF LimitReached
    <3>5. ASSUME NoneMissed /\ NoneLeft, ~LimitReached(count + 1) PROVE NoneMissed' /\ NoneLeft'
      <4>1. cur' = cur /\ pc' = IF entry.kind = "dir" /\ req.sub THEN "opendir" ELSE "read"
        BY <2>1, <3>5
      <4>2. ASSUME NEW q \in stayed, Settled(q) PROVE Settled(q)'
        BY <1>1, <2>1, <2>2, <2>3, <2>5, <2>7, <4>1, <4>2 DEF Settled
      <4>3. NoneMissed'
        BY <1>1, <2>5, <3>5, <4>2 DEF NoneMissed
      <4>4. NoneLeft'
        BY <1>1, <2>1, <2>5, <3>5, <4>1 DEF NoneLeft
      <4>. QED
        BY <4>3, <4>4
    <3>6. Walked' => cur' > Len(dirs')
      BY <2>1, <2>4 DEF Walked
    <3>. QED
      BY <2>3, <3>0, <3>1, <3>2, <3>4, <3>5, <3>6
  <2>9. dirs' \in Seq(Stream) /\ entry' \in [path : Path, kind : Kinds] /\ count' \in Nat
    BY <2>1 DEF SearchInv, SearchTypeOK
  <2>. QED
    BY <1>1, <2>1, <2>3, <2>4, <2>6, <2>8, <2>9, WalkStep DEF Walking
<1>. QED
  BY <1>2, <1>3
--------------------------------------------------------------------------
(* The theorems *)

LEMMA SearchStep == SearchInv /\ [Next]_vars => SearchInv'
<1>. SUFFICES ASSUME SearchInv, [Next]_vars PROVE SearchInv'
  OBVIOUS
<1>1. CASE UNCHANGED vars
  <2>1. UNCHANGED <<fileVars, pc, req, walkVars, temp, answer, got, refused>>
    BY <1>1 DEF vars
  <2>2. UNCHANGED <<kind, stayed, was, pc, req, dirs, cur, entry, rows, count, temp, answer, got, refused>>
    BY <2>1 DEF fileVars, walkVars
  <2>3. SearchTypeOK' /\ TreeInv'
    BY <2>2 DEF SearchInv, SearchTypeOK, TreeInv
  <2>4. /\ \A p : Passed(p)' <=> Passed(p)
        /\ DirPaths' = DirPaths /\ (Walking' <=> Walking) /\ (Walked' <=> Walked)
    BY <2>2 DEF Passed, DirPaths, Walking, Walked
  <2>5. /\ \A k : Lists(k)' <=> Lists(k)
        /\ \A p, k : Passes(p, k)' <=> Passes(p, k)
        /\ \A p, k : Asked(p, k) => Asked(p, k)'
    BY <2>2, AskedStays
  <2>6. OnceInv' /\ EntryInv' /\ RowsInv'
    BY <2>2, <2>4, <2>5 DEF SearchInv, OnceInv, EntryInv, RowsInv
  <2>7. CompleteInv'
    <3>1. (RootOpened' <=> RootOpened) /\ (LimitReached(count)' <=> LimitReached(count))
      BY <2>2 DEF RootOpened, LimitReached
    <3>2. (NoneLeft => NoneLeft') /\ (NoneMissed => NoneMissed')
      BY <2>2, <2>4, <2>5 DEF NoneLeft, NoneMissed, Settled
    <3>. QED
      BY <2>2, <2>4, <3>1, <3>2 DEF SearchInv, CompleteInv
  <2>8. TempInv'
    BY <2>2 DEF SearchInv, TempInv, TempsAreRemoved
  <2>. QED
    BY <2>3, <2>6, <2>7, <2>8 DEF SearchInv
<1>. QED
  BY <1>1, MakeTempStep, OpenRootStep, ReadEntryStep, EndOfDirectoryStep, WriteRowStep,
     OpenDirectoryStep, ContentsStep, ZipSteps, CollectStep, OtherRequestStep DEF Next

\* The invariant of the searches holds in every reachable state.
THEOREM SearchInvariant == Spec => []SearchInv
  BY SearchInit, SearchStep, PTL DEF Spec

\* The temporary files of a search are gone when it has answered, except a zip
\* file after an answer that failed (API04, API26, API27, API41, API40).
THEOREM TempsAreGone == Spec => []TempsAreRemoved
<1>1. SearchInv => TempsAreRemoved
  BY DEF SearchInv, TempInv
<1>. QED
  BY <1>1, SearchInvariant, PTL

\* A row for each path: a sequence without duplicates has as many elements as
\* its length says.
LEMMA RowsAreCounted ==
  ASSUME NEW s \in Seq(Path), \A m, n \in DOMAIN s : s[m] = s[n] => m = n
  PROVE  Cardinality(ToSet(s)) = Len(s)
<1>1. Len(s) \in Nat /\ DOMAIN s = 1 .. Len(s)
  OBVIOUS
<1>2. s \in Bijection(1 .. Len(s), ToSet(s))
  <2>1. s \in [1 .. Len(s) -> ToSet(s)]
    BY <1>1 DEF ToSet
  <2>. QED
    BY <1>1, <2>1 DEF Bijection, Injection, Surjection, IsInjective, ToSet
<1>3. ExistsBijection(1 .. Len(s), ToSet(s))
  BY <1>2 DEF ExistsBijection
<1>. QED
  BY <1>1, <1>3, FS_CountingElements

\* When the walk has ended and no limit cut it short, what it was to come to is
\* settled: every set that is closed under the walk's steps holds it.
LEMMA ReachedIsSettled ==
  ASSUME SearchInv, Walked, req.api # "COLLECT", ~LimitReached(count),
         NEW p \in stayed \cap Reached, p # Root
  PROVE  Settled(p)
<1>. DEFINE S == {q \in Path : q = Root \/ (q \in Names /\ Parent[q] \in DirPaths)}
<1>1. RootOpened /\ NoneMissed /\ NoneLeft /\ cur > Len(dirs)
  BY DEF SearchInv, CompleteInv
<1>2. dirs \in Seq(Stream) /\ DOMAIN dirs = 1 .. Len(dirs) /\ Len(dirs) \in Nat /\ cur \in Nat
  BY StreamFacts DEF SearchInv, SearchTypeOK
<1>3. ASSUME NEW q \in stayed \cap Names, Parent[q] \in DirPaths PROVE Settled(q)
  <2>1. PICK j \in DOMAIN dirs : dirs[j].path = Parent[q]
    BY <1>3 DEF DirPaths
  <2>2. j < cur
    BY <1>1, <1>2
  <2>3. Passed(q)
    BY <1>1, <2>1, <2>2 DEF NoneLeft
  <2>. QED
    BY <1>1, <2>3 DEF NoneMissed
<1>4. ASSUME NEW q \in stayed \cap Names, Parent[q] \in S \cap (stayed \ refused),
             Parent[q] = Root \/ req.sub
      PROVE  Parent[q] \in DirPaths
  <2>1. kind[Parent[q]] = "dir"
    BY DEF SearchInv, TreeInv
  <2>2. CASE Parent[q] = Root
    <3>1. dirs # <<>> /\ dirs[1].path = Root
      BY <1>1, <1>4, <2>1, <2>2 DEF RootOpened
    <3>2. 1 \in DOMAIN dirs
      BY <1>2, <3>1
    <3>. QED
      BY <2>2, <3>1, <3>2 DEF DirPaths
  <2>3. CASE Parent[q] # Root
    <3>1. Parent[q] \in Names /\ Parent[Parent[q]] \in DirPaths
      BY <1>4, <2>3
    <3>2. Settled(Parent[q])
      BY <1>3, <1>4, <3>1
    <3>3. pc \notin {"info", "opendir"}
      BY DEF Walked
    <3>. QED
      BY <1>4, <2>1, <2>3, <3>2, <3>3 DEF Settled
  <2>. QED
    BY <2>2, <2>3
<1>5. ClosedUnderWalk(S)
  BY <1>4, OrderFacts DEF ClosedUnderWalk, Names
<1>6. p \in S
  BY <1>5 DEF Reached
<1>. QED
  BY <1>3, <1>6

\* A listing that is answered "true" has each path once, only what was there and
\* was asked for, and all that was there from the beginning to the end unless
\* the limit cut it short, whatever other requests do to the tree meanwhile
\* (get_directory_info, scan_directory_info and their handlers).
THEOREM ListingsAreExact == Spec => []ListingIsExact
<1>1. SearchInv => ListingIsExact
  <2>. SUFFICES ASSUME SearchInv, pc = "answered", answer.ok, answer.text, req.api # "COLLECT"
                PROVE  /\ Cardinality(ToSet(rows)) = Len(rows)
                       /\ \A p \in ToSet(rows) :
                            \E k \in {"file", "dir"} : <<p, k>> \in was /\ Lists(k) /\ Passes(p, k)
                       /\ \/ LimitReached(Len(rows))
                          \/ \A p \in stayed \cap {q \in Path : Lists(kind[q]) /\ Passes(q, kind[q])} :
                               /\ p \in Reached /\ (p = Root => req.api = "ONLY_DIR")
                               /\ req.api = "SCANDIR" => kind[p] = "file"
                               => p \in ToSet(rows)
    BY DEF ListingIsExact, SearchInv, CompleteInv
  <2>1. Cardinality(ToSet(rows)) = Len(rows)
    BY RowsAreCounted DEF SearchInv, SearchTypeOK, OnceInv
  <2>2. \A p \in ToSet(rows) :
          \E k \in {"file", "dir"} : <<p, k>> \in was /\ Lists(k) /\ Passes(p, k)
    BY DEF SearchInv, RowsInv, Asked, ToSet
  <2>3. Walked
    BY DEF Walked
  <2>4. LimitReached(count) => LimitReached(Len(rows))
    BY DEF LimitReached, SearchInv, SearchTypeOK, RequestOK, CompleteInv
  <2>5. ASSUME ~LimitReached(count), NEW p \in stayed, Lists(kind[p]), Passes(p, kind[p]),
               p \in Reached, p = Root => req.api = "ONLY_DIR", req.api = "SCANDIR" => kind[p] = "file"
        PROVE  p \in ToSet(rows)
    <3>1. CASE p = Root
      BY <2>3, <2>5, <3>1 DEF SearchInv, CompleteInv, RootOpened
    <3>2. CASE p # Root
      <4>1. Settled(p)
        BY <2>3, <2>5, <3>2, ReachedIsSettled
      <4>. QED
        BY <2>5, <4>1 DEF Settled
    <3>. QED
      BY <3>1, <3>2
  <2>. QED
    BY <2>1, <2>2, <2>4, <2>5
<1>. QED
  BY <1>1, SearchInvariant, PTL
--------------------------------------------------------------------------
(* The pages of a collecting client                                        *)

\* How many entries there are up to a place.
LEMMA NthFacts ==
  /\ \A i \in Nat : Nth(i) \in Nat
  /\ \A i, k \in Nat : i <= k => Nth(i) <= Nth(k)
  /\ \A k \in Nat, i \in Collected : k < i => Nth(k) < Nth(i)
  /\ Nth(0) = 0
<1>. DEFINE Upto(i) == {j \in Collected : j <= i}
<1>1. Collected \subseteq 1 .. Len(Order) /\ Len(Order) \in Nat
  BY OrderFacts DEF Collected
<1>2. IsFiniteSet(1 .. Len(Order))
  BY <1>1, FS_Interval
<1>0. \A j \in Collected : j \in Nat /\ 0 < j
  BY <1>1
<1>3. ASSUME NEW i \in Nat PROVE IsFiniteSet(Upto(i)) /\ Cardinality(Upto(i)) \in Nat
  <2>1. Upto(i) \subseteq 1 .. Len(Order)
    BY <1>1
  <2>. HIDE DEF Upto
  <2>. QED
    BY <1>2, <2>1, FS_Subset, FS_CardinalityType
<1>4. ASSUME NEW i \in Nat, NEW k \in Nat, i <= k PROVE Cardinality(Upto(i)) <= Cardinality(Upto(k))
  <2>1. Upto(i) \subseteq Upto(k)
    <3>1. \A j \in Collected : j <= i => j <= k
      BY <1>0, <1>4
    <3>. QED
      BY <3>1
  <2>2. IsFiniteSet(Upto(k))
    BY <1>3
  <2>. HIDE DEF Upto
  <2>. QED
    BY <2>1, <2>2, FS_Subset
<1>5. ASSUME NEW k \in Nat, NEW i \in Collected, k < i
      PROVE  Cardinality(Upto(k)) < Cardinality(Upto(i))
  <2>1. i \in Nat /\ Upto(k) \subseteq Upto(i) /\ i \in Upto(i) /\ i \notin Upto(k)
    <3>1. i \in Nat /\ i <= i /\ ~(i <= k)
      BY <1>0, <1>5
    <3>2. \A j \in Collected : j <= k => j <= i
      BY <1>0, <1>5, <3>1
    <3>. QED
      BY <3>1, <3>2
  <2>2. IsFiniteSet(Upto(i)) /\ Cardinality(Upto(k)) \in Nat /\ Cardinality(Upto(i)) \in Nat
    BY <1>3, <2>1
  <2>. HIDE DEF Upto
  <2>3. Cardinality(Upto(k)) <= Cardinality(Upto(i)) /\ Cardinality(Upto(k)) # Cardinality(Upto(i))
    BY <2>1, <2>2, FS_Subset
  <2>. QED
    BY <2>2, <2>3
<1>6. Cardinality(Upto(0)) = 0
  <2>1. Upto(0) = {}
    <3>1. \A j \in Collected : ~(j <= 0)
      BY <1>0
    <3>. QED
      BY <3>1
  <2>. QED
    BY <2>1, FS_EmptySet
<1>. QED
  BY <1>3, <1>4, <1>5, <1>6 DEF Nth

\* Between two places with no entry after the first, up to the second.
LEMMA NothingBetween ==
  ASSUME NEW a \in Nat, NEW b \in Nat, a <= b, \A j \in Collected : j <= a \/ j > b
  PROVE  Nth(a) = Nth(b)
<1>1. \A j \in Collected : j \in Nat
  BY OrderFacts DEF Collected
<1>2. {j \in Collected : j <= a} = {j \in Collected : j <= b}
  BY <1>1
<1>. QED
  BY <1>2 DEF Nth

\* The next entry.
LEMMA NextEntry ==
  ASSUME NEW a \in Nat, NEW i \in Collected, a < i, \A j \in Collected : j <= a \/ j >= i
  PROVE  Nth(i) = Nth(a) + 1
<1>. DEFINE A == {j \in Collected : j <= a}
            B == {j \in Collected : j <= i}
<1>1. Collected \subseteq 1 .. Len(Order) /\ Len(Order) \in Nat
  BY OrderFacts DEF Collected
<1>2. \A j \in Collected : j \in Nat
  BY <1>1
<1>3. B = A \cup {i} /\ i \notin A
  BY <1>2
<1>4. IsFiniteSet(A)
  <2>1. A \subseteq 1 .. Len(Order)
    BY <1>1
  <2>2. IsFiniteSet(1 .. Len(Order))
    BY <1>1, FS_Interval
  <2>. HIDE DEF A
  <2>. QED
    BY <2>1, <2>2, FS_Subset
<1>5. Cardinality(B) = Cardinality(A) + 1
  <2>. HIDE DEF A, B
  <2>. QED
    BY <1>3, <1>4, FS_AddElement
<1>. QED
  BY <1>5 DEF Nth

\* A list that has as many entries tiles as far.
LEMMA TilesAsFar ==
  ASSUME NEW s, NEW a \in Nat, NEW b \in Nat, Tiles(s, a), Nth(a) = Nth(b)
  PROVE  Tiles(s, b)
<1>1. ASSUME NEW i \in Collected, i <= b PROVE i <= a
  <2>1. i \in Nat
    BY OrderFacts DEF Collected
  <2>2. ~(a < i)
    <3>. SUFFICES ASSUME a < i PROVE FALSE
      OBVIOUS
    <3>1. Nth(a) < Nth(i)
      BY NthFacts
    <3>2. Nth(i) <= Nth(b)
      BY <1>1, <2>1, NthFacts
    <3>3. Nth(a) \in Nat /\ Nth(i) \in Nat
      BY <2>1, NthFacts
    <3>. QED
      BY <3>1, <3>2, <3>3
  <2>. QED
    BY <2>1, <2>2
<1>. QED
  BY <1>1 DEF Tiles

LEMMA TilesOneMore ==
  ASSUME NEW s \in Seq(Path), NEW a \in Nat, NEW i \in Collected, a < i,
         \A j \in Collected : j <= a \/ j >= i, Tiles(s, a)
  PROVE  Tiles(Append(s, Order[i]), i)
<1>. DEFINE t == Append(s, Order[i])
<1>1. i \in Nat /\ Order[i] \in Path /\ \A j \in Collected : j \in Nat
  BY OrderFacts DEF Collected
<1>2. Len(t) = Len(s) + 1 /\ t[Len(s) + 1] = Order[i] /\ \A n \in 1 .. Len(s) : t[n] = s[n]
  BY <1>1
<1>3. Nth(i) = Nth(a) + 1 /\ Len(s) = Nth(a) /\ Nth(a) \in Nat
  BY NextEntry, NthFacts DEF Tiles
<1>4. ASSUME NEW j \in Collected, j <= i PROVE t[Nth(j)] = Order[j]
  <2>1. CASE j = i
    BY <1>2, <1>3, <2>1
  <2>2. CASE j # i
    <3>1. j <= a
      BY <1>1, <1>4, <2>2
    <3>2. Nth(j) <= Nth(a) /\ s[Nth(j)] = Order[j]
      BY <1>1, <3>1, NthFacts DEF Tiles
    <3>3. Nth(0) < Nth(j) /\ Nth(0) = 0 /\ Nth(j) \in Nat
      <4>1. 0 < j
        BY OrderFacts DEF Collected
      <4>. QED
        BY <1>1, <4>1, NthFacts
    <3>. HIDE DEF t
    <3>. QED
      BY <1>2, <1>3, <3>2, <3>3
  <2>. QED
    BY <2>1, <2>2
<1>. HIDE DEF t
<1>5. Tiles(t, i)
  BY <1>2, <1>3, <1>4 DEF Tiles
<1>. QED
  BY <1>5 DEF t

Collecting == req.api = "COLLECT" /\ changes = 0

\* What there is to collect depends on the files and the filter only.
LEMMA CollectedStays ==
  ASSUME kind' = kind, req'.filter = req.filter
  PROVE  /\ Collected' = Collected
         /\ \A i : Nth(i)' = Nth(i)
         /\ \A s, n : Tiles(s, n)' <=> Tiles(s, n)
         /\ \A p : Huge(p)' <=> Huge(p)
<1>1. Collected' = Collected
  BY DEF Collected, Passes
<1>2. \A i : Nth(i)' = Nth(i)
  BY <1>1 DEF Nth
<1>3. \A s, n : Tiles(s, n)' <=> Tiles(s, n)
  BY <1>1, <1>2 DEF Tiles
<1>4. \A p : Huge(p)' <=> Huge(p)
  BY DEF Huge
<1>. QED
  BY <1>1, <1>2, <1>3, <1>4

LEMMA PagingStays ==
  ASSUME kind' = kind, req' = req, got' = got
  PROVE  /\ \A step, page, at, n, sum : Paging(step, page, at, n, sum) => Paging(step, page, at, n, sum)'
         /\ \A page : PageDone(page) => PageDone(page)'
<1>1. /\ Collected' = Collected
      /\ \A i : Nth(i)' = Nth(i)
      /\ \A s, n : Tiles(s, n)' <=> Tiles(s, n)
      /\ \A p : Huge(p)' <=> Huge(p)
  BY CollectedStays
<1>2. ASSUME NEW step, NEW page, NEW at, NEW n, NEW sum, Paging(step, page, at, n, sum)
      PROVE  Paging(step, page, at, n, sum)'
  BY <1>1, <1>2 DEF Paging
<1>3. ASSUME NEW page, PageDone(page) PROVE PageDone(page)'
  BY <1>1, <1>3 DEF PageDone
<1>. QED
  BY <1>2, <1>3

\* What a step of a search has to leave behind.
PageGoesOn ==
  /\ pc' \in {"start", "root"} => total' = 0
  /\ Walking' => /\ cur' = 1 /\ Len(dirs') = 1 /\ dirs'[1].path = Root /\ pc' # "opendir"
                 /\ Paging(pc', Page', dirs'[1].at, count', total')
  /\ Walked' => PageDone(rows') /\ \A k \in DOMAIN rows' : ~Huge(rows'[k])
  /\ pc' = "answered" /\ answer'.ok /\ answer'.text => answer'.rows = rows'
  /\ pc' = "answered" /\ answer'.rows # <<>> => answer'.text

LEMMA PageKept ==
  ASSUME PageInv, UNCHANGED <<fileVars, req, got>>, Collecting => PageGoesOn
  PROVE  PageInv'
<1>1. kind' = kind /\ stayed' = stayed /\ changes' = changes /\ req' = req /\ got' = got
  BY DEF fileVars
<1>2. /\ \A s, n : Tiles(s, n)' <=> Tiles(s, n)
      /\ \A p : Huge(p)' <=> Huge(p)
  BY <1>1, CollectedStays
<1>3. /\ \A step, page, at, n, sum : Paging(step, page, at, n, sum) => Paging(step, page, at, n, sum)'
      /\ \A page : PageDone(page) => PageDone(page)'
  BY <1>1, PagingStays
<1>. SUFFICES ASSUME Collecting PROVE PageInv'
  BY <1>1 DEF PageInv, Collecting
<1>4. PageGoesOn
  OBVIOUS
<1>5. /\ changes' \in Nat
      /\ \A p \in Path : kind'[p] # "none" => p \in stayed'
      /\ ~req'.sub /\ req'.start = Len(got')
      /\ \E place \in 0 .. Len(Order) : Tiles(got, place)
      /\ \A k \in DOMAIN got : ~Huge(got[k])
  BY <1>1 DEF PageInv, Collecting
<1>6. /\ \E place \in 0 .. Len(Order) : Tiles(got, place)'
      /\ \A k \in DOMAIN got' : ~Huge(got[k])'
  <2>1. PICK g : g = got
    OBVIOUS
  <2>2. /\ \E place \in 0 .. Len(Order) : Tiles(g, place)'
        /\ \A k \in DOMAIN g : ~Huge(g[k])'
    BY <1>2, <1>5, <2>1
  <2>. QED
    BY <1>1, <2>1, <2>2
<1>7. ASSUME Walking' PROVE Paging(pc, Page, dirs[1].at, count, total)'
  <2>1. PICK step, page, at, n, sum :
          step = pc' /\ page = Page' /\ at = dirs'[1].at /\ n = count' /\ sum = total'
    OBVIOUS
  <2>2. Paging(step, page, at, n, sum)'
    BY <1>3, <1>4, <1>7, <2>1 DEF PageGoesOn
  <2>. QED
    BY <2>1, <2>2
<1>8. ASSUME Walked' PROVE PageDone(rows)' /\ \A k \in DOMAIN rows' : ~Huge(rows[k])'
  <2>1. PICK page : page = rows'
    OBVIOUS
  <2>2. PageDone(page)' /\ \A k \in DOMAIN page : ~Huge(page[k])'
    BY <1>2, <1>3, <1>4, <1>8, <2>1 DEF PageGoesOn
  <2>. QED
    BY <2>1, <2>2
<1>. QED
  BY <1>4, <1>5, <1>6, <1>7, <1>8 DEF PageInv, PageGoesOn

\* Where the stream of a page is, and what readdir has next.
LEMMA PagePlace ==
  ASSUME SearchInv, PageInv, Collecting, pc = "read", NEW at, at = dirs[1].at
  PROVE  /\ cur = 1 /\ 1 \in DOMAIN dirs /\ at \in 0 .. Len(Order)
         /\ \A j \in Collected : j <= at \/ j \in Ahead
         /\ \A i \in Ahead : /\ i \in DOMAIN Order /\ i \in Nat /\ at < i /\ Order[i] \in Names
                             /\ Order[i] \in stayed
                             /\ i \in Collected <=> Passes(Order[i], kind[Order[i]])
<1>1. cur = 1 /\ Len(dirs) = 1 /\ dirs[1].path = Root
  BY DEF PageInv, Collecting, Walking
<1>2. dirs \in Seq(Stream)
  BY DEF SearchInv, SearchTypeOK
<1>3. 1 \in DOMAIN dirs /\ at \in 0 .. Len(Order)
  <2>1. 1 \in DOMAIN dirs
    BY <1>1, <1>2
  <2>. QED
    BY <1>2, <2>1, StreamFacts, OrderFacts
<1>4. \A j \in Collected : j \in DOMAIN Order /\ Parent[Order[j]] = Root /\ kind[Order[j]] # "none"
  BY DEF Collected
<1>5. \A j \in Collected : j <= at \/ j \in Ahead
  BY <1>1, <1>3, <1>4, OrderFacts DEF Ahead
<1>6. ASSUME NEW i \in Ahead
      PROVE  /\ i \in DOMAIN Order /\ i \in Nat /\ at < i /\ Order[i] \in Names
             /\ Order[i] \in stayed
             /\ i \in Collected <=> Passes(Order[i], kind[Order[i]])
  <2>1. i \in DOMAIN Order /\ i > at /\ Parent[Order[i]] = Root /\ kind[Order[i]] # "none"
    BY <1>1, <1>6, OrderFacts DEF Ahead
  <2>2. Order[i] \in Names /\ Order[i] \in Path /\ i \in Nat /\ at < i
    BY <1>3, <2>1, OrderFacts
  <2>3. Order[i] \in stayed
    BY <2>1, <2>2 DEF PageInv, Collecting
  <2>4. i \in Collected <=> Passes(Order[i], kind[Order[i]])
    BY <2>1 DEF Collected
  <2>. QED
    BY <2>1, <2>2, <2>3, <2>4
<1>. QED
  BY <1>1, <1>3, <1>5, <1>6

LEMMA PageInit == Init => PageInv
<1>. SUFFICES ASSUME Init, req.api = "COLLECT" PROVE PageInv
  BY DEF Init, PageInv
<1>1. ~req.sub /\ req.start = 0
  <2>1. req \in CollectPage
    <3>1. \A r \in ViewDir : r.api = "VIEWDIR"
      BY DEF ViewDir
    <3>2. \A r \in OnlyDir : r.api = "ONLY_DIR"
      BY DEF OnlyDir
    <3>3. \A r \in OnlyFile : r.api = "ONLY_FILE"
      BY DEF OnlyFile
    <3>4. \A r \in ScanDir : r.api = "SCANDIR"
      BY DEF ScanDir
    <3>. QED
      BY <3>1, <3>2, <3>3, <3>4 DEF Init, Request
  <2>. QED
    BY <2>1 DEF CollectPage
<1>2. Tiles(<<>>, 0)
  <2>1. \A i \in Collected : ~(i <= 0)
    BY OrderFacts DEF Collected
  <2>. QED
    BY <2>1, NthFacts DEF Tiles
<1>3. 0 \in 0 .. Len(Order)
  BY OrderFacts
<1>4. changes \in Nat /\ ~Walking /\ ~Walked /\ got = <<>> /\ total = 0
  BY DEF Init, Walking, Walked
<1>5. \A p \in Path : kind[p] # "none" => p \in stayed
  BY DEF Init
<1>6. \A k \in DOMAIN got : ~Huge(got[k])
  BY <1>4
<1>7. \E place \in 0 .. Len(Order) : Tiles(got, place)
  BY <1>2, <1>3, <1>4
<1>8. pc = "start"
  BY DEF Init
<1>. QED
  BY <1>1, <1>4, <1>5, <1>6, <1>7, <1>8 DEF PageInv

\* An answer that failed.
LEMMA PageFails ==
  ASSUME pc' = "answered", answer' = NoAnswer
  PROVE  PageGoesOn
<1>1. NoAnswer.rows = <<>>
  BY DEF NoAnswer
<1>. QED
  BY <1>1, AnswerFacts DEF PageGoesOn, Walking, Walked

LEMMA PageMakeTemp == SearchInv /\ PageInv /\ MakeTemp => PageInv'
<1>. SUFFICES ASSUME SearchInv, PageInv, MakeTemp PROVE PageInv'
  OBVIOUS
<1>1. UNCHANGED <<fileVars, req, got>> /\ total' = total /\ pc = "start"
  BY DEF MakeTemp, Unchanged, walkVars
<1>2. pc' = "root" \/ (pc' = "answered" /\ answer' = NoAnswer)
  BY DEF MakeTemp, Reply
<1>3. Collecting => PageGoesOn
  BY <1>1, <1>2, PageFails DEF PageInv, PageGoesOn, Collecting, Walking, Walked
<1>. QED
  BY <1>1, <1>3, PageKept

LEMMA PageOpenRoot == SearchInv /\ PageInv /\ OpenRoot => PageInv'
<1>. SUFFICES ASSUME SearchInv, PageInv, OpenRoot PROVE PageInv'
  OBVIOUS
<1>1. UNCHANGED <<fileVars, req, got>> /\ pc = "root"
  BY DEF OpenRoot, Unchanged
<1>2. ASSUME Collecting PROVE PageGoesOn
  <2>1. CASE WalkFails
    BY <1>2, <2>1, PageFails DEF WalkFails, Reply, Collecting
  <2>2. CASE /\ pc' = "read" /\ dirs' = <<[path |-> Root, at |-> 0]>>
             /\ rows' = <<>> /\ UNCHANGED <<cur, count, total>>
    <3>1. cur = 1 /\ count = 0 /\ total = 0 /\ req.start = Len(got)
      BY <1>1, <1>2 DEF SearchInv, SearchTypeOK, PageInv, Collecting
    <3>2. Len(dirs') = 1 /\ dirs'[1].path = Root /\ dirs'[1].at = 0
      BY <2>2
    <3>3. Page' = <<>>
      BY <2>2 DEF Page
    <3>4. got \in Seq(Path) /\ Len(got) \in Nat /\ got \o <<>> = got
      BY ConcatEmptySeq DEF SearchInv, SearchTypeOK
    <3>5. 0 >= req.start => Tiles(got \o <<>>, 0)
      <4>1. PICK place \in 0 .. Len(Order) : Tiles(got, place)
        BY <1>2 DEF PageInv, Collecting
      <4>2. 0 >= req.start => Nth(place) = Nth(0)
        BY <3>1, <3>4, <4>1, NthFacts DEF Tiles
      <4>. QED
        BY <3>4, <4>1, <4>2, TilesAsFar, OrderFacts
    <3>6. Paging("read", <<>>, 0, 0, 0)
      BY <3>5, NthFacts DEF Paging
    <3>7. Paging(pc', Page', dirs'[1].at, count', total')
      BY <2>2, <3>1, <3>2, <3>3, <3>6
    <3>. QED
      BY <2>2, <3>1, <3>2, <3>7 DEF PageGoesOn, Walked
  <2>. QED
    BY <1>2, <2>1, <2>2 DEF OpenRoot, Collecting
<1>. QED
  BY <1>1, <1>2, PageKept

\* readdir goes from one place to the next.
Onward(at, i) ==
  /\ at \in Nat /\ i \in Nat /\ at < i /\ i \in 0 .. Len(Order)
  /\ \A j \in Collected : j <= at \/ j >= i
  /\ cur = 1 /\ Len(dirs') = 1 /\ dirs'[1].path = Root /\ dirs'[1].at = i
  /\ Order[i] \in Path /\ Order[i] \in stayed
  /\ i \in Collected <=> Passes(Order[i], kind[Order[i]])
  /\ Paging("read", rows, at, count, total)

LEMMA PageStream ==
  ASSUME SearchInv, PageInv, Collecting, pc = "read", NEW i \in Ahead, \A m \in Ahead : i <= m,
         dirs' = [dirs EXCEPT ![cur].at = i], UNCHANGED fileVars
  PROVE  \E at : Onward(at, i)
<1>1. PICK at : at = dirs[1].at
  OBVIOUS
<1>2. /\ cur = 1 /\ 1 \in DOMAIN dirs /\ at \in 0 .. Len(Order)
      /\ \A j \in Collected : j <= at \/ j \in Ahead
      /\ i \in DOMAIN Order /\ i \in Nat /\ at < i /\ Order[i] \in Names
      /\ Order[i] \in stayed
      /\ i \in Collected <=> Passes(Order[i], kind[Order[i]])
  BY <1>1, PagePlace
<1>3. Len(dirs) = 1 /\ dirs[1].path = Root /\ Paging("read", rows, at, count, total)
  BY <1>1 DEF PageInv, Collecting, Walking, Page
<1>4. Len(dirs') = 1 /\ dirs'[1].path = Root
  BY <1>2, <1>3, ReadStream
<1>5. dirs'[1].at = i
  <2>1. dirs \in Seq(Stream)
    BY DEF SearchInv, SearchTypeOK
  <2>2. dirs[1] \in Stream
    BY <1>2, <2>1
  <2>. QED
    BY <1>2, <2>1, <2>2 DEF Stream
<1>6. \A j \in Collected : j <= at \/ j >= i
  <2>1. \A j \in Ahead : j \in Nat
    BY OrderFacts DEF Ahead
  <2>. QED
    BY <1>2, <2>1
<1>7. at \in Nat /\ i \in 0 .. Len(Order) /\ Order[i] \in Path
  BY <1>2, OrderFacts
<1>. QED
  BY <1>2, <1>3, <1>4, <1>5, <1>6, <1>7 DEF Onward

\* An entry that does not pass the filter.
LEMMA PageSkips ==
  ASSUME SearchInv, PageInv, Collecting, pc = "read", NEW at, NEW i, Onward(at, i),
         ~Passes(Order[i], kind[Order[i]]), UNCHANGED <<pc, cur, entry, rows, count, total>>
  PROVE  PageGoesOn
<1>1. at \in Nat /\ i \in Nat /\ at < i /\ Paging("read", rows, at, count, total)
  BY DEF Onward
<1>2. Nth(at) = Nth(i)
  <2>1. \A j \in Collected : j <= at \/ j > i
    <3>1. \A j \in Collected : j \in Nat /\ j # i /\ (j <= at \/ j >= i)
      BY OrderFacts DEF Onward, Collected
    <3>. QED
      BY <1>1, <3>1
  <2>2. at <= i
    BY <1>1
  <2>. QED
    BY <1>1, <2>1, <2>2, NothingBetween
<1>3. Paging("read", rows, i, count, total)
  <2>1. \A s : Tiles(s, at) => Tiles(s, i)
    BY <1>1, <1>2, TilesAsFar
  <2>. QED
    BY <1>1, <1>2, <2>1 DEF Paging
<1>4. Page' = rows /\ pc' = "read"
  BY DEF Page
<1>. QED
  BY <1>3, <1>4 DEF PageGoesOn, Walked, Onward

\* A row of an earlier page.
LEMMA PageCounts ==
  ASSUME SearchInv, PageInv, Collecting, pc = "read", NEW at, NEW i, Onward(at, i),
         i \in Collected, count < req.start, count' = count + 1, pc' = "read",
         UNCHANGED <<cur, rows, total>>
  PROVE  PageGoesOn
<1>1. at \in Nat /\ i \in Nat /\ at < i /\ Paging("read", rows, at, count, total)
      /\ \A j \in Collected : j <= at \/ j >= i
  BY DEF Onward
<1>2. count = Nth(at) /\ rows = <<>> /\ total = 0 /\ Nth(at) \in Nat
  BY <1>1, NthFacts DEF Paging
<1>3. Nth(i) = Nth(at) + 1
  BY <1>1, NextEntry
<1>4. got \in Seq(Path) /\ Len(got) \in Nat /\ got \o <<>> = got /\ req.start = Len(got)
  BY ConcatEmptySeq DEF SearchInv, SearchTypeOK, PageInv, Collecting
<1>5. count' >= req.start => Tiles(got \o <<>>, i)
  <2>1. PICK place \in 0 .. Len(Order) : Tiles(got, place)
    BY DEF PageInv, Collecting
  <2>2. place \in Nat /\ Nth(place) = Len(got)
    BY <2>1, OrderFacts DEF Tiles
  <2>3. count' >= req.start => Nth(place) = Nth(i)
    BY <1>2, <1>3, <1>4, <2>2
  <2>. QED
    BY <1>1, <1>4, <2>1, <2>2, <2>3, TilesAsFar
<1>6. Paging("read", <<>>, i, count', 0)
  BY <1>2, <1>3, <1>5 DEF Paging
<1>7. Page' = <<>>
  BY <1>2 DEF Page
<1>8. Paging(pc', Page', dirs'[1].at, count', total')
  BY <1>2, <1>6, <1>7 DEF Onward
<1>. QED
  BY <1>8 DEF PageGoesOn, Walked, Onward

\* The row that is written comes after the ones before it.
LEMMA AppendToAll ==
  ASSUME NEW s \in Seq(Path), NEW t \in Seq(Path), NEW p \in Path
  PROVE  s \o Append(t, p) = Append(s \o t, p)
<1>1. Append(t, p) = t \o <<p>> /\ Append(s \o t, p) = (s \o t) \o <<p>> /\ <<p>> \in Seq(Path)
  OBVIOUS
<1>. QED
  BY <1>1, ConcatAssociative

\* A file that would make the page too large ends it.
LEMMA PageEnds ==
  ASSUME SearchInv, PageInv, Collecting, pc = "read", NEW at, NEW i, Onward(at, i),
         i \in Collected, ~(count < req.start), kind[Order[i]] = "file",
         total + Size[Order[i]] > MAX_FILES_SIZE, WalkEnds, UNCHANGED <<cur, rows>>
  PROVE  PageGoesOn
<1>1. at \in Nat /\ i \in Nat /\ at < i /\ Paging("read", rows, at, count, total)
      /\ \A j \in Collected : j <= at \/ j >= i
  BY DEF Onward
<1>2. got \in Seq(Path) /\ Len(got) \in Nat /\ got \o <<>> = got /\ req.start = Len(got)
  BY ConcatEmptySeq DEF SearchInv, SearchTypeOK, PageInv, Collecting
<1>3. Tiles(got \o rows, at) /\ \A k \in DOMAIN rows : ~Huge(rows[k])
  <2>1. count \in Nat
    BY DEF SearchInv, SearchTypeOK
  <2>. QED
    BY <1>1, <1>2, <2>1 DEF Paging
<1>4. at \in 0 .. Len(Order)
  BY <1>1, OrderFacts DEF Onward
<1>5. ASSUME rows = <<>> PROVE Huge(Order[i])
  <2>1. total = 0
    BY <1>1, <1>2, <1>5 DEF Paging, SearchInv, SearchTypeOK
  <2>2. Size[Order[i]] \in Nat
    BY SearchAssumption, OrderFacts DEF Collected, Names
  <2>. QED
    BY <2>1, <2>2 DEF Huge
<1>6. ASSUME rows = <<>>, NEW n \in Collected
      PROVE  Nth(n) <= Len(got) <=> \A j \in Collected : j <= n => ~Huge(Order[j])
  <2>1. Tiles(got, at) /\ Len(got) = Nth(at) /\ n \in Nat /\ Nth(n) \in Nat
    BY <1>2, <1>3, <1>6, NthFacts, OrderFacts DEF Tiles, Collected
  <2>2. CASE n <= at
    <3>1. Nth(n) <= Nth(at)
      BY <1>1, <2>1, <2>2, NthFacts
    <3>2. ASSUME NEW j \in Collected, j <= n PROVE ~Huge(Order[j])
      <4>1. j \in Nat /\ j <= at /\ 0 < j
        BY <1>1, <2>1, <2>2, <3>2, OrderFacts DEF Collected
      <4>2. got[Nth(j)] = Order[j]
        BY <2>1, <4>1 DEF Tiles
      <4>3. Nth(j) <= Nth(at) /\ Nth(j) \in Nat /\ Nth(0) < Nth(j) /\ Nth(0) = 0
        BY <1>1, <4>1, NthFacts
      <4>4. Nth(j) \in DOMAIN got
        BY <1>2, <2>1, <4>3
      <4>. QED
        BY <4>2, <4>4 DEF PageInv, Collecting
    <3>. QED
      BY <2>1, <3>1, <3>2
  <2>3. CASE ~(n <= at)
    <3>1. at < n /\ i <= n
      BY <1>1, <2>1, <2>3
    <3>2. Nth(at) < Nth(n)
      BY <1>1, <3>1, NthFacts
    <3>3. ~(Nth(n) <= Len(got))
      BY <2>1, <3>2
    <3>. QED
      BY <1>5, <1>6, <3>1, <3>3
  <2>. QED
    BY <2>2, <2>3
<1>7. PageDone(rows)
  BY <1>3, <1>4, <1>6 DEF PageDone
<1>8. pc' = "contents"
  BY DEF WalkEnds, Collecting
<1>. QED
  BY <1>3, <1>7, <1>8 DEF PageGoesOn, Walking

\* The row is taken into the page.
LEMMA PageTakes ==
  ASSUME SearchInv, PageInv, Collecting, pc = "read", NEW at, NEW i, Onward(at, i),
         i \in Collected, ~(count < req.start), count' = count + 1,
         ~(kind[Order[i]] = "file" /\ total + Size[Order[i]] > MAX_FILES_SIZE),
         total' = IF kind[Order[i]] = "file" THEN total + Size[Order[i]] ELSE total,
         pc' = "info", entry'.path = Order[i], UNCHANGED <<cur, rows>>
  PROVE  PageGoesOn
<1>1. at \in Nat /\ i \in Nat /\ at < i /\ Paging("read", rows, at, count, total)
      /\ \A j \in Collected : j <= at \/ j >= i
  BY DEF Onward
<1>2. got \in Seq(Path) /\ rows \in Seq(Path) /\ Len(got) \in Nat /\ req.start = Len(got)
      /\ count \in Nat /\ Order[i] \in Path
  BY DEF SearchInv, SearchTypeOK, PageInv, Collecting, Onward
<1>3. Tiles(got \o rows, at) /\ (\A k \in DOMAIN rows : ~Huge(rows[k])) /\ total \in Nat
      /\ count = Nth(at)
  BY <1>1, <1>2 DEF Paging
<1>4. PICK page : page = Append(rows, Order[i])
  OBVIOUS
<1>5. Tiles(got \o page, i)
  <2>1. got \o page = Append(got \o rows, Order[i])
    BY <1>2, <1>4, AppendToAll
  <2>2. got \o rows \in Seq(Path)
    BY <1>2, ConcatProperties
  <2>. QED
    BY <1>1, <1>3, <2>1, <2>2, TilesOneMore
<1>6. Size[Order[i]] \in Nat /\ MAX_FILES_SIZE \in Nat
  BY SearchAssumption, OrderFacts DEF Collected, Names
<1>7. total' \in Nat /\ ~Huge(Order[i])
  BY <1>3, <1>6 DEF Huge
<1>8. \A k \in DOMAIN page : ~Huge(page[k])
  <2>1. \A k \in DOMAIN page : (k \in DOMAIN rows /\ page[k] = rows[k]) \/ page[k] = Order[i]
    BY <1>2, <1>4
  <2>. QED
    BY <1>3, <1>7, <2>1
<1>9. count' = Nth(i)
  BY <1>1, <1>3, NextEntry
<1>10. Paging("info", page, i, count', total')
  <2>1. page # <<>>
    BY <1>2, <1>4
  <2>2. ~(count' < req.start)
    BY <1>2
  <2>. QED
    BY <1>5, <1>7, <1>8, <1>9, <2>1, <2>2 DEF Paging
<1>11. Page' = page
  BY <1>4 DEF Page
<1>. QED
  BY <1>10, <1>11 DEF PageGoesOn, Walked, Onward

LEMMA PageReadEntry == SearchInv /\ PageInv /\ ReadEntry => PageInv'
<1>. SUFFICES ASSUME SearchInv, PageInv, ReadEntry PROVE PageInv'
  OBVIOUS
<1>. DEFINE i == CHOOSE n \in Ahead : \A m \in Ahead : n <= m
            p == Order[i]
            k == kind[p]
<1>1. i \in Ahead /\ \A m \in Ahead : i <= m
  <2>1. Ahead # {}
    BY DEF ReadEntry
  <2>2. Ahead \subseteq Nat
    BY OrderFacts DEF Ahead
  <2>. QED
    BY <2>1, <2>2, LeastExists
<1>2. /\ pc = "read" /\ dirs' = [dirs EXCEPT ![cur].at = i]
      /\ \/ /\ p \notin stayed \/ ~Passes(p, k)
            /\ UNCHANGED <<pc, cur, entry, rows, count, total>>
         \/ /\ Passes(p, k)
            /\ entry' = [path |-> p, kind |-> k]
            /\ CASE req.api = "COLLECT" -> PageEntry(p, k)
                 [] req.api = "SCANDIR" -> ScanEntry(p, k)
                 [] OTHER               -> ListEntry(p, k)
  BY DEF ReadEntry
<1>3. UNCHANGED <<fileVars, req, got>>
  BY DEF ReadEntry, Unchanged
<1>. HIDE DEF i
<1>4. ASSUME Collecting PROVE PageGoesOn
  <2>1. PICK at : Onward(at, i)
    BY <1>1, <1>2, <1>3, <1>4, PageStream
  <2>2. p \in stayed /\ (i \in Collected <=> Passes(p, k))
    BY <2>1 DEF Onward
  <2>3. CASE ~Passes(p, k) /\ UNCHANGED <<pc, cur, entry, rows, count, total>>
    BY <1>2, <1>4, <2>1, <2>3, PageSkips
  <2>4. CASE Passes(p, k) /\ entry' = [path |-> p, kind |-> k] /\ PageEntry(p, k)
    <3>1. i \in Collected /\ entry'.path = p /\ count' = count + 1 /\ UNCHANGED <<cur, rows>>
      BY <2>2, <2>4 DEF PageEntry
    <3>2. CASE count < req.start
      <4>1. pc' = "read" /\ total' = total
        BY <2>4, <3>2 DEF PageEntry
      <4>. QED
        BY <1>2, <1>4, <2>1, <3>1, <3>2, <4>1, PageCounts
    <3>3. CASE ~(count < req.start) /\ k = "file" /\ total + Size[p] > MAX_FILES_SIZE
      <4>1. WalkEnds
        BY <2>4, <3>3 DEF PageEntry
      <4>. QED
        BY <1>2, <1>4, <2>1, <3>1, <3>3, <4>1, PageEnds
    <3>4. CASE ~(count < req.start) /\ ~(k = "file" /\ total + Size[p] > MAX_FILES_SIZE)
      <4>1. pc' = "info" /\ total' = IF k = "file" THEN total + Size[p] ELSE total
        BY <2>4, <3>4 DEF PageEntry
      <4>. QED
        BY <1>2, <1>4, <2>1, <3>1, <3>4, <4>1, PageTakes
    <3>. QED
      BY <3>2, <3>3, <3>4
  <2>. QED
    BY <1>2, <1>4, <2>2, <2>3, <2>4 DEF Collecting
<1>. QED
  BY <1>3, <1>4, PageKept

\* The page that comes to the end of the directory.
LEMMA PageEndOfDirectory == SearchInv /\ PageInv /\ EndOfDirectory => PageInv'
<1>. SUFFICES ASSUME SearchInv, PageInv, EndOfDirectory PROVE PageInv'
  OBVIOUS
<1>1. UNCHANGED <<fileVars, req, got>> /\ pc = "read" /\ Ahead = {} /\ NextDirectory
      /\ UNCHANGED <<dirs, entry, rows, count, total, temp, answer, refused>>
  BY DEF EndOfDirectory, Unchanged
<1>2. ASSUME Collecting PROVE PageGoesOn
  <2>1. PICK at : at = dirs[1].at
    OBVIOUS
  <2>2. cur = 1 /\ at \in 0 .. Len(Order) /\ \A j \in Collected : j <= at
    BY <1>1, <1>2, <2>1, PagePlace
  <2>3. Paging("read", rows, at, count, total) /\ Len(dirs) = 1
    BY <1>1, <1>2, <2>1 DEF PageInv, Collecting, Walking, Page
  <2>4. pc' = "contents"
    BY <1>1, <1>2, <2>2, <2>3 DEF NextDirectory, WalkEnds, Collecting
  <2>5. got \in Seq(Path) /\ Len(got) \in Nat /\ got \o <<>> = got /\ req.start = Len(got)
        /\ count \in Nat
    BY <1>2, ConcatEmptySeq DEF SearchInv, SearchTypeOK, PageInv, Collecting
  <2>6. at \in Nat /\ count = Nth(at)
    BY <2>2, <2>3, OrderFacts DEF Paging
  <2>7. ~(count < req.start)
    <3>1. PICK place \in 0 .. Len(Order) : Tiles(got, place)
      BY <1>2 DEF PageInv, Collecting
    <3>2. place \in Nat /\ Len(got) = Nth(place)
      BY <3>1, OrderFacts DEF Tiles
    <3>3. CASE place <= at
      <4>1. Nth(place) <= Nth(at)
        BY <2>6, <3>2, <3>3, NthFacts
      <4>. QED
        BY <2>5, <2>6, <3>2, <4>1
    <3>4. CASE ~(place <= at)
      <4>1. \A j \in Collected : j <= at \/ j > place
        BY <2>2
      <4>2. Nth(at) = Nth(place)
        BY <2>6, <3>2, <3>4, <4>1, NothingBetween
      <4>. QED
        BY <2>5, <2>6, <3>2, <4>2
    <3>. QED
      BY <3>3, <3>4
  <2>8. Tiles(got \o rows, at) /\ \A n \in DOMAIN rows : ~Huge(rows[n])
    BY <2>3, <2>5, <2>7 DEF Paging
  <2>9. ASSUME rows = <<>>, NEW n \in Collected
        PROVE  Nth(n) <= Len(got) /\ ~Huge(Order[n])
    <3>1. Tiles(got, at) /\ Len(got) = Nth(at)
      BY <2>5, <2>8, <2>9 DEF Tiles
    <3>2. n \in Nat /\ 0 < n /\ n <= at
      BY <2>2, OrderFacts DEF Collected
    <3>3. Nth(n) <= Nth(at) /\ Nth(n) \in Nat /\ Nth(0) < Nth(n) /\ Nth(0) = 0
      BY <2>6, <3>2, NthFacts
    <3>4. got[Nth(n)] = Order[n] /\ Nth(n) \in DOMAIN got
      BY <2>5, <3>1, <3>2, <3>3 DEF Tiles
    <3>. QED
      BY <1>2, <3>1, <3>3, <3>4 DEF PageInv, Collecting
  <2>10. PageDone(rows)
    BY <2>2, <2>8, <2>9 DEF PageDone
  <2>. QED
    BY <1>1, <2>4, <2>8, <2>10 DEF PageGoesOn, Walking
<1>. QED
  BY <1>1, <1>2, PageKept

LEMMA PageWriteRow == SearchInv /\ PageInv /\ WriteRow => PageInv'
<1>. SUFFICES ASSUME SearchInv, PageInv, WriteRow PROVE PageInv'
  OBVIOUS
<1>1. UNCHANGED <<fileVars, req, got>> /\ pc = "info"
  BY DEF WriteRow, Unchanged
<1>2. ASSUME Collecting PROVE PageGoesOn
  <2>1. CASE WalkFails
    BY <1>2, <2>1, PageFails DEF WalkFails, Reply, Collecting
  <2>2. CASE /\ rows' = Append(rows, entry.path) /\ pc' = "read"
             /\ UNCHANGED <<cur, count, dirs, entry, total, temp, answer>>
    <3>1. PICK page, at : page = Append(rows, entry.path) /\ at = dirs[1].at
      OBVIOUS
    <3>2. cur = 1 /\ Len(dirs) = 1 /\ dirs[1].path = Root /\ Paging("info", page, at, count, total)
      BY <1>1, <1>2, <3>1 DEF PageInv, Collecting, Walking, Page
    <3>3. Paging("read", page, at, count, total)
      BY <3>2 DEF Paging
    <3>4. Page' = page /\ dirs'[1].at = at
      BY <2>2, <3>1 DEF Page
    <3>5. Paging(pc', Page', dirs'[1].at, count', total')
      BY <2>2, <3>3, <3>4
    <3>. QED
      BY <2>2, <3>2, <3>5 DEF PageGoesOn, Walked
  <2>. QED
    BY <1>2, <2>1, <2>2 DEF WriteRow, Collecting
<1>. QED
  BY <1>1, <1>2, PageKept

LEMMA PageOpenDirectory == SearchInv /\ PageInv /\ OpenDirectory => PageInv'
<1>. SUFFICES ASSUME SearchInv, PageInv, OpenDirectory PROVE PageInv'
  OBVIOUS
<1>1. UNCHANGED <<fileVars, req, got>> /\ pc = "opendir"
  BY DEF OpenDirectory, Unchanged
<1>2. ~Collecting
  BY <1>1 DEF PageInv, Collecting, Walking
<1>. QED
  BY <1>1, <1>2, PageKept

LEMMA PageContents == SearchInv /\ PageInv /\ Contents => PageInv'
<1>. SUFFICES ASSUME SearchInv, PageInv, Contents PROVE PageInv'
  OBVIOUS
<1>1. UNCHANGED <<fileVars, req, got>> /\ pc = "contents" /\ pc' = "answered" /\ rows' = rows
  BY DEF Contents, Unchanged, Reply, walkVars
<1>2. /\ answer'.text => answer'.rows = rows
      /\ answer'.rows # <<>> => answer'.text
  <2>1. CASE Reply([ok |-> TRUE, text |-> FALSE, rows |-> <<>>])
    BY <2>1 DEF Reply
  <2>2. CASE Reply([ok |-> TRUE, text |-> Len(rows) <= BufferRows,
                    rows |-> IF Len(rows) <= BufferRows THEN rows ELSE <<>>])
    BY <2>2 DEF Reply
  <2>3. CASE Reply(NoAnswer)
    BY <2>3 DEF Reply, NoAnswer
  <2>. QED
    BY <2>1, <2>2, <2>3 DEF Contents
<1>3. ASSUME Collecting PROVE PageGoesOn
  <2>1. PageDone(rows) /\ \A k \in DOMAIN rows : ~Huge(rows[k])
    BY <1>1, <1>3 DEF PageInv, Collecting, Walked
  <2>. QED
    BY <1>1, <1>2, <2>1 DEF PageGoesOn, Walking
<1>. QED
  BY <1>1, <1>3, PageKept

LEMMA PageZip == SearchInv /\ PageInv /\ (MakeZip \/ CopyToZip \/ SendZip) => PageInv'
<1>. SUFFICES ASSUME SearchInv, PageInv, MakeZip \/ CopyToZip \/ SendZip PROVE PageInv'
  OBVIOUS
<1>1. UNCHANGED <<fileVars, req, got>> /\ pc \in {"zip", "copy", "send"}
  BY DEF MakeZip, CopyToZip, SendZip, Unchanged
<1>2. ~Collecting
  BY <1>1 DEF SearchInv, TempInv, Collecting
<1>. QED
  BY <1>1, <1>2, PageKept

\* Another request ends what a page can promise.
LEMMA PageOther == PageInv /\ OtherRequest => PageInv'
<1>. SUFFICES ASSUME PageInv, OtherRequest PROVE PageInv'
  OBVIOUS
<1>1. changes' = changes + 1
  BY DEF OtherRequest, Change
<1>. QED
  BY <1>1 DEF PageInv

\* The client asks for the page after the rows it has.
LEMMA PageCollect == SearchInv /\ PageInv /\ Collect => PageInv'
<1>. SUFFICES ASSUME SearchInv, PageInv, Collect PROVE PageInv'
  OBVIOUS
<1>1. pc = "answered" /\ UNCHANGED <<kind, stayed, changes>> /\ changes \in Nat
  BY DEF Collect, fileVars, PageInv
<1>2. CASE pc' = "done" /\ UNCHANGED <<got, req, answer, walkVars>>
  <2>1. UNCHANGED <<fileVars, req, got>>
    BY <1>2 DEF Collect
  <2>2. PageGoesOn
    BY <1>2 DEF PageGoesOn, Walking, Walked
  <2>. QED
    BY <2>1, <2>2, PageKept
<1>3. CASE /\ req.api = "COLLECT" /\ answer.ok /\ answer.rows # <<>>
           /\ got' = got \o answer.rows
           /\ req' = [req EXCEPT !.start = Len(got')]
           /\ pc' = "start" /\ total' = 0
  <2>1. answer \in Answers /\ got \in Seq(Path) /\ RequestOK(req)
    BY DEF SearchInv, SearchTypeOK
  <2>2. answer.rows \in Seq(Path)
    BY <2>1 DEF Answers
  <2>3. got' \in Seq(Path) /\ Len(got') \in Nat
    BY <1>3, <2>1, <2>2, ConcatProperties
  <2>4. req'.api = req.api /\ req'.sub = req.sub /\ req'.filter = req.filter
    BY <1>3, <2>1, <2>3, RequestGoesOn
  <2>5. req'.start = Len(got')
    <3>1. "start" \in DOMAIN req
      BY <2>1 DEF RequestOK, Fields
    <3>. QED
      BY <1>3, <3>1
  <2>. SUFFICES ASSUME Collecting PROVE PageInv'
    BY <1>1, <2>4 DEF PageInv, Collecting
  <2>6. Walked /\ answer.rows = rows
    BY <1>1, <1>3 DEF PageInv, Collecting, Walked
  <2>7. PICK g, r : g = got' /\ r = req'
    OBVIOUS
  <2>8. g = got \o rows /\ PageDone(rows) /\ \A k \in DOMAIN rows : ~Huge(rows[k])
    BY <1>3, <2>6, <2>7 DEF PageInv, Collecting
  <2>9. \E place \in 0 .. Len(Order) : Tiles(g, place)
    BY <2>8 DEF PageDone
  <2>10. \A k \in DOMAIN g : ~Huge(g[k])
    <3>1. rows \in Seq(Path) /\ Len(got) \in Nat /\ Len(rows) \in Nat
      BY <2>1 DEF SearchInv, SearchTypeOK
    <3>2. ASSUME NEW k \in DOMAIN g PROVE ~Huge(g[k])
      <4>1. k \in 1 .. Len(got) + Len(rows) /\ k \in Nat /\ g[k] = IF k <= Len(got) THEN got[k] ELSE rows[k - Len(got)]
        BY <2>1, <2>8, <3>1, <3>2, ConcatProperties
      <4>2. CASE k <= Len(got)
        <5>1. k \in DOMAIN got
          BY <2>1, <3>1, <4>1, <4>2
        <5>. QED
          BY <4>1, <4>2, <5>1 DEF PageInv, Collecting
      <4>3. CASE ~(k <= Len(got))
        <5>1. k - Len(got) \in DOMAIN rows
          BY <3>1, <4>1, <4>3
        <5>. QED
          BY <2>8, <4>1, <4>3, <5>1
      <4>. QED
        BY <4>2, <4>3
    <3>. QED
      BY <3>2
  <2>11. /\ \A s, n : Tiles(s, n)' <=> Tiles(s, n)
         /\ \A p : Huge(p)' <=> Huge(p)
    BY <1>1, <2>4, CollectedStays
  <2>12. /\ \E place \in 0 .. Len(Order) : Tiles(g, place)'
         /\ \A k \in DOMAIN g : ~Huge(g[k])'
    BY <2>9, <2>10, <2>11
  <2>13. (\A p \in Path : kind[p] # "none" => p \in stayed) /\ ~req.sub
    BY DEF PageInv, Collecting
  <2>14. (\E place \in 0 .. Len(Order) : Tiles(got, place)') /\ \A k \in DOMAIN got' : ~Huge(got[k])'
    BY <2>7, <2>12
  <2>15. ~Walking' /\ ~Walked'
    BY <1>3 DEF Walking, Walked
  <2>. QED
    BY <1>1, <1>3, <2>4, <2>5, <2>13, <2>14, <2>15 DEF PageInv
<1>. QED
  BY <1>2, <1>3 DEF Collect

LEMMA PagesStep == SearchInv /\ PageInv /\ [Next]_vars => PageInv'
<1>. SUFFICES ASSUME SearchInv, PageInv, [Next]_vars PROVE PageInv'
  OBVIOUS
<1>1. CASE UNCHANGED vars
  <2>1. UNCHANGED <<fileVars, req, got>>
    BY <1>1 DEF vars
  <2>2. Collecting => PageGoesOn
    BY <1>1 DEF PageInv, PageGoesOn, Collecting, Walking, Walked, Page, vars, walkVars
  <2>. QED
    BY <2>1, <2>2, PageKept
<1>. QED
  BY <1>1, PageMakeTemp, PageOpenRoot, PageReadEntry, PageEndOfDirectory, PageWriteRow,
     PageOpenDirectory, PageContents, PageZip, PageCollect, PageOther DEF Next

\* The pages of a directory that nobody changes are its rows one after the
\* other, and when they end nothing is left up to the first file that is too
\* large for a page (get_files_info, API41_DOSEARCH_ONLY_FILE_COLLECT,
\* searchOnlyFileCollector).
THEOREM PagesAreTiles == Spec => []PagesTile
<1>1. SearchInv /\ PageInv => PagesTile
  <2>. SUFFICES ASSUME SearchInv, PageInv, pc = "answered", Collecting, answer.ok, answer.text
                PROVE  /\ \E place \in 0 .. Len(Order) : Tiles(got \o answer.rows, place)
                       /\ answer.rows = <<>> =>
                            \A i \in Collected :
                              Nth(i) <= Len(got \o answer.rows) <=>
                                \A j \in Collected : j <= i => ~Huge(Order[j])
    BY DEF PagesTile, Collecting
  <2>1. PageDone(rows) /\ answer.rows = rows
    BY DEF PageInv, Collecting, Walked
  <2>2. got \o <<>> = got
    BY ConcatEmptySeq DEF SearchInv, SearchTypeOK
  <2>. QED
    BY <2>1, <2>2 DEF PageDone
<1>2. Spec => []PageInv
  <2>1. Init => PageInv
    BY PageInit
  <2>2. SearchInv /\ PageInv /\ [Next]_vars => PageInv'
    BY PagesStep
  <2>. QED
    BY <2>1, <2>2, SearchInvariant, PTL DEF Spec
<1>. QED
  BY <1>1, <1>2, SearchInvariant, PTL
==============================================================================
