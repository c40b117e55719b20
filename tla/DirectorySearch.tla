--------------------------- MODULE DirectorySearch ---------------------------
(***************************************************************************)
(* The searches of the agent (VIEWDIR, the three DOSEARCH commands and     *)
(* SCANDIR) walk through a directory tree, one system call at a time,      *)
(* while other requests create and delete files in it.  Rows go to a       *)
(* temporary file first, which then becomes the answer.                    *)
(*                                                                         *)
(* A row is the path it is about.  Whether a path matches the expression   *)
(* or the filters of the request is a set of paths.                        *)
(***************************************************************************)
EXTENDS Integers, Sequences, FiniteSets, SequencesExt

CONSTANTS Root,            \* the directory that is searched
          Order,           \* the paths below it, in the order readdir has them
          Parent,          \* the directory a path is in
          Trees,           \* what there may be at the start: [path -> kind]
          Size,            \* the size of a file
          Matching,        \* the paths that match
          RowLimits,       \* DEFAULT_GET_ROWS; -1 for all rows
          MAX_FILES_SIZE,  \* the files of a page together are not larger
          BufferRows,      \* so many rows fit in the answer (OBJ_MAX_LENGTH)
          MaxChanges       \* bound: changes by other requests

Path == {Root} \cup ToSet(Order)

\* readdir has each name once, and what exists is in a directory.
ASSUME SearchAssumption ==
  /\ Order \in Seq(Path) /\ IsInjective(Order) /\ Root \notin ToSet(Order)
  /\ \A p \in ToSet(Order) : Parent[p] \in Path /\ Size[p] \in Nat
  /\ Trees \subseteq [Path -> {"none", "file", "dir"}]
  /\ \A t \in Trees, p \in ToSet(Order) : t[p] # "none" => t[Parent[p]] = "dir"
  /\ Matching \subseteq Path
  /\ RowLimits \subseteq Int
  /\ {MAX_FILES_SIZE, BufferRows, MaxChanges} \subseteq Nat

VARIABLES kind,     \* what a path names now
          changes,  \* how often that has changed
          pc,       \* the step the handler comes to
          req,      \* the request
          dirs,     \* the directories to read, each with its stream's position
          cur,      \* the one that is read (currentStack)
          entry,    \* the entry at hand and what stat found it to be
          rows,     \* what is in the temporary file
          count,    \* appendedCount, or currentCount of a page
          total,    \* allFileSize of a page
          temp,     \* the temporary files there are
          answer,
          got,      \* the rows of the earlier pages
          stayed,   \* what has been there since the request began
          was,      \* what has been there at some time since
          refused   \* the directories the system would not open

fileVars == <<kind, changes, stayed, was>>
walkVars == <<dirs, cur, entry, rows, count, total>>
vars == <<fileVars, pc, req, walkVars, temp, answer, got, refused>>

NoAnswer == [ok |-> FALSE, text |-> FALSE, rows |-> <<>>]

\* The parameters of the five commands.
ViewDir == [api : {"VIEWDIR"}, sub : BOOLEAN, filter : BOOLEAN, max : RowLimits, start : {0}]
OnlyDir == [api : {"ONLY_DIR"}, sub : {TRUE}, filter : {FALSE}, max : {-1}, start : {0}]
OnlyFile == [api : {"ONLY_FILE"}, sub : {TRUE}, filter : BOOLEAN, max : {-1}, start : {0}]
CollectPage == [api : {"COLLECT"}, sub : {FALSE}, filter : BOOLEAN, max : {-1}, start : {0}]
ScanDir == [api : {"SCANDIR"}, sub : {TRUE}, filter : BOOLEAN, max : {-1}, start : {0}]
Request == ViewDir \cup OnlyDir \cup OnlyFile \cup CollectPage \cup ScanDir

\* includeMode: VIEWDIR with subdirectories and ONLY_FILE list files only.
Lists(k) == CASE req.api = "ONLY_DIR" -> k = "dir"
              [] req.api = "ONLY_FILE" -> k = "file"
              [] req.api = "VIEWDIR" /\ req.sub -> k = "file"
              [] OTHER -> TRUE
\* Directories are never tested.
Passes(p, k) == k = "file" /\ req.filter => p \in Matching
LimitReached(n) == req.max > -1 /\ n >= req.max
--------------------------------------------------------------------------
(* Other requests: API07_CREATEFILE and API28_DELETEFILE *)

\* A stream of a directory that is removed has come to its end.
Change(p, k) ==
  /\ kind' = [kind EXCEPT ![p] = k]
  /\ changes' = changes + 1
  /\ stayed' = stayed \ {p}
  /\ was' = was \cup {<<p, k>>}
  /\ dirs' = [i \in DOMAIN dirs |-> IF dirs[i].path = p THEN [dirs[i] EXCEPT !.at = Len(Order)] ELSE dirs[i]]
  /\ UNCHANGED <<pc, req, cur, entry, rows, count, total, temp, answer, got, refused>>

OtherRequest ==
  /\ changes < MaxChanges /\ pc # "done"
  /\ \E p \in ToSet(Order) :
       \/ /\ kind[p] = "none" /\ kind[Parent[p]] = "dir"
          /\ \E k \in {"file", "dir"} : Change(p, k)
       \/ /\ kind[p] # "none"
          /\ \A q \in ToSet(Order) : Parent[q] = p => kind[q] = "none"
          /\ Change(p, "none")
--------------------------------------------------------------------------
(* The walk *)

Unchanged == UNCHANGED <<fileVars, req, got>>
Reply(a) == pc' = "answered" /\ answer' = a
WalkEnds == pc' = IF req.api = "SCANDIR" THEN "zip" ELSE "contents"

\* Slip: the temporary file is not removed.
WalkFails_Left ==
  /\ IF req.api = "SCANDIR" THEN pc' = "zip" /\ UNCHANGED <<answer, temp>>
                            ELSE Reply(NoAnswer) /\ UNCHANGED temp
  /\ UNCHANGED walkVars

\* The scan takes no notice of a walk that fails.
WalkFails ==
  /\ IF req.api = "SCANDIR" THEN pc' = "zip" /\ UNCHANGED <<answer, temp>>
                            ELSE Reply(NoAnswer) /\ temp' = {}
  /\ UNCHANGED walkVars

\* mkstemp and fdopen
MakeTemp ==
  /\ pc = "start"
  /\ \/ pc' = "root" /\ temp' = {"list"} /\ UNCHANGED answer
     \/ Reply(NoAnswer) /\ UNCHANGED temp
  /\ Unchanged /\ UNCHANGED <<walkVars, refused>>

OpenRoot ==
  /\ pc = "root"
  /\ \/ /\ req.api # "SCANDIR" /\ req.api # "COLLECT" /\ LimitReached(count)
        /\ WalkFails /\ UNCHANGED refused
     \/ /\ kind[Root] # "dir"
        /\ WalkFails /\ UNCHANGED refused
     \/ /\ kind[Root] = "dir"
        /\ WalkFails /\ refused' = refused \cup {Root}
     \/ /\ kind[Root] = "dir" /\ ~LimitReached(count)
        /\ pc' = "read"
        /\ dirs' = <<[path |-> Root, at |-> 0]>>
        /\ rows' = IF req.api = "ONLY_DIR" THEN <<Root>> ELSE <<>>
        /\ UNCHANGED <<cur, entry, count, total, temp, answer, refused>>
  /\ Unchanged

\* Slip: one directory less.
NextDirectory_Last ==
  /\ cur' = cur + 1
  /\ IF cur + 1 < Len(dirs) THEN pc' = "read" ELSE WalkEnds

\* The next directory that was found is read, or there is none.
NextDirectory ==
  /\ cur' = cur + 1
  /\ IF cur < Len(dirs) THEN pc' = "read" ELSE WalkEnds

\* After an entry of get_directory_info: the limit ends this directory only.
Descend(k, n) ==
  IF LimitReached(n) THEN NextDirectory
  ELSE pc' = (IF k = "dir" /\ req.sub THEN "opendir" ELSE "read") /\ UNCHANGED cur

\* The entries a stream still has.
Ahead == {i \in 1 .. Len(Order) : /\ i > dirs[cur].at
                                  /\ Parent[Order[i]] = dirs[cur].path
                                  /\ kind[Order[i]] # "none"}

\* Slip: the row the page starts with is the last of the one before.
PageEntry_Start(p, k) ==
  /\ count' = count + 1
  /\ UNCHANGED <<cur, rows>>
  /\ IF count + 1 < req.start THEN pc' = "read" /\ UNCHANGED total
     ELSE IF k = "file" /\ total + Size[p] > MAX_FILES_SIZE THEN WalkEnds /\ UNCHANGED total
     ELSE pc' = "info" /\ total' = IF k = "file" THEN total + Size[p] ELSE total

\* An entry of get_files_info: rows of earlier pages are counted only, a file
\* that makes the page too large ends it.
PageEntry(p, k) ==
  /\ count' = count + 1
  /\ UNCHANGED <<cur, rows>>
  /\ IF count < req.start THEN pc' = "read" /\ UNCHANGED total
     ELSE IF k = "file" /\ total + Size[p] > MAX_FILES_SIZE THEN WalkEnds /\ UNCHANGED total
     ELSE pc' = "info" /\ total' = IF k = "file" THEN total + Size[p] ELSE total

\* An entry of scan_directory_info: a file's line is written with what stat found.
ScanEntry(p, k) ==
  /\ rows' = IF k = "file" THEN Append(rows, p) ELSE rows
  /\ pc' = IF k = "dir" THEN "opendir" ELSE "read"
  /\ UNCHANGED <<cur, count, total>>

ListEntry(p, k) ==
  /\ IF Lists(k) THEN pc' = "info" /\ UNCHANGED cur ELSE Descend(k, count)
  /\ UNCHANGED <<rows, count, total>>

\* readdir and stat.  An entry that was made after the stream was opened may be
\* missing from it; one that is gone fails in stat and is left out.
ReadEntry ==
  /\ pc = "read" /\ Ahead # {}
  /\ LET i == CHOOSE n \in Ahead : \A m \in Ahead : n <= m
         p == Order[i]
         k == kind[p]
     IN /\ dirs' = [dirs EXCEPT ![cur].at = i]
        /\ \/ /\ p \notin stayed \/ ~Passes(p, k)
              /\ UNCHANGED <<pc, cur, entry, rows, count, total>>
           \/ /\ Passes(p, k)
              /\ entry' = [path |-> p, kind |-> k]
              /\ CASE req.api = "COLLECT" -> PageEntry(p, k)
                   [] req.api = "SCANDIR" -> ScanEntry(p, k)
                   [] OTHER               -> ListEntry(p, k)
  /\ Unchanged /\ UNCHANGED <<temp, answer, refused>>

EndOfDirectory ==
  /\ pc = "read" /\ Ahead = {}
  /\ NextDirectory
  /\ Unchanged /\ UNCHANGED <<dirs, entry, rows, count, total, temp, answer, refused>>

\* get_file_info asks for the path once more.  If it is gone by now the whole
\* search fails.
WriteRow ==
  /\ pc = "info"
  /\ IF kind[entry.path] = "none" THEN WalkFails
     ELSE /\ rows' = Append(rows, entry.path)
          /\ IF req.api = "COLLECT"
             THEN pc' = "read" /\ UNCHANGED <<cur, count>>
             ELSE count' = count + 1 /\ Descend(entry.kind, count + 1)
          /\ UNCHANGED <<dirs, entry, total, temp, answer>>
  /\ Unchanged /\ UNCHANGED refused

\* A directory that cannot be opened is left out.
OpenDirectory ==
  /\ pc = "opendir"
  /\ \/ /\ kind[entry.path] = "dir"
        /\ dirs' = Append(dirs, [path |-> entry.path, at |-> 0])
        /\ UNCHANGED refused
     \/ /\ refused' = refused \cup {entry.path}
        /\ UNCHANGED dirs
  /\ pc' = "read"
  /\ Unchanged /\ UNCHANGED <<cur, entry, rows, count, total, temp, answer>>
--------------------------------------------------------------------------
(* The answer *)

\* If the file does not fit in the buffer there is no text at all; the answer is
\* "true" all the same. If it cannot be read the handler goes on, and closes what
\* it wrote a second time: the answer is "true" without the text, or the process
\* ends.
Contents ==
  /\ pc = "contents"
  /\ \/ Reply([ok |-> TRUE, text |-> Len(rows) <= BufferRows,
               rows |-> IF Len(rows) <= BufferRows THEN rows ELSE <<>>])
     \/ Reply([ok |-> TRUE, text |-> FALSE, rows |-> <<>>])
     \/ Reply(NoAnswer)
  /\ temp' = {}
  /\ Unchanged /\ UNCHANGED <<walkVars, refused>>

\* SCANDIR: the file is zipped.  gzdopen that fails leaves its file behind.
MakeZip ==
  /\ pc = "zip"
  /\ \/ pc' = "copy" /\ temp' = {"list", "zip"} /\ UNCHANGED answer
     \/ Reply(NoAnswer) /\ temp' = {}
     \/ Reply(NoAnswer) /\ temp' = {"zip"}
  /\ Unchanged /\ UNCHANGED <<walkVars, refused>>

CopyToZip ==
  /\ pc = "copy"
  /\ \/ pc' = "send" /\ temp' = {"zip"} /\ UNCHANGED answer
     \/ Reply(NoAnswer) /\ temp' = {}
  /\ Unchanged /\ UNCHANGED <<walkVars, refused>>

\* stat, fopen and the sending.  An error of send is an exception that leaves
\* the handler.
SendZip ==
  /\ pc = "send"
  /\ \/ Reply([ok |-> TRUE, text |-> TRUE, rows |-> rows]) /\ temp' = {}
     \/ Reply(NoAnswer) /\ temp' = {}
     \/ Reply(NoAnswer) /\ UNCHANGED temp
  /\ Unchanged /\ UNCHANGED <<walkVars, refused>>

\* The collecting client asks for the next page until one is empty.
Collect ==
  /\ pc = "answered"
  /\ IF req.api = "COLLECT" /\ answer.ok /\ answer.rows # <<>>
     THEN /\ got' = got \o answer.rows
          /\ req' = [req EXCEPT !.start = Len(got')]
          /\ pc' = "start"
          /\ answer' = NoAnswer
          /\ dirs' = <<>> /\ cur' = 1 /\ rows' = <<>> /\ count' = 0 /\ total' = 0
          /\ entry' = [path |-> Root, kind |-> "dir"]
     ELSE pc' = "done" /\ UNCHANGED <<got, req, answer, walkVars>>
  /\ UNCHANGED <<fileVars, temp, refused>>

Next == \/ MakeTemp \/ OpenRoot \/ ReadEntry \/ EndOfDirectory \/ WriteRow \/ OpenDirectory
        \/ Contents \/ MakeZip \/ CopyToZip \/ SendZip \/ Collect \/ OtherRequest

Init == /\ kind \in Trees
        /\ req \in Request
        /\ changes = 0 /\ pc = "start"
        /\ dirs = <<>> /\ cur = 1 /\ rows = <<>> /\ count = 0 /\ total = 0
        /\ entry = [path |-> Root, kind |-> "dir"]
        /\ temp = {} /\ answer = NoAnswer /\ got = <<>> /\ refused = {}
        /\ stayed = {p \in Path : kind[p] # "none"}
        /\ was = {<<p, kind[p]>> : p \in Path}

Spec == Init /\ [][Next]_vars
--------------------------------------------------------------------------
(* Properties *)

\* With a directory the walk comes to what stayed in it, if it may go there.
ClosedUnderWalk(S) ==
  /\ Root \in S
  /\ \A p \in stayed \cap ToSet(Order) :
       /\ Parent[p] \in S \cap (stayed \ refused)
       /\ Parent[p] = Root \/ req.sub
       => p \in S

\* The paths that the walk of an undisturbed search comes to.
Reached == {p \in Path : \A S \in SUBSET Path : ClosedUnderWalk(S) => p \in S}

\* A listing that is answered "true" and has its text is right, whatever other
\* requests do to the tree: no path is in it twice, each was there during the
\* search and is of the kind and name that was asked for, and each path that was
\* there all the time is in it, unless the limit cut the listing short, which
\* then has at least as many rows.
\* (get_directory_info, scan_directory_info and their handlers)
ListingIsExact ==
  LET wanted == {p \in Path : Lists(kind[p]) /\ Passes(p, kind[p])} IN
  pc = "answered" /\ answer.ok /\ answer.text /\ req.api # "COLLECT" =>
    /\ Cardinality(ToSet(answer.rows)) = Len(answer.rows)
    /\ \A p \in ToSet(answer.rows) :
         \E k \in {"file", "dir"} : <<p, k>> \in was /\ Lists(k) /\ Passes(p, k)
    /\ \/ LimitReached(Len(answer.rows))
       \/ \A p \in stayed \cap wanted :
            p \in Reached /\ (p = Root => req.api = "ONLY_DIR") /\ (req.api = "SCANDIR" => kind[p] = "file")
              => p \in ToSet(answer.rows)

\* The entries a collecting client is to get, by their places in the order.  A
\* file that is too large for any page ends the pages.
Collected == {i \in DOMAIN Order : LET p == Order[i] IN
                Parent[p] = Root /\ kind[p] # "none" /\ Passes(p, kind[p])}
Nth(i) == Cardinality({j \in Collected : j <= i})
Huge(p) == kind[p] = "file" /\ Size[p] > MAX_FILES_SIZE

\* The list s is all of them up to a place, one after the other.
Tiles(s, place) == /\ Len(s) = Nth(place)
                   /\ \A i \in Collected : i <= place => s[Nth(i)] = Order[i]

\* The pages of a directory that nobody changes, each asked for with the number
\* of rows received before, are the rows of that directory one after the other,
\* and when they end nothing is left up to the first file that is too large.
\* (get_files_info, API41_DOSEARCH_ONLY_FILE_COLLECT, searchOnlyFileCollector)
PagesTile ==
  LET soFar == got \o answer.rows IN
  pc = "answered" /\ req.api = "COLLECT" /\ changes = 0 /\ answer.ok /\ answer.text =>
    /\ \E place \in 0 .. Len(Order) : Tiles(soFar, place)
    /\ answer.rows = <<>> =>
         \A i \in Collected :
           Nth(i) <= Len(soFar) <=> \A j \in Collected : j <= i => ~Huge(Order[j])

\* The temporary files of a search are gone when it has answered; only a zip
\* file can stay, after an answer that failed.
\* (API04, API26, API27, API41, API40_SCANDIR_TO_FILE)
TempsAreRemoved ==
  pc = "answered" => temp = {} \/ (req.api = "SCANDIR" /\ ~answer.ok /\ temp = {"zip"})
==============================================================================
