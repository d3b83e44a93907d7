------------------------------- MODULE Snapshots -------------------------------
(***************************************************************************)
(* snapshots.py and storage.py under two runs of different processes: a    *)
(* page is stored as a file named by its digest, then as a row of the      *)
(* run's transaction, then reduced to an item of the same transaction. The *)
(* files belong to no transaction. One document is listed on the pages; a  *)
(* run reads one page.                                                     *)
(*                                                                         *)
(* The local backend is modelled, which writes through a temporary file;   *)
(* the other one replaces a blob at once. The database lets a transaction  *)
(* see what others have committed, and makes the insertion of a digest     *)
(* wait for the end of another one that has inserted it.                   *)
(***************************************************************************)
EXTENDS Naturals, FiniteSets

CONSTANTS
  Pages,     \* digests of the pages that list the document
  Readers,   \* processes that read them
  MaxReads,  \* bound: runs
  MaxDeaths  \* bound: killed runs

ASSUME SnapshotsAssumption ==
  /\ "none" \notin Pages /\ {"none", "whole"} \cap Readers = {}
  /\ {MaxReads, MaxDeaths} \subseteq Nat

VARIABLES
  tmp, blob,  \* page -> "none", "whole", or the run that is yet to finish the file
  filed,      \* pages with a committed snapshot row
  items,      \* committed rows of the document: [page, run] that created them
  reads,      \* reader -> the state of its run
  contested,  \* pages whose file two runs were at work on at once
  purged,     \* has the document been purged?
  begun, deaths

snapshotVars == <<tmp, blob, filed, items, reads, contested, purged, begun, deaths>>

\* A run at rest; `files` and `creates` tell what its open transaction has inserted.
AtRest == [page |-> "none", step |-> "rest", files |-> FALSE, creates |-> FALSE]

Goes(r, from, to) ==
  /\ reads[r].step = from
  /\ reads' = [reads EXCEPT ![r].step = to]

Ends(r) == reads' = [reads EXCEPT ![r] = AtRest]

\* Is the run at work on the file of the page?
Writes(r, page) == reads[r].page = page /\ reads[r].step \in {"write", "rename"}
-------------------------------------------------------------------------------
SnapshotsInit ==
  /\ tmp = [p \in Pages |-> "none"] /\ blob = [p \in Pages |-> "none"]
  /\ filed = {} /\ items = {}
  /\ reads = [r \in Readers |-> AtRest]
  /\ contested = {} /\ purged = FALSE
  /\ begun = 0 /\ deaths = 0

\* LocalBackend.write: a file that exists is not written again.
ReadPage(r, page) ==
  /\ reads[r] = AtRest /\ begun < MaxReads
  /\ reads' = [reads EXCEPT ![r] =
       [AtRest EXCEPT !.page = page, !.step = IF blob[page] = "none" THEN "open" ELSE "look"]]
  /\ begun' = begun + 1
  /\ UNCHANGED <<tmp, blob, filed, items, contested, purged, deaths>>

\* Mutant of OpenFile: the file is written under the name it is read by.
OpenFileInPlace(r) ==
  /\ Goes(r, "open", "write")
  /\ blob' = [blob EXCEPT ![reads[r].page] = r]
  /\ UNCHANGED <<tmp, filed, items, contested, purged, begun, deaths>>

\* The temporary file is created, or emptied when another run is writing it.
OpenFile(r) ==
  LET page == reads[r].page
  IN  /\ Goes(r, "open", "write")
      /\ tmp' = [tmp EXCEPT ![page] = r]
      /\ contested' = IF \E q \in Readers \ {r} : Writes(q, page)
                      THEN contested \cup {page} ELSE contested
      /\ UNCHANGED <<blob, filed, items, purged, begun, deaths>>

\* The last run that emptied a file completes it, wherever it was renamed to.
FinishFile(r) ==
  LET page == reads[r].page
      done(file) == [file EXCEPT ![page] = IF @ = r THEN "whole" ELSE @]
  IN  /\ Goes(r, "write", "rename")
      /\ tmp' = done(tmp) /\ blob' = done(blob)
      /\ UNCHANGED <<filed, items, contested, purged, begun, deaths>>

RenameFile(r) ==
  LET page == reads[r].page
  IN  /\ Goes(r, "rename", "look")
      /\ tmp[page] # "none"
      /\ blob' = [blob EXCEPT ![page] = tmp[page]]
      /\ tmp' = [tmp EXCEPT ![page] = "none"]
      /\ UNCHANGED <<filed, items, contested, purged, begun, deaths>>

\* The other run has renamed it already: the fetch fails.
RenameFails(r) ==
  /\ reads[r].step = "rename" /\ tmp[reads[r].page] = "none"
  /\ Ends(r)
  /\ UNCHANGED <<tmp, blob, filed, items, contested, purged, begun, deaths>>

\* record: a digest that is on file already is used as it is.
LookUpRow(r) ==
  /\ Goes(r, "look", IF reads[r].page \in filed THEN "find" ELSE "file")
  /\ UNCHANGED <<tmp, blob, filed, items, contested, purged, begun, deaths>>

\* Mutant of FileRow: a digest may be filed twice.
FileRowTwice(r) ==
  /\ reads[r].step = "file"
  /\ reads' = [reads EXCEPT ![r] = [reads[r] EXCEPT !.step = "find", !.files = TRUE]]
  /\ UNCHANGED <<tmp, blob, filed, items, contested, purged, begun, deaths>>

\* The digest is unique: the insertion waits for another run's, and fails with it.
FileRow(r) ==
  /\ reads[r].step = "file" /\ reads[r].page \notin filed
  /\ \A q \in Readers \ {r} : ~ (reads[q].files /\ reads[q].page = reads[r].page)
  /\ reads' = [reads EXCEPT ![r] = [reads[r] EXCEPT !.step = "find", !.files = TRUE]]
  /\ UNCHANGED <<tmp, blob, filed, items, contested, purged, begun, deaths>>

FileRowFails(r) ==
  /\ reads[r].step = "file" /\ reads[r].page \in filed
  /\ Ends(r)
  /\ UNCHANGED <<tmp, blob, filed, items, contested, purged, begun, deaths>>

\* _find_item sees what is committed; reduce_item creates what it did not find.
FindItem(r) ==
  /\ reads[r].step = "find"
  /\ reads' = [reads EXCEPT ![r] = [reads[r] EXCEPT !.step = "commit", !.creates = (items = {})]]
  /\ UNCHANGED <<tmp, blob, filed, items, contested, purged, begun, deaths>>

CommitRead(r) ==
  LET run == reads[r]
  IN  /\ run.step = "commit"
      /\ filed' = IF run.files THEN filed \cup {run.page} ELSE filed
      /\ items' = IF run.creates THEN items \cup {[page |-> run.page, by |-> begun, at |-> r]}
                  ELSE items
      /\ Ends(r)
      /\ UNCHANGED <<tmp, blob, contested, purged, begun, deaths>>

\* A later page, or the end of the run, fails: the transaction is rolled back.
RollBack(r) ==
  /\ reads[r].step \in {"find", "commit"}
  /\ Ends(r)
  /\ UNCHANGED <<tmp, blob, filed, items, contested, purged, begun, deaths>>

\* The process dies; what it was writing stays as it is.
Dies(r) ==
  /\ reads[r] # AtRest /\ deaths < MaxDeaths
  /\ Ends(r)
  /\ deaths' = deaths + 1
  /\ UNCHANGED <<tmp, blob, filed, items, contested, purged, begun>>

\* purge_items keeps the snapshots.
PurgeItems ==
  /\ items # {} /\ ~ purged
  /\ items' = {} /\ purged' = TRUE
  /\ UNCHANGED <<tmp, blob, filed, reads, contested, begun, deaths>>

SnapshotsNext ==
  \/ \E r \in Readers :
       \/ \E page \in Pages : ReadPage(r, page)
       \/ OpenFile(r) \/ FinishFile(r) \/ RenameFile(r) \/ RenameFails(r)
       \/ LookUpRow(r) \/ FileRow(r) \/ FileRowFails(r) \/ FindItem(r)
       \/ CommitRead(r) \/ RollBack(r) \/ Dies(r)
  \/ PurgeItems
-------------------------------------------------------------------------------
\* Every snapshot on file has its content, or a run is just completing it, unless a run
\* died while another was at the same file: what that leaves torn is never written again.
FiledIsStored ==
  \A page \in filed :
    \/ blob[page] = "whole"
    \/ \E r \in Readers : blob[page] = r /\ Writes(r, page)
    \/ page \in contested /\ deaths > 0

\* Runs that overlap make a second row of a document only when they read it from
\* different pages: the unique digest keeps two readers of one page apart. (A document
\* purged after its page was filed has lost that protection.)
TwinsComeFromTwoPages ==
  Cardinality(items) > 1 => purged \/ \A i, j \in items : i # j => i.page # j.page
===============================================================================
