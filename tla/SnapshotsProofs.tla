----------------------------- MODULE SnapshotsProofs -----------------------------
(***************************************************************************)
(* Proofs about the store of pages, for any pages, readers and deaths:     *)
(* what is on file has its content, and a document gets no second row from *)
(* one page.                                                               *)
(***************************************************************************)
EXTENDS Services, TLAPS

\* The steps of a run that stores a page, what the file of a page holds, and what a run keeps.
Steps == {"rest", "open", "write", "rename", "look", "file", "find", "commit"}
Files == {"none", "whole"} \cup Readers
Reads == [page : Pages \cup {"none"}, step : Steps, files : BOOLEAN, creates : BOOLEAN]

\* The type of files, rows, items and runs.
SnapshotsType ==
  /\ tmp \in [Pages -> Files] /\ blob \in [Pages -> Files]
  /\ filed \subseteq Pages /\ items \subseteq [page : Pages, by : Nat, at : Readers]
  /\ reads \in [Readers -> Reads]
  /\ contested \subseteq Pages /\ purged \in BOOLEAN /\ begun \in Nat /\ deaths \in Nat

\* A run at rest has read nothing; any other reads one of the pages.
RunsHavePages ==
  \A r \in Readers :
    /\ reads[r].step = "rest" => reads[r] = AtRest
    /\ reads[r].step # "rest" => reads[r].page \in Pages

\* Run r is at this step of this page.
At(r, page, step) == reads[r].page = page /\ reads[r].step = step

\* Two runs are at work on one file only if it is contested, and otherwise a run finds the
\* temporary file as it has left it.
WritersMeet ==
  \A page \in Pages : page \notin contested =>
    \A r \in Readers :
      /\ \A q \in Readers \ {r} : ~ (Writes(r, page) /\ Writes(q, page))
      /\ At(r, page, "write") => tmp[page] = r
      /\ At(r, page, "rename") => tmp[page] = "whole"

\* What is not whole is about to be completed, unless a run died; under the name it is
\* read by only a contested file can be so.
UnfinishedFiles ==
  \A page \in Pages, q \in Readers :
    /\ tmp[page] = q => At(q, page, "write") \/ deaths > 0
    /\ blob[page] = q => page \in contested /\ (At(q, page, "write") \/ deaths > 0)

\* A page is looked up once its file is there, and is not taken away.
LookedUpIsThere ==
  /\ \A page \in filed : blob[page] # "none"
  /\ \A r \in Readers :
       reads[r].step \in {"look", "file", "find", "commit"} => blob[reads[r].page] # "none"

\* What the files of the store are, at each step.
FileInv == WritersMeet /\ UnfinishedFiles /\ LookedUpIsThere

\* A page is filed by one run, and a run that found its page on file has not filed it.
FiledOnce ==
  \A r \in Readers :
    /\ reads[r].files =>
         /\ reads[r].step \in {"find", "commit"} /\ reads[r].page \notin filed
         /\ \A q \in Readers \ {r} : ~ (reads[q].files /\ reads[q].page = reads[r].page)
    /\ reads[r].step \in {"find", "commit"} => reads[r].files \/ reads[r].page \in filed
    /\ reads[r].creates => reads[r].step = "commit"

\* As long as nothing is purged, what is on file has made a row and each row comes from a
\* page on file, one from each.
RowsComeFromPages ==
  ~ purged =>
    /\ filed # {} => items # {}
    /\ \A i \in items : i.page \in filed
    /\ \A i, j \in items : i.page = j.page => i = j
    /\ \A r \in Readers : reads[r].step = "commit" =>
         /\ reads[r].creates => reads[r].files
         /\ reads[r].files => reads[r].creates \/ items # {}

\* The inductive invariant of the page store.
SnapshotsInv == SnapshotsType /\ RunsHavePages /\ FileInv /\ FiledOnce /\ RowsComeFromPages
-------------------------------------------------------------------------------
\* Files, rows and runs keep their types.
LEMMA SnapshotsTypeStep ==
  ASSUME SnapshotsType, RunsHavePages, [SnapshotsNext]_snapshotVars
  PROVE  SnapshotsType' /\ RunsHavePages'
<1> USE DEF SnapshotsType, RunsHavePages, Reads, Files, Steps, AtRest
<1>0. ASSUME NEW r \in Readers, NEW row \in Reads, reads' = [reads EXCEPT ![r] = row],
             row.step = "rest" => row = AtRest, row.step # "rest" => row.page \in Pages
      PROVE  reads' \in [Readers -> Reads] /\ RunsHavePages'
  <2>1. reads' \in [Readers -> Reads] /\ reads'[r] = row
        /\ \A q \in Readers \ {r} : reads'[q] = reads[q]
    BY <1>0
  <2> HIDE DEF Reads, AtRest
  <2> QED
    BY <1>0, <2>1
<1>1. CASE UNCHANGED snapshotVars
  BY <1>1 DEF snapshotVars
<1>2. ASSUME NEW r \in Readers, NEW page \in Pages, ReadPage(r, page)
      PROVE  SnapshotsType' /\ RunsHavePages'
  <2> DEFINE to == IF blob[page] = "none" THEN "open" ELSE "look"
             row == [AtRest EXCEPT !.page = page, !.step = to]
  <2>1. row \in Reads /\ row.step = to /\ row.page = page
    OBVIOUS
  <2>2. reads' = [reads EXCEPT ![r] = row]
    BY <1>2 DEF ReadPage
  <2>3. row.step # "rest"
    BY <2>1
  <2> HIDE DEF row, to, Reads, AtRest, RunsHavePages
  <2>4. reads' \in [Readers -> Reads] /\ RunsHavePages'
    BY <1>0, <2>1, <2>2, <2>3
  <2> QED
    BY <1>2, <2>4 DEF ReadPage
<1>3. ASSUME NEW r \in Readers, OpenFile(r) PROVE SnapshotsType' /\ RunsHavePages'
  BY <1>3 DEF OpenFile, Goes
<1>4. ASSUME NEW r \in Readers, FinishFile(r) PROVE SnapshotsType' /\ RunsHavePages'
  BY <1>4 DEF FinishFile, Goes
<1>5. ASSUME NEW r \in Readers, RenameFile(r) PROVE SnapshotsType' /\ RunsHavePages'
  BY <1>5 DEF RenameFile, Goes
<1>6. ASSUME NEW r \in Readers, RenameFails(r) \/ FileRowFails(r) \/ RollBack(r)
      PROVE  SnapshotsType' /\ RunsHavePages'
  <2>1. AtRest \in Reads /\ AtRest.step = "rest"
    OBVIOUS
  <2>2. reads' = [reads EXCEPT ![r] = AtRest]
    BY <1>6 DEF RenameFails, FileRowFails, RollBack, Ends
  <2> HIDE DEF Reads, AtRest, RunsHavePages
  <2>3. CASE RenameFails(r)
    BY <1>0, <2>1, <2>2, <2>3 DEF RenameFails
  <2>4. CASE FileRowFails(r)
    BY <1>0, <2>1, <2>2, <2>4 DEF FileRowFails
  <2>5. CASE RollBack(r)
    BY <1>0, <2>1, <2>2, <2>5 DEF RollBack
  <2> QED
    BY <1>6, <2>3, <2>4, <2>5
<1>7. ASSUME NEW r \in Readers, LookUpRow(r) PROVE SnapshotsType' /\ RunsHavePages'
  BY <1>7 DEF LookUpRow, Goes
<1>8. ASSUME NEW r \in Readers, FileRow(r) PROVE SnapshotsType' /\ RunsHavePages'
  <2> DEFINE row == [reads[r] EXCEPT !.step = "find", !.files = TRUE]
  <2>1. reads[r] \in Reads /\ reads[r].page \in Pages
    BY <1>8 DEF FileRow
  <2>2. row \in Reads /\ row.step = "find" /\ row.page = reads[r].page
    BY <2>1
  <2>3. reads' = [reads EXCEPT ![r] = row]
    BY <1>8 DEF FileRow
  <2> HIDE DEF row, Reads, AtRest, RunsHavePages
  <2>4. reads' \in [Readers -> Reads] /\ RunsHavePages'
    BY <1>0, <2>1, <2>2, <2>3
  <2> QED
    BY <1>8, <2>4 DEF FileRow
<1>9. ASSUME NEW r \in Readers, FindItem(r) PROVE SnapshotsType' /\ RunsHavePages'
  <2> DEFINE row == [reads[r] EXCEPT !.step = "commit", !.creates = (items = {})]
  <2>1. row \in Reads /\ row.step = "commit" /\ row.page = reads[r].page
    <3>1. (items = {}) \in BOOLEAN
      OBVIOUS
    <3>2. \A run \in Reads, b \in BOOLEAN :
            LET to == [run EXCEPT !.step = "commit", !.creates = b]
            IN  to \in Reads /\ to.step = "commit" /\ to.page = run.page
      OBVIOUS
    <3>3. reads[r] \in Reads
      OBVIOUS
    <3> HIDE DEF Reads
    <3> QED
      BY <3>1, <3>2, <3>3, Zenon
  <2>2. reads' = [reads EXCEPT ![r] = row] /\ reads[r].page \in Pages
    BY <1>9 DEF FindItem
  <2> HIDE DEF row, Reads, AtRest, RunsHavePages
  <2> QED
    BY <1>0, <1>9, <2>1, <2>2 DEF FindItem
<1>10. ASSUME NEW r \in Readers, CommitRead(r) PROVE SnapshotsType' /\ RunsHavePages'
  BY <1>10 DEF CommitRead, Ends
<1>11. ASSUME NEW r \in Readers, Dies(r) PROVE SnapshotsType' /\ RunsHavePages'
  BY <1>11 DEF Dies, Ends
<1>12. CASE PurgeItems
  BY <1>12 DEF PurgeItems
<1> QED
  BY <1>1, <1>2, <1>3, <1>4, <1>5, <1>6, <1>7, <1>8, <1>9, <1>10, <1>11, <1>12
    DEF SnapshotsNext

\* The steps of a run that has nothing to do with files, and of a purge.
Shelved(r) ==
  \/ LookUpRow(r) \/ FileRow(r) \/ FileRowFails(r) \/ FindItem(r) \/ CommitRead(r) \/ RollBack(r)

\* They leave the files and who is at work on them as they are.
LEMMA ShelvedSteps ==
  ASSUME SnapshotsType, RunsHavePages, NEW r \in Readers, Shelved(r)
  PROVE  /\ UNCHANGED <<tmp, blob, contested, deaths>>
         /\ reads[r].step \in {"look", "file", "find", "commit"}
         /\ \A q \in Readers \ {r} : reads'[q] = reads[q]
         /\ reads'[r].step \notin {"open", "write", "rename"}
         /\ reads'[r].step # "rest" => reads'[r].page = reads[r].page
         /\ filed' \subseteq filed \cup {reads[r].page} /\ filed \subseteq filed'
<1> USE DEF SnapshotsType
<1>1. CASE LookUpRow(r)
  BY <1>1 DEF LookUpRow, Goes, Reads
<1>2. CASE FileRow(r)
  BY <1>2 DEF FileRow, Reads
<1>3. CASE FileRowFails(r) \/ RollBack(r)
  BY <1>3 DEF FileRowFails, RollBack, Ends, AtRest
<1>4. CASE FindItem(r)
  BY <1>4 DEF FindItem, Reads
<1>5. CASE CommitRead(r)
  BY <1>5 DEF CommitRead, Ends, AtRest
<1> QED
  BY <1>1, <1>2, <1>3, <1>4, <1>5 DEF Shelved

\* Nothing of a file is lost but by a death, and only a contested one is found unfinished.
LEMMA FileStep ==
  ASSUME SnapshotsType, RunsHavePages, FileInv, [SnapshotsNext]_snapshotVars
  PROVE  FileInv'
<1> USE DEF FileInv
<1>1. CASE UNCHANGED snapshotVars
  BY <1>1 DEF snapshotVars, WritersMeet, UnfinishedFiles, LookedUpIsThere, At, Writes
<1>2. ASSUME NEW r \in Readers, NEW page \in Pages, ReadPage(r, page) PROVE FileInv'
  <2>1. /\ UNCHANGED <<tmp, blob, filed, contested, deaths>>
        /\ reads'[r].page = page /\ reads'[r].step = IF blob[page] = "none" THEN "open" ELSE "look"
        /\ \A q \in Readers \ {r} : reads'[q] = reads[q]
        /\ reads[r].step = "rest"
    BY <1>2 DEF ReadPage, AtRest, SnapshotsType
  <2>2. WritersMeet'
    BY <2>1 DEF WritersMeet, At, Writes
  <2>3. UnfinishedFiles'
    BY <2>1 DEF UnfinishedFiles, At
  <2>4. LookedUpIsThere'
    BY <2>1 DEF LookedUpIsThere
  <2> QED
    BY <2>2, <2>3, <2>4
<1>3. ASSUME NEW r \in Readers, OpenFile(r) PROVE FileInv'
  <2> DEFINE page == reads[r].page
  <2>1. /\ page \in Pages /\ reads[r].step = "open"
        /\ reads'[r].page = page /\ reads'[r].step = "write"
        /\ \A q \in Readers \ {r} : reads'[q] = reads[q]
        /\ UNCHANGED <<blob, filed, deaths>>
    BY <1>3 DEF OpenFile, Goes, SnapshotsType, Reads, RunsHavePages
  <2>2. tmp'[page] = r /\ \A p \in Pages \ {page} : tmp'[p] = tmp[p]
    BY <1>3, <2>1 DEF OpenFile, SnapshotsType
  <2>3. /\ contested \subseteq contested'
        /\ page \notin contested' => \A q \in Readers \ {r} : ~ Writes(q, page)
    BY <1>3 DEF OpenFile
  <2> HIDE DEF page
  <2>4. WritersMeet'
    BY <2>1, <2>2, <2>3 DEF WritersMeet, At, Writes
  <2>5. UnfinishedFiles'
    BY <2>1, <2>2, <2>3 DEF UnfinishedFiles, At
  <2>6. LookedUpIsThere'
    BY <2>1 DEF LookedUpIsThere
  <2> QED
    BY <2>4, <2>5, <2>6
<1>4. ASSUME NEW r \in Readers, FinishFile(r) PROVE FileInv'
  <2> DEFINE page == reads[r].page
  <2>1. /\ page \in Pages /\ reads[r].step = "write"
        /\ reads'[r].page = page /\ reads'[r].step = "rename"
        /\ \A q \in Readers \ {r} : reads'[q] = reads[q]
        /\ UNCHANGED <<filed, contested, deaths>>
    BY <1>4 DEF FinishFile, Goes, SnapshotsType, Reads, RunsHavePages
  <2>2. /\ \A p \in Pages \ {page} : tmp'[p] = tmp[p] /\ blob'[p] = blob[p]
        /\ tmp'[page] = IF tmp[page] = r THEN "whole" ELSE tmp[page]
        /\ blob'[page] = IF blob[page] = r THEN "whole" ELSE blob[page]
    BY <1>4, <2>1 DEF FinishFile, SnapshotsType
  <2>3. "whole" \notin Readers /\ "none" \notin Readers
    BY SnapshotsAssumption
  <2> HIDE DEF page
  <2>4. WritersMeet'
    <3> SUFFICES ASSUME NEW p \in Pages, p \notin contested, NEW q \in Readers
                 PROVE  /\ \A s \in Readers \ {q} : ~ (Writes(q, p)' /\ Writes(s, p)')
                        /\ At(q, p, "write")' => tmp'[p] = q
                        /\ At(q, p, "rename")' => tmp'[p] = "whole"
      BY <2>1 DEF WritersMeet, Writes
    <3>1. CASE p # page
      BY <2>1, <2>2, <3>1 DEF WritersMeet, At, Writes
    <3>2. CASE p = page
      <4>1. Writes(r, page)
        BY <2>1 DEF Writes, page
      <4>2. \A s \in Readers \ {r} : ~ Writes(s, page)
        BY <3>2, <4>1 DEF WritersMeet
      <4>3. \A s \in Readers \ {r} : ~ Writes(s, p)'
        BY <2>1, <3>2, <4>2 DEF Writes
      <4>4. tmp[page] = r
        BY <2>1, <3>2 DEF WritersMeet, At, page
      <4> QED
        BY <2>1, <2>2, <2>3, <3>2, <4>3, <4>4 DEF At, Writes
    <3> QED
      BY <3>1, <3>2
  <2>5. UnfinishedFiles'
    <3> SUFFICES ASSUME NEW p \in Pages, NEW q \in Readers
                 PROVE  /\ tmp'[p] = q => At(q, p, "write")' \/ deaths > 0
                        /\ blob'[p] = q =>
                             p \in contested /\ (At(q, p, "write")' \/ deaths > 0)
      BY <2>1 DEF UnfinishedFiles, At
    <3>1. /\ tmp[p] = q => At(q, p, "write") \/ deaths > 0
          /\ blob[p] = q => p \in contested /\ (At(q, p, "write") \/ deaths > 0)
      BY DEF UnfinishedFiles
    <3>2. CASE q # r
      BY <2>1, <2>2, <2>3, <3>1, <3>2 DEF At
    <3>3. CASE q = r /\ p # page
      BY <2>1, <2>2, <3>1, <3>3 DEF At, page
    <3>4. CASE q = r /\ p = page
      BY <2>2, <2>3, <3>4
    <3> QED
      BY <3>2, <3>3, <3>4
  <2>6. LookedUpIsThere'
    BY <2>1, <2>2, <2>3 DEF LookedUpIsThere, RunsHavePages, SnapshotsType
  <2> QED
    BY <2>4, <2>5, <2>6
<1>5. ASSUME NEW r \in Readers, RenameFile(r) PROVE FileInv'
  <2> DEFINE page == reads[r].page
  <2>1. /\ page \in Pages /\ reads[r].step = "rename"
        /\ reads'[r].page = page /\ reads'[r].step = "look"
        /\ \A q \in Readers \ {r} : reads'[q] = reads[q]
        /\ tmp[page] # "none"
        /\ UNCHANGED <<filed, contested, deaths>>
    BY <1>5 DEF RenameFile, Goes, SnapshotsType, Reads, RunsHavePages
  <2>2. /\ \A p \in Pages \ {page} : tmp'[p] = tmp[p] /\ blob'[p] = blob[p]
        /\ tmp'[page] = "none" /\ blob'[page] = tmp[page]
    BY <1>5, <2>1 DEF RenameFile, SnapshotsType
  <2>3. "whole" \notin Readers /\ "none" \notin Readers
    BY SnapshotsAssumption
  <2> HIDE DEF page
  <2>4. WritersMeet'
    <3> SUFFICES ASSUME NEW p \in Pages, p \notin contested, NEW q \in Readers
                 PROVE  /\ \A s \in Readers \ {q} : ~ (Writes(q, p)' /\ Writes(s, p)')
                        /\ At(q, p, "write")' => tmp'[p] = q
                        /\ At(q, p, "rename")' => tmp'[p] = "whole"
      BY <2>1 DEF WritersMeet, Writes
    <3>1. CASE p # page
      BY <2>1, <2>2, <3>1 DEF WritersMeet, At, Writes
    <3>2. CASE p = page
      <4>1. Writes(r, page)
        BY <2>1 DEF Writes, page
      <4>2. \A s \in Readers \ {r} : ~ Writes(s, page)
        BY <3>2, <4>1 DEF WritersMeet
      <4>3. \A s \in Readers \ {r} : ~ Writes(s, p)'
        BY <2>1, <3>2, <4>2 DEF Writes
      <4> QED
        BY <2>1, <2>2, <2>3, <3>2, <4>3 DEF At, Writes
    <3> QED
      BY <3>1, <3>2
  <2>5. UnfinishedFiles'
    <3> SUFFICES ASSUME NEW p \in Pages, NEW q \in Readers
                 PROVE  /\ tmp'[p] = q => At(q, p, "write")' \/ deaths > 0
                        /\ blob'[p] = q =>
                             p \in contested /\ (At(q, p, "write")' \/ deaths > 0)
      BY <2>1 DEF UnfinishedFiles, At
    <3>1. /\ tmp[p] = q => At(q, p, "write") \/ deaths > 0
          /\ blob[p] = q => p \in contested /\ (At(q, p, "write") \/ deaths > 0)
      BY DEF UnfinishedFiles
    <3>2. At(q, p, "write") => At(q, p, "write")'
      BY <2>1 DEF At
    <3>3. CASE p # page
      BY <2>2, <3>1, <3>2, <3>3
    <3>4. CASE p = page
      <4>1. page \notin contested => tmp[page] = "whole"
        BY <2>1 DEF WritersMeet, At, page
      <4> QED
        BY <2>2, <2>3, <3>1, <3>2, <3>4, <4>1
    <3> QED
      BY <3>3, <3>4
  <2>6. LookedUpIsThere'
    BY <2>1, <2>2, <2>3 DEF LookedUpIsThere, RunsHavePages, SnapshotsType
  <2> QED
    BY <2>4, <2>5, <2>6
<1>6. ASSUME NEW r \in Readers, RenameFails(r) \/ Dies(r) PROVE FileInv'
  <2>1. /\ UNCHANGED <<tmp, blob, filed, contested>>
        /\ reads'[r].step = "rest"
        /\ \A q \in Readers \ {r} : reads'[q] = reads[q]
        /\ deaths > 0 => deaths' > 0
        /\ reads[r].step = "rename" \/ deaths' > 0
    BY <1>6 DEF RenameFails, Dies, Ends, AtRest, SnapshotsType
  <2>2. WritersMeet'
    BY <2>1 DEF WritersMeet, At, Writes
  <2>3. UnfinishedFiles'
    BY <2>1 DEF UnfinishedFiles, At
  <2>4. LookedUpIsThere'
    BY <2>1 DEF LookedUpIsThere
  <2> QED
    BY <2>2, <2>3, <2>4
<1>7. ASSUME NEW r \in Readers, Shelved(r) PROVE FileInv'
  <2>1. /\ UNCHANGED <<tmp, blob, contested, deaths>>
        /\ reads[r].step \in {"look", "file", "find", "commit"}
        /\ \A q \in Readers \ {r} : reads'[q] = reads[q]
        /\ reads'[r].step \notin {"open", "write", "rename"}
        /\ reads'[r].step # "rest" => reads'[r].page = reads[r].page
        /\ filed' \subseteq filed \cup {reads[r].page}
    BY <1>7, ShelvedSteps
  <2>2. WritersMeet'
    BY <2>1 DEF WritersMeet, At, Writes
  <2>3. UnfinishedFiles'
    BY <2>1 DEF UnfinishedFiles, At
  <2>4. LookedUpIsThere'
    BY <2>1 DEF LookedUpIsThere
  <2> QED
    BY <2>2, <2>3, <2>4
<1>8. CASE PurgeItems
  BY <1>8 DEF PurgeItems, WritersMeet, UnfinishedFiles, LookedUpIsThere, At, Writes
<1> QED
  BY <1>1, <1>2, <1>3, <1>4, <1>5, <1>6, <1>7, <1>8 DEF SnapshotsNext, Shelved

\* A digest that one run files no other does, though each looks before it inserts.
LEMMA FiledOnceStep ==
  ASSUME SnapshotsType, RunsHavePages, FiledOnce, [SnapshotsNext]_snapshotVars
  PROVE  FiledOnce'
<1>1. CASE UNCHANGED snapshotVars
  BY <1>1 DEF snapshotVars, FiledOnce
\* A run that goes on before it has filed anything, or ends.
<1>2. ASSUME NEW r \in Readers, filed' = filed, ~ reads'[r].files, ~ reads'[r].creates,
             \A q \in Readers \ {r} : reads'[q] = reads[q],
             reads'[r].step \in {"find", "commit"} => reads'[r].page \in filed
      PROVE  FiledOnce'
  BY <1>2 DEF FiledOnce
<1>3. ASSUME NEW r \in Readers,
             \/ \E page \in Pages : ReadPage(r, page)
             \/ OpenFile(r) \/ FinishFile(r) \/ RenameFile(r) \/ LookUpRow(r)
             \/ RenameFails(r) \/ FileRowFails(r) \/ RollBack(r) \/ Dies(r)
      PROVE  FiledOnce'
  <2>1. /\ filed' = filed /\ \A q \in Readers \ {r} : reads'[q] = reads[q]
        /\ ~ reads'[r].files /\ ~ reads'[r].creates
        /\ reads'[r].step \in {"find", "commit"} => reads'[r].page \in filed
    <3>1. CASE \E page \in Pages : ReadPage(r, page)
      BY <3>1 DEF ReadPage, AtRest, SnapshotsType
    <3>2. CASE RenameFails(r) \/ FileRowFails(r) \/ RollBack(r) \/ Dies(r)
      BY <3>2 DEF RenameFails, FileRowFails, RollBack, Dies, Ends, AtRest, SnapshotsType
    <3>3. CASE OpenFile(r) \/ FinishFile(r) \/ RenameFile(r)
      BY <3>3 DEF OpenFile, FinishFile, RenameFile, Goes, SnapshotsType, Reads, FiledOnce
    <3>4. CASE LookUpRow(r)
      BY <3>4 DEF LookUpRow, Goes, SnapshotsType, Reads, FiledOnce
    <3> QED
      BY <1>3, <3>1, <3>2, <3>3, <3>4
  <2> QED
    BY <1>2, <2>1
<1>4. ASSUME NEW r \in Readers, FileRow(r) PROVE FiledOnce'
  <2>1. /\ filed' = filed /\ \A q \in Readers \ {r} : reads'[q] = reads[q]
        /\ reads'[r].step = "find" /\ reads'[r].files
        /\ reads'[r].page = reads[r].page /\ reads[r].page \notin filed
        /\ \A q \in Readers \ {r} : ~ (reads[q].files /\ reads[q].page = reads[r].page)
        /\ ~ reads'[r].creates
    BY <1>4 DEF FileRow, SnapshotsType, Reads, FiledOnce
  <2> QED
    BY <2>1 DEF FiledOnce
<1>5. ASSUME NEW r \in Readers, FindItem(r) PROVE FiledOnce'
  <2>1. /\ filed' = filed /\ \A q \in Readers \ {r} : reads'[q] = reads[q]
        /\ reads[r].step = "find" /\ reads'[r].step = "commit" /\ reads'[r].page = reads[r].page
        /\ reads'[r].files <=> reads[r].files
    BY <1>5 DEF FindItem, SnapshotsType, Reads
  <2> QED
    BY <2>1 DEF FiledOnce
<1>6. ASSUME NEW r \in Readers, CommitRead(r) PROVE FiledOnce'
  <2>1. /\ filed' = IF reads[r].files THEN filed \cup {reads[r].page} ELSE filed
        /\ \A q \in Readers \ {r} : reads'[q] = reads[q]
        /\ reads'[r].step = "rest" /\ ~ reads'[r].files /\ ~ reads'[r].creates
    BY <1>6 DEF CommitRead, Ends, AtRest, SnapshotsType
  <2> QED
    BY <2>1 DEF FiledOnce
<1>7. CASE PurgeItems
  BY <1>7 DEF PurgeItems, FiledOnce
<1> QED
  BY <1>1, <1>3, <1>4, <1>5, <1>6, <1>7 DEF SnapshotsNext

\* A row is created for the first page that is filed, and never again for that page.
LEMMA RowsStep ==
  ASSUME SnapshotsType, RunsHavePages, FiledOnce, RowsComeFromPages,
         [SnapshotsNext]_snapshotVars
  PROVE  RowsComeFromPages'
<1> SUFFICES ASSUME ~ purged'
             PROVE  RowsComeFromPages'
  BY DEF RowsComeFromPages
<1>1. CASE UNCHANGED snapshotVars
  BY <1>1 DEF snapshotVars, RowsComeFromPages
<1>2. ASSUME NEW r \in Readers, UNCHANGED <<filed, items, purged>>,
             \A q \in Readers \ {r} : reads'[q] = reads[q], reads'[r].step # "commit"
      PROVE  RowsComeFromPages'
  BY <1>2 DEF RowsComeFromPages
<1>3. ASSUME NEW r \in Readers,
             \/ \E page \in Pages : ReadPage(r, page)
             \/ OpenFile(r) \/ FinishFile(r) \/ RenameFile(r) \/ LookUpRow(r) \/ FileRow(r)
             \/ RenameFails(r) \/ FileRowFails(r) \/ RollBack(r) \/ Dies(r)
      PROVE  RowsComeFromPages'
  <2>1. /\ UNCHANGED <<filed, items, purged>> /\ \A q \in Readers \ {r} : reads'[q] = reads[q]
        /\ reads'[r].step # "commit"
    <3>1. CASE \E page \in Pages : ReadPage(r, page)
      BY <3>1 DEF ReadPage, AtRest, SnapshotsType
    <3>2. CASE RenameFails(r) \/ FileRowFails(r) \/ RollBack(r) \/ Dies(r)
      BY <3>2 DEF RenameFails, FileRowFails, RollBack, Dies, Ends, AtRest, SnapshotsType
    <3>3. CASE OpenFile(r) \/ FinishFile(r) \/ RenameFile(r)
      BY <3>3 DEF OpenFile, FinishFile, RenameFile, Goes, SnapshotsType, Reads
    <3>4. CASE LookUpRow(r) \/ FileRow(r)
      BY <3>4 DEF LookUpRow, FileRow, Goes, SnapshotsType, Reads
    <3> QED
      BY <1>3, <3>1, <3>2, <3>3, <3>4
  <2> QED
    BY <1>2, <2>1
<1>4. ASSUME NEW r \in Readers, FindItem(r) PROVE RowsComeFromPages'
  <2>1. /\ UNCHANGED <<filed, items, purged>> /\ \A q \in Readers \ {r} : reads'[q] = reads[q]
        /\ reads[r].step = "find" /\ (reads'[r].files <=> reads[r].files)
        /\ reads'[r].creates <=> items = {}
    BY <1>4 DEF FindItem, SnapshotsType, Reads
  <2>2. items = {} => reads[r].files
    BY <2>1 DEF RowsComeFromPages, FiledOnce
  <2> QED
    BY <2>1, <2>2 DEF RowsComeFromPages
<1>5. ASSUME NEW r \in Readers, CommitRead(r) PROVE RowsComeFromPages'
  <2> DEFINE new == [page |-> reads[r].page, by |-> begun, at |-> r]
  <2>1. /\ filed' = IF reads[r].files THEN filed \cup {reads[r].page} ELSE filed
        /\ items' = IF reads[r].creates THEN items \cup {new} ELSE items
        /\ purged' = purged /\ \A q \in Readers \ {r} : reads'[q] = reads[q]
        /\ reads[r].step = "commit" /\ reads'[r].step = "rest"
    BY <1>5 DEF CommitRead, Ends, AtRest, SnapshotsType
  <2>2. new.page = reads[r].page
    OBVIOUS
  <2> HIDE DEF new
  <2>3. /\ reads[r].creates => reads[r].files
        /\ reads[r].files => reads[r].creates \/ items # {}
        /\ filed # {} => items # {}
    BY <2>1 DEF RowsComeFromPages
  <2>4. filed' # {} => items' # {}
    BY <2>1, <2>3
  <2>5. \A i \in items' : i.page \in filed'
    BY <2>1, <2>2, <2>3 DEF RowsComeFromPages
  <2>6. reads[r].creates => \A i \in items : i.page # reads[r].page
    BY <2>1, <2>3 DEF RowsComeFromPages, FiledOnce
  <2>7. \A i, j \in items' : i.page = j.page => i = j
    BY <2>1, <2>2, <2>6 DEF RowsComeFromPages
  <2>8. \A q \in Readers : reads'[q].step = "commit" =>
          /\ reads'[q].creates => reads'[q].files
          /\ reads'[q].files => reads'[q].creates \/ items' # {}
    BY <2>1 DEF RowsComeFromPages
  <2> QED
    BY <2>4, <2>5, <2>7, <2>8 DEF RowsComeFromPages
<1>6. CASE PurgeItems
  BY <1>6 DEF PurgeItems
<1> QED
  BY <1>1, <1>3, <1>4, <1>5, <1>6 DEF SnapshotsNext
-------------------------------------------------------------------------------
\* A step of the services is one of the store, or leaves it as it is.
LEMMA SnapshotsRun ==
  [ServicesNext]_allVars => [SnapshotsNext]_snapshotVars
BY DEF ServicesNext, RunBoot, RunSignIn, RunTenancy, RunSnapshots, allVars, snapshotVars

\* The invariant of the page store holds whatever the other services do.
LEMMA SnapshotsInvariant == ServicesSpec => []SnapshotsInv
<1>1. ServicesInit => SnapshotsInv
  <2> SUFFICES ASSUME SnapshotsInit PROVE SnapshotsInv
    BY DEF ServicesInit
  <2>1. SnapshotsType
    BY DEF SnapshotsInit, SnapshotsType, Reads, Files, Steps, AtRest
  <2>2. RunsHavePages
    BY DEF SnapshotsInit, RunsHavePages, AtRest
  <2>3. FileInv
    BY SnapshotsAssumption
      DEF SnapshotsInit, FileInv, WritersMeet, UnfinishedFiles, LookedUpIsThere, At, Writes, AtRest
  <2>4. FiledOnce /\ RowsComeFromPages
    BY DEF SnapshotsInit, FiledOnce, RowsComeFromPages, AtRest
  <2> QED
    BY <2>1, <2>2, <2>3, <2>4 DEF SnapshotsInv
<1>2. SnapshotsInv /\ [ServicesNext]_allVars => SnapshotsInv'
  BY SnapshotsRun, SnapshotsTypeStep, FileStep, FiledOnceStep, RowsStep DEF SnapshotsInv
<1> QED
  BY <1>1, <1>2, PTL DEF ServicesSpec

\* Every page on file has its content or is just getting it, unless a run died while
\* another was at the same file.
THEOREM FiledPagesAreStored == ServicesSpec => []FiledIsStored
<1>1. SnapshotsInv => FiledIsStored
  <2> SUFFICES ASSUME SnapshotsInv, NEW page \in filed, blob[page] # "whole"
               PROVE  \/ \E r \in Readers : blob[page] = r /\ Writes(r, page)
                      \/ page \in contested /\ deaths > 0
    BY DEF FiledIsStored
  <2>1. page \in Pages /\ blob[page] \in Readers
    BY DEF SnapshotsInv, SnapshotsType, FileInv, LookedUpIsThere, Files
  <2>2. page \in contested /\ (At(blob[page], page, "write") \/ deaths > 0)
    BY <2>1 DEF SnapshotsInv, FileInv, UnfinishedFiles
  <2> QED
    BY <2>1, <2>2 DEF At, Writes
<1> QED
  BY <1>1, SnapshotsInvariant, PTL

\* Overlapping runs make a second row of a document only from different pages, as long as
\* the document was not purged: one page is filed once, and the row comes with it.
THEOREM OnePageOneRow == ServicesSpec => []TwinsComeFromTwoPages
<1>1. SnapshotsInv => TwinsComeFromTwoPages
  BY DEF SnapshotsInv, RowsComeFromPages, TwinsComeFromTwoPages
<1> QED
  BY <1>1, SnapshotsInvariant, PTL
===============================================================================
