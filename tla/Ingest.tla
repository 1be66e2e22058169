------------------------------- MODULE Ingest -------------------------------
(***************************************************************************)
(* Uploads of one organisation (ingest_org in backend/app/ingest/loader.py *)
(* and the inserts of db/repo.py).  An upload reads its files, then writes *)
(* them in one READ COMMITTED transaction, one INSERT ... ON CONFLICT DO   *)
(* NOTHING per row.  Such an insert skips a key that is stored, and waits  *)
(* while another transaction that has not ended holds it.                  *)
(*                                                                         *)
(* A row of a table is <<key, value>>, a key is <<table, id>>.             *)
(***************************************************************************)
EXTENDS CsvAdapter, SequencesExt

CONSTANTS
  Uploads,
  Org,      \* the organisation the session belongs to
  Files     \* what an upload may send: [report, upstream]

IsASequence(s) == s \in Seq(Range(s))

(* Files are read row by row, and a row's photos cell is split into a list.  No pod has
   the name of one of the other tables. *)
ASSUME FilesAssumption ==
  /\ IsASequence(Pods) /\ Range(Pods) \cap {"ingest_files", "charges", "attachments"} = {}
  /\ \A f \in Files :
       /\ IsASequence(f.report)
       /\ \A pod \in Range(Pods) :
            /\ IsASequence(f.upstream[pod])
            /\ \A row \in Range(f.upstream[pod]) : IsASequence(row.photos)

VARIABLES
  files,       \* upload -> its files
  pc,          \* sent, writing, done, refused (nothing was written) or aborted
  next,        \* upload -> its next INSERT
  pending,     \* upload -> the rows its transaction has inserted
  stored,      \* the committed rows of ingest_files, charges, records, attachments
  quarantined  \* the committed rows of quarantined_rows: <<upload, <<table, row number>> >>

vars == <<files, pc, next, pending, stored, quarantined>>

-----------------------------------------------------------------------------
(* What an upload writes. *)

(* The numbers in S of the organisation's own rows, in the order of the file. *)
OfOrg(rows, S) ==
  LET own == {n \in S : rows[n].org = Org}
  IN  [i \in 1..Cardinality(own) |->
         CHOOSE n \in own : Cardinality({m \in own : m < n}) = i - 1]

(* upsert_ingest_file: the hash of a file stands for its contents. *)
FileRow(rows) == << <<"ingest_files", rows>>, "file" >>

ChargeRow(row) == << <<"charges", row.id>>, [body |-> BuildCharge(row), source |-> row] >>

RecordRow(pod, rows, n) ==
  << <<pod, rows[n].id>>, [body |-> BuildRecord(pod, rows[n]), source |-> SourceOf(pod, rows, n)] >>

AttachmentRow(pod, id, photo) == << <<"attachments", <<pod, id, photo>> >>, "attachment" >>

ChargeInserts(f) ==
  LET kept == OfOrg(f.report, Charges(f.report))
  IN  <<FileRow(f.report)>> \o [i \in DOMAIN kept |-> ChargeRow(f.report[kept[i]])]

KeptRecords(f, pod) == OfOrg(f.upstream[pod], Records(pod, f.upstream[pod]))

RecordInserts(f, pod) ==
  LET rows == f.upstream[pod]  kept == KeptRecords(f, pod)
  IN  <<FileRow(rows)>> \o [i \in DOMAIN kept |-> RecordRow(pod, rows, kept[i])]

(* Slip: a record's first photo only. *)
FirstAttachmentInserts(f, pod) ==
  LET rows == f.upstream[pod]  kept == SelectSeq(KeptRecords(f, pod), LAMBDA n : rows[n].photos # << >>)
  IN  [i \in DOMAIN kept |-> AttachmentRow(pod, rows[kept[i]].id, rows[kept[i]].photos[1])]

AttachmentInserts(f, pod) ==
  LET rows == f.upstream[pod]  kept == KeptRecords(f, pod)
  IN  FlattenSeq([i \in DOMAIN kept |->
        LET r == rows[kept[i]]
        IN  [j \in DOMAIN r.photos |-> AttachmentRow(pod, r.id, r.photos[j])]])

OverPods(inserts) == FlattenSeq([i \in DOMAIN Pods |-> inserts[Pods[i]]])

(* The statements of the transaction in their order, quarantined rows apart. *)
Inserts(f) ==
  ChargeInserts(f) \o OverPods([pod \in Range(Pods) |-> RecordInserts(f, pod)])
                   \o OverPods([pod \in Range(Pods) |-> AttachmentInserts(f, pod)])

(* A bad row is kept for the organisation it names, or if it names none. *)
OwnBad(table, rows, S) == {<<table, n>> : n \in {m \in S : rows[m].org \in {Blank, Org}}}

BadRows(f) ==
  OwnBad("charges", f.report, BadCharges(f.report))
    \cup UNION {OwnBad(pod, f.upstream[pod], BadRecords(pod, f.upstream[pod])) : pod \in Range(Pods)}

LoadFails(f) ==
  ReportFails(f.report) \/ \E pod \in Range(Pods) : UpstreamFails(pod, f.upstream[pod])

(* What a sequence of INSERTs brings under each key first. *)
FirstOf(rows) ==
  {rows[i] : i \in {j \in DOMAIN rows : \A k \in 1..(j - 1) : rows[k][1] # rows[j][1]}}

(* One entry per set of files, so that it is worked out once. *)
Plan ==
  [f \in Files |-> [inserts |-> Inserts(f), bad |-> BadRows(f), fails |-> LoadFails(f),
                    brings |-> [rows |-> FirstOf(Inserts(f)), bad |-> BadRows(f)]]]

Sent(u) == Plan[files[u]]

Rows(u) == Range(Sent(u).inserts)

-----------------------------------------------------------------------------
(* The transaction. *)

Init ==
  /\ files \in [Uploads -> Files]
  /\ pc = [u \in Uploads |-> "sent"]
  /\ next = [u \in Uploads |-> 1]
  /\ pending = [u \in Uploads |-> {}]
  /\ stored = {} /\ quarantined = {}

HasKey(rows, key) == \E r \in rows : r[1] = key

AtInsert(u) == pc[u] = "writing" /\ next[u] <= Len(Sent(u).inserts)

Current(u) == Sent(u).inserts[next[u]]

(* The upload whose uncommitted row u's INSERT has to wait for. *)
WaitsFor(u) == {v \in Uploads \ {u} : AtInsert(u) /\ HasKey(pending[v], Current(u)[1])}

(* Files are read before the transaction begins. *)
Load(u) ==
  /\ pc[u] = "sent"
  /\ pc' = [pc EXCEPT ![u] = IF Sent(u).fails THEN "refused" ELSE "writing"]
  /\ UNCHANGED <<files, next, pending, stored, quarantined>>

(* Slip: the INSERT does not wait for a row it cannot see. *)
InsertAtOnce(u) ==
  /\ AtInsert(u)
  /\ next' = [next EXCEPT ![u] = @ + 1]
  /\ pending' = [pending EXCEPT ![u] =
                   IF HasKey(stored \cup @, Current(u)[1]) THEN @ ELSE @ \cup {Current(u)}]
  /\ UNCHANGED <<files, pc, stored, quarantined>>

Insert(u) ==
  /\ AtInsert(u)
  /\ WaitsFor(u) = {}
  /\ next' = [next EXCEPT ![u] = @ + 1]
  /\ pending' = [pending EXCEPT ![u] =
                   IF HasKey(stored \cup @, Current(u)[1]) THEN @ ELSE @ \cup {Current(u)}]
  /\ UNCHANGED <<files, pc, stored, quarantined>>

Commit(u) ==
  /\ pc[u] = "writing" /\ next[u] > Len(Sent(u).inserts)
  /\ pc' = [pc EXCEPT ![u] = "done"]
  /\ stored' = stored \cup pending[u]
  /\ pending' = [pending EXCEPT ![u] = {}]
  /\ quarantined' = quarantined \cup ({u} \X Sent(u).bad)
  /\ UNCHANGED <<files, next>>

(* Slip: the rows of a transaction that failed stay in the way of others. *)
RollBackKeepingRows(u) ==
  /\ pc' = [pc EXCEPT ![u] = "aborted"]
  /\ UNCHANGED <<files, next, pending, stored, quarantined>>

RollBack(u) ==
  /\ pc' = [pc EXCEPT ![u] = "aborted"]
  /\ pending' = [pending EXCEPT ![u] = {}]
  /\ UNCHANGED <<files, next, stored, quarantined>>

(* The process dies, or the database fails. *)
Abort(u) == pc[u] = "writing" /\ RollBack(u)

(* u waits in a circle: every member of S waits for one of S and is waited for. *)
InCircle(u) ==
  \E S \in SUBSET Uploads :
    /\ u \in S
    /\ \A v \in S : WaitsFor(v) \cap S # {} /\ \E w \in S : v \in WaitsFor(w)

(* Postgres's deadlock detector fails one INSERT of the circle. *)
BreakDeadlock(u) == pc[u] = "writing" /\ InCircle(u) /\ RollBack(u)

Serve(u) == Load(u) \/ Insert(u) \/ Commit(u) \/ BreakDeadlock(u)

Next == \E u \in Uploads : Serve(u) \/ Abort(u)

Spec == Init /\ [][Next]_vars

FairSpec == Spec /\ \A u \in Uploads : WF_vars(Serve(u))

-----------------------------------------------------------------------------
(* Types. *)

States == {"sent", "writing", "done", "refused", "aborted"}

AllRows == UNION {Range(Plan[f].inserts) : f \in Files}

AllBad == UNION {Plan[f].bad : f \in Files}

(* What an upload holds is among what it sent; a stored row came from an upload
   that is done. *)
TypeOK ==
  /\ files \in [Uploads -> Files]
  /\ pc \in [Uploads -> States]
  /\ next \in [Uploads -> Nat]
  /\ pending \in [Uploads -> SUBSET AllRows]
  /\ quarantined \subseteq Uploads \X AllBad
  /\ \A u \in Uploads :
       /\ next[u] \in 1..(Len(Sent(u).inserts) + 1)
       /\ pending[u] \subseteq Rows(u)
       /\ pc[u] # "writing" => pending[u] = {}
  /\ \A r \in stored : \E u \in Uploads : pc[u] = "done" /\ r \in Rows(u)
  /\ \A q \in quarantined : pc[q[1]] = "done" /\ q[2] \in Sent(q[1]).bad

-----------------------------------------------------------------------------
(* Safety. *)

(* Row n of a file is the first good one of its id and the table has the id, from
   this upload or an earlier one; or it is among the quarantined rows. *)
Kept(u, table, rows, n) ==
  \/ <<u, <<table, n>> >> \in quarantined
  \/ /\ HasKey(stored, <<table, rows[n].id>>)
     /\ \A m \in 1..(n - 1) :
          rows[m].org = rows[n].org /\ rows[m].id = rows[n].id
            => <<u, <<table, m>> >> \in quarantined

(* No row is lost between the reader, the organisation's filter and the tables: after
   an upload each row that names the organisation is kept, and each row of a pod's
   file that names none. *)
NoRowIsDropped ==
  \A u \in Uploads : pc[u] = "done" =>
    /\ \A n \in DOMAIN files[u].report :
         files[u].report[n].org = Org => Kept(u, "charges", files[u].report, n)
    /\ \A pod \in Range(Pods) : \A n \in DOMAIN files[u].upstream[pod] :
         files[u].upstream[pod][n].org \in {Blank, Org} => Kept(u, pod, files[u].upstream[pod], n)

(* Two tables agree: every image a stored record lists has its attachment row, so a
   viewer that has the record finds its photo, whichever upload brought it. *)
ImagesHaveAttachments ==
  \A r \in stored : r[1][1] \in Range(Pods) =>
    \A j \in DOMAIN r[2].body.images :
      HasKey(stored, AttachmentRow(r[1][1], r[2].body.id, r[2].body.images[j])[1])

(* The raw row kept as the source of a stored row is the row it was built from,
   unless another organisation's record in the same file has its id. *)
SourcesRebuild ==
  \A r \in stored :
    \/ r[1][1] = "charges" /\ BuildCharge(r[2].source) = r[2].body
    \/ r[1][1] \in Range(Pods) /\ BuildRecord(r[1][1], r[2].source) = r[2].body
    \/ r[1][1] \in {"ingest_files", "attachments"}
    \/ r[1][1] \in Range(Pods) /\ r[2].source.org # Org
         /\ \E u \in Uploads : r[2].source \in Range(files[u].upstream[r[1][1]])

(* A stored record can be shown and checked: its photos are there, and the row that it
   was built from. *)
StoredRecordsAreWhole == ImagesHaveAttachments /\ SourcesRebuild

Abstract == INSTANCE FirstWriteWins WITH
  sent <- [u \in Uploads |-> Sent(u).brings],
  applied <- {u \in Uploads : pc[u] = "done"}

(* However uploads overlap, the tables are what they would be had the uploads that
   committed been applied one after the other, the first row of a key winning. *)
OneAfterTheOther == Abstract!Spec

(* Every upload ends: none waits forever for another's uncommitted row. *)
UploadsEnd == \A u \in Uploads : <>(pc[u] \in {"done", "refused", "aborted"})

=============================================================================
