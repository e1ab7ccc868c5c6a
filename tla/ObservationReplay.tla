-------------------------- MODULE ObservationReplay --------------------------
(***************************************************************************)
(* Replays over the observation store (src/app/data/replay.py).  A reader  *)
(* opens one read transaction, which fixes the rows it sees, binds the     *)
(* first cutoff it is asked for, and hands out pages in the order of       *)
(* knowledge time and id, each from the cursor of the page before it.      *)
(***************************************************************************)
EXTENDS ObservationStore, Orders, SequencesExt

CONSTANTS
    Readers,
    Limits,            \* page sizes a caller asks for
    None

ReplayAssumption == Limits \subseteq Nat \ {0} /\ None \notin Times

VARIABLE reader        \* each reader with the pages its caller collected
replayVars == <<storeVars, reader>>

Unopened ==
    [open |-> FALSE, snapshot |-> {}, asOf |-> None, pages |-> <<>>, exhausted |-> FALSE,
     settled |-> {}]

ReplayTypeOK ==
    /\ StoreTypeOK
    /\ \A r \in Readers :
        /\ reader[r].open \in BOOLEAN /\ reader[r].exhausted \in BOOLEAN
        /\ reader[r].snapshot \subseteq Row
        /\ reader[r].asOf \in Times \cup {None}
        /\ reader[r].pages \in Seq(reader[r].snapshot)
        /\ reader[r].settled \subseteq Times
        /\ reader[r].asOf = None => reader[r].pages = <<>>

ReplayInit == StoreInit /\ reader = [r \in Readers |-> Unopened]

(* The cutoffs in the past, unless somebody holds a receipt time that is    *)
(* not committed yet.                                                       *)
Settled == {time \in Times : time < clock /\ \A p \in Processes : proc[p].pc # "append"}

(* The constructor validates the schema inside of its transaction, which    *)
(* fixes the snapshot.  settled only serves the property about it.          *)
Open(r) ==
    /\ ~reader[r].open
    /\ file = "schema"
    /\ reader' = [reader EXCEPT ![r] = [Unopened EXCEPT !.open = TRUE, !.snapshot = rows,
                                                        !.settled = Settled]]
    /\ UNCHANGED storeVars

(* Bug variant: ties in knowledge time are cut at the page's end.           *)
AfterTime(row, last) == row.at > last.at

Visible(r) == reader[r].snapshot
After(row, last) == row.at > last.at \/ (row.at = last.at /\ row.id > last.id)
Before(a, b) == After(b, a)

(* The first cutoff is kept for the life of the reader.                     *)
Bound(r, asOf) == reader[r].asOf \in {None, asOf}

Exhausted(found, limit) == Len(found) <= limit

(* read_batch with the cursor of the last page: one row more than the limit *)
(* is selected to see whether there is another page, and a row that does    *)
(* not decode fails the whole page.                                         *)
ReadBatch(r, asOf, limit) ==
    LET pages == reader[r].pages
        eligible == {row \in Visible(r) :
                        row.at <= asOf /\ (pages # <<>> => After(row, Last(pages)))}
        found == Sorted(eligible, Before)
        page == SubSeq(found, 1, IF Len(found) < limit THEN Len(found) ELSE limit)
    IN
    /\ reader[r].open /\ ~reader[r].exhausted
    /\ Bound(r, asOf)
    /\ \A i \in DOMAIN page : page[i].sound
    /\ reader' = [reader EXCEPT ![r].asOf = asOf, ![r].pages = pages \o page,
                                ![r].exhausted = Exhausted(found, limit)]
    /\ UNCHANGED storeVars

Close(r) ==
    /\ reader[r].open
    /\ reader' = [reader EXCEPT ![r] = Unopened]
    /\ UNCHANGED storeVars

ReplayNext ==
    \/ StoreNext /\ UNCHANGED reader
    \/ \E r \in Readers :
        \/ Open(r) \/ Close(r)
        \/ \E asOf \in Times : \E limit \in Limits : ReadBatch(r, asOf, limit)

ReplaySpec == ReplayInit /\ [][ReplayNext]_replayVars

-----------------------------------------------------------------------------
KnownRows(snapshot, asOf) == Sorted({row \in snapshot : row.at <= asOf}, Before)

(* The pages put together are a prefix of what was known at the cutoff when *)
(* the reader opened, in order, without a gap or a repetition, whatever is  *)
(* appended meanwhile and whatever page sizes are asked; all of it when the *)
(* replay is exhausted; and nothing in them is corrupt.                     *)
PagesAreExact ==
    \A r \in Readers : reader[r].asOf # None =>
        LET known == KnownRows(reader[r].snapshot, reader[r].asOf) IN
        /\ IsPrefix(reader[r].pages, known)
        /\ reader[r].exhausted => reader[r].pages = known
        /\ \A i \in DOMAIN reader[r].pages : reader[r].pages[i].sound

(* A replay never sees part of a batch.                                     *)
SnapshotsAreWhole ==
    \A r \in Readers : \A row \in reader[r].snapshot : IsWhole(row.batch, reader[r].snapshot)

(* A replay whose cutoff had passed when it was opened, while nobody held a *)
(* receipt time he had not committed, is final: any later replay with this  *)
(* cutoff returns the same observations.                                    *)
SettledReplayIsFinal ==
    \A r \in Readers : \A time \in reader[r].settled :
        {row.id : row \in AvailableAt(time)}
            = {row.id : row \in {row \in reader[r].snapshot : row.at <= time}}

(* Batches are appended and replayed as a whole, in exact pages, and what a *)
(* replay of a settled moment returned is what it returns when repeated.    *)
ReplaysAreSound ==
    BatchesAreWhole /\ PagesAreExact /\ SnapshotsAreWhole /\ SettledReplayIsFinal
=============================================================================
