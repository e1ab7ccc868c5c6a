------------------------------ MODULE MarketScan ------------------------------
(***************************************************************************)
(* The scans of the dashboard, src/app/dashboard/live.py, as requests of a *)
(* threading HTTP server (dashboard/server.py): each scan, connection test *)
(* and settings save runs in a thread of its own, without a lock, over the *)
(* settings, the status file, the saved report, the artifacts in memory    *)
(* and the scan history, a SQLite database.                                *)
(*                                                                         *)
(* A scan is of one symbol (the first of a watchlist: the prior rows of    *)
(* later ones are read inside of the transaction the first one opened);    *)
(* how its row is judged is the subject of ScanDesk.  An id is 0 when      *)
(* there is none, and so is the time of a measurement not yet made.        *)
(***************************************************************************)
EXTENDS Integers, FiniteSets, Sequences, SequencesExt

CONSTANTS
    Threads,
    Closes,            \* the close of each bar, in order
    MaxScans, MaxProbes, MaxSaves, MaxCrashes      \* bounds

MarketScanAssumption ==
    /\ Closes \in Seq(Nat)
    /\ {MaxScans, MaxProbes, MaxSaves, MaxCrashes} \subseteq Nat

VARIABLES
    bar,               \* bars completed
    settings,          \* how often settings.json or alpaca.env was replaced
    status,            \* connection-status.json: [claim, settings]
    latest,            \* latest-research.json, or None
    artifacts,         \* _research_artifacts: the ids of ready rows
    history,           \* scan_assessments
    indexed,           \* whether one_equivalent_scan exists
    request,           \* by thread: what it is doing
    scans, probes, crashes,     \* counters, for the bounds and for fresh ids
    doubt              \* history: "status" or "report" when it may be of other
                       \* settings, see Replace, LeftBy and Undisturbed
files == <<settings, status, latest>>
scanVars == <<bar, settings, status, latest, artifacts, history, indexed, request,
          scans, probes, crashes, doubt>>

NoRequest == [step |-> "idle"]
None == [id |-> 0]
Scanning == {"acquire", "supersede", "drop", "create", "select", "record", "publish"}
Saving == {"secrets", "reset", "unlink"}

ScanInit ==
    /\ bar = 0 /\ settings = 0
    /\ status = [claim |-> "NOT_TESTED", settings |-> 0]
    /\ latest = None /\ artifacts = {} /\ history = {} /\ indexed = FALSE
    /\ request = [t \in Threads |-> NoRequest]
    /\ scans = 0 /\ probes = 0 /\ crashes = 0
    /\ doubt = {}

CompleteBar ==
    /\ bar < Len(Closes)
    /\ bar' = bar + 1
    /\ UNCHANGED <<files, artifacts, history, indexed, request, scans, probes, crashes, doubt>>

At(t, step) == request[t].step = step
Busy(steps) == \E u \in Threads : request[u].step \in steps
Becomes(t, to) == request' = [request EXCEPT ![t] = to]
Goes(t, step) == Becomes(t, [request[t] EXCEPT !.step = step])

-----------------------------------------------------------------------------
(* research() loads the settings and fixes its window before it waits.      *)
BeginScan(t) ==
    /\ At(t, "idle") /\ scans < MaxScans /\ bar > 0
    /\ scans' = scans + 1
    /\ Becomes(t, [step |-> "acquire", settings |-> settings, bar |-> bar, id |-> scans + 1])
    /\ UNCHANGED <<bar, files, artifacts, history, indexed, probes, crashes, doubt>>

(* The bars are acquired and judged.                                        *)
Acquire(t) ==
    /\ At(t, "acquire")
    /\ \E readiness \in {"READY_FOR_RISK_CHECK", "WAIT"} :
        Becomes(t, [step |-> "supersede", settings |-> request[t].settings,
                    bar |-> request[t].bar, id |-> request[t].id,
                    readiness |-> readiness, prior |-> {}])
    /\ UNCHANGED <<bar, files, artifacts, history, indexed, scans, probes, crashes, doubt>>

ArtifactsOf(scan) == IF scan.readiness = "READY_FOR_RISK_CHECK" THEN {scan.id} ELSE {}
Supersede(t) ==
    /\ At(t, "supersede")
    /\ artifacts' = ArtifactsOf(request[t])
    /\ Goes(t, "drop")
    /\ UNCHANGED <<bar, files, history, indexed, scans, probes, crashes, doubt>>

(* Equal in all columns of one_equivalent_scan.                             *)
Equivalent(a, b) == a.at = b.at /\ a.readiness = b.readiness /\ a.price = b.price

(* _update_scan_history(): a statement that is no update of rows commits at *)
(* once, so the index is dropped and made again in two steps.               *)
DropIndex(t) ==
    /\ At(t, "drop")
    /\ indexed' = FALSE
    /\ Goes(t, "create")
    /\ UNCHANGED <<bar, files, artifacts, history, scans, probes, crashes, doubt>>

HasTwins == \E a, b \in history : a # b /\ Equivalent(a, b)
CreateIndex(t) ==
    /\ At(t, "create")
    /\ IF ~indexed /\ HasTwins THEN indexed' = indexed /\ Becomes(t, NoRequest)
       ELSE indexed' = TRUE /\ Goes(t, "select")
    /\ UNCHANGED <<bar, files, artifacts, history, scans, probes, crashes, doubt>>

UnmeasuredBefore(at) == {row \in history : row.measuredAt = 0 /\ row.at < at}

(* The rows to measure are read before any transaction is open.             *)
SelectPrior(t) ==
    /\ At(t, "select")
    /\ Becomes(t, [request[t] EXCEPT !.step = "record",
                   !.prior = {row.id : row \in UnmeasuredBefore(request[t].bar)}])
    /\ UNCHANGED <<bar, files, artifacts, history, indexed, scans, probes, crashes, doubt>>

(* The update is by id alone; a reference of 0 is never measured.           *)
Measured(rows, prior, at) ==
    {IF row.id \in prior /\ row.price > 0
     THEN [row EXCEPT !.measuredAt = at, !.measured = Closes[at]] ELSE row : row \in rows}

Assessment(scan) ==
    [id |-> scan.id, at |-> scan.bar, readiness |-> scan.readiness, price |-> Closes[scan.bar],
     measuredAt |-> 0, measured |-> 0]

(* Bug variant: a bar has one assessment.                                   *)
InsertOnePerBar(rows, row) ==
    IF \E r \in rows : r.at = row.at THEN rows ELSE rows \cup {row}

(* INSERT OR IGNORE                                                         *)
Insert(rows, row) ==
    IF indexed /\ \E r \in rows : Equivalent(r, row) THEN rows ELSE rows \cup {row}

(* One transaction.                                                         *)
Record(t) ==
    /\ At(t, "record")
    /\ history' = Insert(Measured(history, request[t].prior, request[t].bar), Assessment(request[t]))
    /\ Goes(t, "publish")
    /\ UNCHANGED <<bar, files, artifacts, indexed, scans, probes, crashes, doubt>>

(* The report is saved, and the scan answered.                              *)
Publish(t) ==
    /\ At(t, "publish")
    /\ latest' = [id |-> request[t].id, bar |-> request[t].bar, settings |-> request[t].settings,
                  readiness |-> request[t].readiness]
    /\ Becomes(t, NoRequest)
    /\ UNCHANGED <<bar, settings, status, artifacts, history, indexed, scans, probes, crashes, doubt>>

(* The provider, the database (locked for too long, say) or the disk fails. *)
ScanFails(t) ==
    /\ request[t].step \in Scanning \ {"supersede"}
    /\ Becomes(t, NoRequest)
    /\ UNCHANGED <<bar, files, artifacts, history, indexed, scans, probes, crashes, doubt>>

-----------------------------------------------------------------------------
(* probe(): the settings are loaded, Alpaca is asked, and the status says   *)
(* what was found with the settings that were loaded.                       *)
BeginProbe(t) ==
    /\ At(t, "idle") /\ probes < MaxProbes
    /\ probes' = probes + 1
    /\ Becomes(t, [step |-> "ask", settings |-> settings])
    /\ UNCHANGED <<bar, files, artifacts, history, indexed, scans, crashes, doubt>>

EndProbe(t) ==
    /\ At(t, "ask")
    /\ \E claim \in {"CONNECTED_READ_ONLY", "FAILED"} :
        status' = [claim |-> claim, settings |-> request[t].settings]
    /\ Becomes(t, NoRequest)
    /\ UNCHANGED <<bar, settings, latest, artifacts, history, indexed, scans, probes, crashes, doubt>>

(* The request ends before it has written the status.                       *)
ProbeFails(t) ==
    /\ At(t, "ask")
    /\ Becomes(t, NoRequest)
    /\ UNCHANGED <<bar, files, artifacts, history, indexed, scans, probes, crashes, doubt>>

-----------------------------------------------------------------------------
(* A settings request: save() replaces settings.json, then alpaca.env when  *)
(* it was given credentials or told to clear them, and reads both for its   *)
(* answer; invalidate() writes the status and removes the report.           *)

(* One of the two files is replaced, and whoever is underway read the old.  *)
Replace ==
    /\ settings < MaxSaves
    /\ settings' = settings + 1
    /\ doubt' = doubt \cup (IF Busy({"ask"}) THEN {"status"} ELSE {})
                      \cup (IF Busy(Scanning) THEN {"report"} ELSE {})

SaveSettings(t) ==
    /\ At(t, "idle")
    /\ Replace
    /\ Becomes(t, [step |-> "secrets"])
    /\ UNCHANGED <<bar, status, latest, artifacts, history, indexed, scans, probes, crashes>>

SaveSecrets(t) ==
    /\ At(t, "secrets")
    /\ Replace \/ UNCHANGED <<settings, doubt>>
    /\ Goes(t, "reset")
    /\ UNCHANGED <<bar, status, latest, artifacts, history, indexed, scans, probes, crashes>>

(* Bug variant: what was tested stays known.                                *)
KeepClaim == status

(* What is written or removed while nobody makes another one is settled.    *)
Undisturbed(claim, steps) == IF Busy(steps) THEN doubt ELSE doubt \ {claim}

NotTested == [claim |-> "NOT_TESTED", settings |-> settings]
ResetStatus(t) ==
    /\ At(t, "reset")
    /\ status' = NotTested
    /\ doubt' = Undisturbed("status", {"ask"})
    /\ Goes(t, "unlink")
    /\ UNCHANGED <<bar, settings, latest, artifacts, history, indexed, scans, probes, crashes>>

UnlinkReport(t) ==
    /\ At(t, "unlink")
    /\ latest' = None
    /\ doubt' = Undisturbed("report", Scanning)
    /\ Becomes(t, NoRequest)
    /\ UNCHANGED <<bar, settings, status, artifacts, history, indexed, scans, probes, crashes>>

(* What a save has not yet invalidated.                                     *)
LeftBy(step) ==
    CASE step \in {"secrets", "reset"} -> {"status", "report"}
      [] step = "unlink" -> {"report"}
      [] OTHER -> {}

(* A file cannot be written or removed, or public() refuses the credentials *)
(* that save() took: the request ends where it stands.                      *)
SaveFails(t) ==
    /\ request[t].step \in Saving
    /\ doubt' = doubt \cup LeftBy(request[t].step)
    /\ Becomes(t, NoRequest)
    /\ UNCHANGED <<bar, files, artifacts, history, indexed, scans, probes, crashes>>

(* The process dies and is started again.                                   *)
Crash ==
    /\ crashes < MaxCrashes
    /\ crashes' = crashes + 1
    /\ request' = [t \in Threads |-> NoRequest]
    /\ artifacts' = {}
    /\ doubt' = doubt \cup UNION {LeftBy(request[t].step) : t \in Threads}
    /\ UNCHANGED <<bar, files, history, indexed, scans, probes>>

ScanStep(t) ==
    Acquire(t) \/ Supersede(t) \/ DropIndex(t) \/ CreateIndex(t) \/ SelectPrior(t) \/ Record(t) \/ Publish(t)
ScanNext ==
    \/ CompleteBar \/ Crash
    \/ \E t \in Threads :
        \/ BeginScan(t) \/ ScanStep(t) \/ ScanFails(t)
        \/ BeginProbe(t) \/ EndProbe(t) \/ ProbeFails(t)
        \/ SaveSettings(t) \/ SaveSecrets(t) \/ ResetStatus(t) \/ UnlinkReport(t) \/ SaveFails(t)
ScanSpec == ScanInit /\ [][ScanNext]_scanVars
-----------------------------------------------------------------------------
Report == [id : 1 .. MaxScans, bar : DOMAIN Closes, settings : 0 .. MaxSaves,
           readiness : {"READY_FOR_RISK_CHECK", "WAIT"}]

(* The files, the table and the requests hold what the code writes to them, *)
(* and an id is the key of one row.                                         *)
ScanTypeOK ==
    /\ bar \in 0 .. Len(Closes) /\ settings \in 0 .. MaxSaves
    /\ status \in [claim : {"NOT_TESTED", "CONNECTED_READ_ONLY", "FAILED"}, settings : 0 .. settings]
    /\ latest \in Report \cup {None}
    /\ artifacts \subseteq 1 .. scans /\ indexed \in BOOLEAN /\ doubt \subseteq {"status", "report"}
    /\ \A row \in history :
        /\ row.id \in 1 .. scans /\ row.at \in 1 .. bar /\ row.price = Closes[row.at]
        /\ row.measuredAt = 0 => row.measured = 0
    /\ \A a, b \in history : a.id = b.id => a = b
    /\ \A t \in Threads : request[t].step \in {"idle", "ask"} \cup Scanning \cup Saving

(* Some save has yet to invalidate it.                                      *)
Pending(claim) == \E t \in Threads : claim \in LeftBy(request[t].step)

(* A connection that is claimed and a report that is offered are of the     *)
(* settings there are, unless a save is about to reset them, one of its     *)
(* files was replaced while they were made, or a save failed or died before *)
(* it had reset them; and whatever happened before, a save that comes to    *)
(* its end undisturbed puts it right (invalidate()).                        *)
OldClaimsAreExplained ==
    /\ status.claim = "CONNECTED_READ_ONLY" /\ status.settings # settings =>
            "status" \in doubt \/ Pending("status")
    /\ latest # None /\ latest.settings # settings => "report" \in doubt \/ Pending("report")

(* "Make every settings save require a fresh explicit connection test"      *)
(* (live.py:626): nothing is claimed of other settings once saves are over. *)
EverySaveNeedsAFreshTest ==
    ~Busy(Saving) /\ status.claim = "CONNECTED_READ_ONLY" => status.settings = settings

(* However scans overlap, die or are ignored as equivalent, the saved report*)
(* is on record: the history holds an assessment equal to the one it shows. *)
(* An assessment is only measured at a later bar, by that bar's close, and  *)
(* never against a reference of 0.                                          *)
HistoryIsSound ==
    /\ latest # None =>
        \E row \in history :
            Equivalent(row, [at |-> latest.bar, readiness |-> latest.readiness,
                             price |-> Closes[latest.bar]])
    /\ \A row \in history :
        row.measuredAt # 0 =>
            row.at < row.measuredAt /\ row.measured = Closes[row.measuredAt] /\ row.price > 0

(* one_equivalent_scan (live.py:1227): no two rows are equivalent.          *)
NoTwins == ~HasTwins
=============================================================================
