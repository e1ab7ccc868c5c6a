---------------------------- MODULE LocalControl ----------------------------
(***************************************************************************)
(* The audited command ledger in front of the shadow runtime               *)
(* (src/app/control/local.py).  Several control planes, each a process     *)
(* with its own host-owned grants, share one ledger and one runtime.       *)
(* execute() claims the command in the ledger, runs it against the         *)
(* runtime, reads the run's status, and writes the response: four separate *)
(* transactions on two databases, with a crash possible between any two.   *)
(*                                                                         *)
(* The runtime is the RunLedger that ShadowRuntime implements.  STATUS     *)
(* stands for the three commands that only read (STATUS, HEALTH, AUDIT).   *)
(* A command carries the digest of the registered plan or of another one.  *)
(***************************************************************************)
EXTENDS Naturals, Sequences

CONSTANTS
    Planes,        \* control plane processes
    Ids,           \* command identifiers
    Commands,      \* commands callers may submit, see CommandShape
    Grants,        \* grant tuples a host may construct a plane with
    Runs, Schedule, MaxJobs, MaxEvents,     \* of the runtime
    CommandTimes   \* instants a caller may pass

CommandShape ==
    [id : Ids, principal : STRING, run : Runs, digest : {"plan", "other"},
     action : {"REGISTER", "START", "PAUSE", "TICK", "STATUS"},
     at : CommandTimes, jobs : 1 .. MaxJobs]

(* Well-formed commands, and the plans and instants of the runtime.         *)
ControlAssumption ==
    /\ Commands \subseteq CommandShape
    /\ Schedule \in [Runs -> Seq(Nat)]
    /\ \A r \in Runs : \A i \in 1 .. Len(Schedule[r]) - 1 :
            Schedule[r][i] < Schedule[r][i + 1]
    /\ CommandTimes \subseteq Nat

VARIABLES
    runs, audit,   \* the runtime
    commands,      \* table control_commands: command and response per id
    grants,        \* the grants each plane was constructed with
    executing,     \* execute() in progress on each plane
    effects        \* history: run states the transactions of a command left

controlVars == <<runs, audit, commands, grants, executing, effects>>

Runtime == INSTANCE RunLedger WITH Times <- CommandTimes

-----------------------------------------------------------------------------
NoCommand == [status |-> "ABSENT"]
Unresolved(c) == [status |-> "STARTED", command |-> c]
Saved(c, response) == [status |-> "SAVED", command |-> c, response |-> response]
Response(outcome, reason) == [outcome |-> outcome, reason |-> reason]
Rejected(reason) == Response("REJECTED", reason)
Responses ==
    [outcome : {"COMPLETED", "REJECTED", "UNCERTAIN"},
     reason : {"OK", "RUN_FAILED", "PLAN_MISMATCH", "RUNTIME_REJECTED",
               "RUNTIME_ERROR"}]

NoCall == [pc |-> "idle"]
Calls == [pc : {"dispatch", "read"}, command : Commands]
         \cup [pc : {"respond"}, command : Commands, response : Responses]

(* Types: every ledger row is of its own command, and a call in progress         *)
(* carries the command it claimed.                                          *)
ControlTypeOK ==
    /\ Runtime!TypeOK
    /\ \A i \in Ids :
        \/ commands[i] = NoCommand
        \/ \E c \in Commands :
            /\ c.id = i
            /\ \/ commands[i] = Unresolved(c)
               \/ \E r \in Responses : commands[i] = Saved(c, r)
    /\ grants \in [Planes -> Grants]
    /\ executing \in [Planes -> {NoCall} \cup Calls]
    /\ effects \in [Ids -> Seq(Runtime!States)]

ControlInit ==
    /\ Runtime!Init
    /\ commands = [i \in Ids |-> NoCommand]
    /\ grants \in [Planes -> Grants]
    /\ executing = [p \in Planes |-> NoCall]
    /\ effects = [i \in Ids |-> <<>>]

-----------------------------------------------------------------------------
Authorized(p, c) ==
    \E g \in grants[p] :
        /\ g.principal = c.principal /\ g.run = c.run /\ g.digest = c.digest
        /\ c.action \in g.actions

(* Bug variants: an unresolved command is taken up again, and a known id is *)
(* simply replaced.                                                         *)
ClaimUnresolved(p, c) ==
    /\ executing[p] = NoCall
    /\ Authorized(p, c)
    /\ commands[c.id] \in {NoCommand, Unresolved(c)}
    /\ commands' = [commands EXCEPT ![c.id] = Unresolved(c)]
    /\ executing' = [executing EXCEPT ![p] = [pc |-> "dispatch", command |-> c]]
    /\ UNCHANGED <<runs, audit, grants, effects>>
ClaimReplaces(p, c) ==
    /\ executing[p] = NoCall
    /\ Authorized(p, c)
    /\ commands' = [commands EXCEPT ![c.id] = Unresolved(c)]
    /\ executing' = [executing EXCEPT ![p] = [pc |-> "dispatch", command |-> c]]
    /\ UNCHANGED <<runs, audit, grants, effects>>

(* The claim of a new command_id by a plane whose grants cover the command  *)
(* (a denial is logged and touches nothing else).  A known id is answered   *)
(* from its row (the saved response, UNRESOLVED_COMMAND, or a content       *)
(* conflict) and changes nothing.                                           *)
Claim(p, c) ==
    /\ executing[p] = NoCall
    /\ Authorized(p, c)
    /\ commands[c.id] = NoCommand
    /\ commands' = [commands EXCEPT ![c.id] = Unresolved(c)]
    /\ executing' = [executing EXCEPT ![p] = [pc |-> "dispatch", command |-> c]]
    /\ UNCHANGED <<runs, audit, grants, effects>>

Answer(p, response) ==
    executing' = [executing EXCEPT ![p] =
                [pc |-> "respond", command |-> executing[p].command, response |-> response]]

(* Bug variant: a failed tick is answered as any other command.             *)
ResponseIgnoresFailure(c, state) == Response("COMPLETED", "OK")

(* What _dispatch() makes of the run state it reads last.                   *)
ResponseFor(c, state) ==
    IF state # "FAILED" THEN Response("COMPLETED", "OK")
    ELSE IF c.action = "TICK" THEN Rejected("RUN_FAILED")
    ELSE Response("COMPLETED", "RUN_FAILED")

(* The runtime transaction of a command, if it changes a run.               *)
Effect(c) ==
    \/ c.action = "REGISTER" /\ c.digest = "plan" /\ Runtime!Register(c.run, c.at)
    \/ c.action = "START" /\ Runtime!SetRunning(c.run, TRUE, c.at)
    \/ c.action = "PAUSE" /\ Runtime!SetRunning(c.run, FALSE, c.at)
    \/ c.action = "TICK" /\ Runtime!Tick(c.run, c.at, c.jobs)

(* The runtime answers with the run as it is and changes nothing.           *)
Reads(c) ==
    LET run == runs[c.run] IN
    \/ c.action = "STATUS"
    \/ c.action = "REGISTER" /\ c.digest = "plan" /\ run.state # "ABSENT"
       /\ (Runtime!Total(c.run) > 0 => c.at <= Schedule[c.run][1])
    \/ c.action = "TICK" /\ run.state # "RUNNING" /\ c.at >= run.lastAt

(* Bug variant: nothing answers a command to a terminal run.                *)
RefusesOnlyTime(c) ==
    \/ c.action = "REGISTER" /\ Runtime!Total(c.run) > 0 /\ c.at > Schedule[c.run][1]
    \/ c.action \in {"START", "PAUSE", "TICK"} /\ c.at < runs[c.run].lastAt

(* The runtime raises: a clock that goes back, a late registration, another *)
(* manifest for a known run, a terminal run told to change its state.       *)
Refuses(c) ==
    LET run == runs[c.run] IN
    \/ c.action = "REGISTER" /\ c.digest # "plan"
    \/ c.action = "REGISTER" /\ Runtime!Total(c.run) > 0 /\ c.at > Schedule[c.run][1]
    \/ c.action \in {"START", "PAUSE", "TICK"} /\ c.at < run.lastAt
    \/ c.action \in {"START", "PAUSE"} /\ run.state \in Runtime!Terminal

(* _dispatch() up to the end of the runtime's transaction.  The plan digest *)
(* is compared before anything else; it never changes once registered.      *)
DispatchCommand(p) ==
    LET c == executing[p].command IN
    /\ executing[p].pc = "dispatch"
    /\ \/ /\ c.action # "REGISTER" /\ runs[c.run].state = "ABSENT"
          /\ Answer(p, Rejected("RUNTIME_REJECTED"))
          /\ UNCHANGED <<runs, audit, effects>>
       \/ /\ c.action # "REGISTER" /\ runs[c.run].state # "ABSENT"
          /\ c.digest # "plan"
          /\ Answer(p, Rejected("PLAN_MISMATCH"))
          /\ UNCHANGED <<runs, audit, effects>>
       \/ /\ c.action = "REGISTER" \/ (c.digest = "plan" /\ runs[c.run].state # "ABSENT")
          /\ \/ /\ Effect(c)
                /\ effects' = [effects EXCEPT ![c.id] = Append(@, runs'[c.run].state)]
                /\ executing' = [executing EXCEPT ![p].pc = "read"]
             \/ /\ Reads(c)
                /\ Answer(p, ResponseFor(c, runs[c.run].state))
                /\ UNCHANGED <<runs, audit, effects>>
             \/ /\ Refuses(c)
                /\ Answer(p, Rejected("RUNTIME_REJECTED"))
                /\ UNCHANGED <<runs, audit, effects>>
    /\ UNCHANGED <<commands, grants>>

(* The runtime's operations end by reading the run again, after their       *)
(* transaction: another plane may have moved it meanwhile.                  *)
ReadStatus(p) ==
    /\ executing[p].pc = "read"
    /\ Answer(p, ResponseFor(executing[p].command, runs[executing[p].command.run].state))
    /\ UNCHANGED <<runs, audit, commands, grants, effects>>

(* Any other exception, before or after the transaction took place.         *)
RuntimeError(p) ==
    /\ executing[p].pc \in {"dispatch", "read"}
    /\ Answer(p, Response("UNCERTAIN", "RUNTIME_ERROR"))
    /\ UNCHANGED <<runs, audit, commands, grants, effects>>

Respond(p) ==
    LET c == executing[p].command IN
    /\ executing[p].pc = "respond"
    /\ commands[c.id].status = "STARTED"
    /\ commands' = [commands EXCEPT ![c.id] = Saved(c, executing[p].response)]
    /\ executing' = [executing EXCEPT ![p] = NoCall]
    /\ UNCHANGED <<runs, audit, grants, effects>>

(* A plane dies, or is closed, and comes back with the grants its host then *)
(* gives it.                                                                *)
Restart(p) ==
    /\ executing' = [executing EXCEPT ![p] = NoCall]
    /\ \E g \in Grants : grants' = [grants EXCEPT ![p] = g]
    /\ UNCHANGED <<runs, audit, commands, effects>>

(* "plan" is the manifest a run is registered with first: any other is      *)
(* submitted when the run exists.                                           *)
Submit(p) ==
    \E c \in Commands :
        /\ (c.action = "REGISTER" /\ c.digest = "other") => runs[c.run].state # "ABSENT"
        /\ Claim(p, c)

Execute(p) == DispatchCommand(p) \/ ReadStatus(p) \/ Respond(p)

ControlNext ==
    \E p \in Planes : Submit(p) \/ Execute(p) \/ RuntimeError(p) \/ Restart(p)

(* execute() runs to its end unless its process dies.                       *)
Fairness == \A p \in Planes : WF_controlVars(Execute(p))

ControlSpec == ControlInit /\ [][ControlNext]_controlVars /\ Fairness

-----------------------------------------------------------------------------
(* The command that leaves each kind of entry in the audit of a run.        *)
Cause == [REGISTERED |-> "REGISTER", RUNNING |-> "START", PAUSED |-> "PAUSE",
          STEP |-> "TICK", COMPLETE |-> "TICK", FAILED |-> "TICK"]

(* A command_id takes effect at most once, whatever is replayed, crashes or *)
(* runs on two planes at the same time, and nothing else moves a run: every *)
(* entry of its audit is the effect of a command of that kind, given for    *)
(* that run and that time.                                                  *)
EffectAtMostOnce ==
    /\ \A i \in Ids : Len(effects[i]) <= 1
    /\ \A r \in Runs : \A j \in 1 .. Len(audit[r]) :
        \E i \in Ids :
            LET c == commands[i].command IN
            /\ effects[i] # <<>>
            /\ c.run = r /\ c.at = audit[r][j].at
            /\ c.action = Cause[audit[r][j].event]

(* A saved response is honest: what was refused changed nothing, a failed   *)
(* tick is never reported as a success, and a start, pause or registration  *)
(* reported as completed is in the run's history.                           *)
ResponseIsHonest ==
    \A i \in Ids :
        LET c == commands[i].command
            r == commands[i].response
        IN
        commands[i].status = "SAVED" =>
            /\ r.reason \in {"PLAN_MISMATCH", "RUNTIME_REJECTED"} => effects[i] = <<>>
            /\ (c.action = "TICK" /\ r.outcome = "COMPLETED") =>
                    effects[i] \in {<<>>, <<"RUNNING">>, <<"COMPLETE">>}
            /\ (c.action \in {"START", "PAUSE"} /\ r.outcome = "COMPLETED") =>
                    Len(effects[i]) = 1
            /\ (c.action = "REGISTER" /\ r.outcome = "COMPLETED") =>
                    runs[c.run].state # "ABSENT"

(* A plane is at work on the command.                                       *)
Working(i) == \E p \in Planes : executing[p] # NoCall /\ executing[p].command.id = i

(* What the ledger says of a command is final, and a claim whose plane is   *)
(* gone is never picked up again: it waits for an inspection.               *)
LedgerIsFinal ==
    [][\A i \in Ids :
        /\ commands[i] # NoCommand => commands'[i].command = commands[i].command
        /\ commands[i].status = "SAVED" \/ (commands[i] # NoCommand /\ ~Working(i))
                => commands'[i] = commands[i] /\ effects'[i] = effects[i]]_controlVars

(* execute() always comes to an end.                                        *)
CallEnds == \A p \in Planes : executing[p] # NoCall ~> executing[p] = NoCall
=============================================================================
