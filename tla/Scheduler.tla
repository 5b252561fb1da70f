------------------------------- MODULE Scheduler -------------------------------
(***************************************************************************)
(* services/poller/main.cpp: cron starts a process every hour; the process *)
(* asks poller_state which pollers are due, stamps those, then runs the    *)
(* SATCAT poller and after it the GP poller, each through Poller::run.     *)
(*                                                                         *)
(* Time is a discrete clock and each statement is a step, so a run may     *)
(* take any time up to MaxRun and overlap the run of the next hour.        *)
(***************************************************************************)
EXTENDS Integers

CONSTANTS
    Process,            \* slots for live poller processes
    Hour,               \* kGpInterval and the period of cron
    SatcatInterval,     \* kSatcatInterval
    Tolerance,          \* the 5 minutes of is_poller_due
    StampDelay,         \* bound: from cron firing to the last stamp
    MaxRun,             \* bound: how long a process lives
    MaxTime,            \* bound: the clock
    MaxFatal,           \* bound: processes that end in a fatal error or a crash
    Never               \* poller_state has no row

ASSUME ClockAssumption ==
    /\ Hour \in Nat /\ SatcatInterval \in Nat /\ Tolerance \in Nat
    /\ StampDelay \in Nat /\ MaxRun \in Nat
    /\ StampDelay < Hour /\ Tolerance < Hour /\ Tolerance < SatcatInterval
    /\ Never \notin Int

Poller == {"satcat", "gp"}

Interval(name) == IF name = "gp" THEN Hour ELSE SatcatInterval

VARIABLES
    now,                \* the clock of the database
    next_cron,          \* when cron fires next
    last_run,           \* poller_state.last_run_at
    pc,                 \* what each process does next
    started,            \* when it was started
    due,                \* satcat_due and gp_due
    logged_in,          \* SpaceTrackClient::logged_in_
    gp_request,         \* observation: time of the latest request to the gp class
    fatals              \* observation: processes that died

vars == <<now, next_cron, last_run, pc, started, due, logged_in, gp_request, fatals>>

Init ==
    /\ now = 0 /\ next_cron = 0
    /\ last_run = [name \in Poller |-> Never]
    /\ pc = [p \in Process |-> "idle"]
    /\ started = [p \in Process |-> 0]
    /\ due = [p \in Process |-> [name \in Poller |-> FALSE]]
    /\ logged_in = [p \in Process |-> FALSE]
    /\ gp_request = Never
    /\ fatals = 0

Goto(p, from, to) == pc[p] = from /\ pc' = [pc EXCEPT ![p] = to]

(* The scheduling decision: from the first check to the last stamp. *)
Deciding == {"check_satcat", "check_gp", "mark_satcat", "mark_gp"}

-----------------------------------------------------------------------------
(* Cron starts a process on the hour, whether or not an earlier one is done. *)
Cron(p) ==
    /\ now = next_cron
    /\ Goto(p, "idle", "check_satcat")
    /\ next_cron' = next_cron + Hour
    /\ started' = [started EXCEPT ![p] = now]
    /\ due' = [due EXCEPT ![p] = [name \in Poller |-> FALSE]]
    /\ logged_in' = [logged_in EXCEPT ![p] = FALSE]
    /\ UNCHANGED <<now, last_run, gp_request, fatals>>

(* Mutants of IsPollerDue: no tolerance; the interval forgotten. *)
IsPollerDueExactly(name) ==
    last_run[name] = Never \/ last_run[name] <= now - Interval(name)

IsPollerDueAgain(name) ==
    last_run[name] = Never \/ last_run[name] <= now - Tolerance

(* is_poller_due: no row, or the interval less the tolerance has passed. *)
IsPollerDue(name) ==
    last_run[name] = Never \/ last_run[name] <= now - Interval(name) + Tolerance

CheckDue(p, name, from, to) ==
    /\ Goto(p, from, to)
    /\ due' = [due EXCEPT ![p][name] = IsPollerDue(name)]
    /\ UNCHANGED <<now, next_cron, last_run, started, logged_in, gp_request, fatals>>

CheckSatcat(p) == CheckDue(p, "satcat", "check_satcat", "check_gp")
CheckGp(p)     == CheckDue(p, "gp", "check_gp", "mark_satcat")

(* Mutant of Mark: stamps the moment the poller became due. *)
MarkEarly(p, name, from, to) ==
    /\ Goto(p, from, to)
    /\ last_run' = IF due[p][name] THEN [last_run EXCEPT ![name] = now - Tolerance] ELSE last_run
    /\ UNCHANGED <<now, next_cron, started, due, logged_in, gp_request, fatals>>

(* mark_poller_run, if due. *)
Mark(p, name, from, to) ==
    /\ Goto(p, from, to)
    /\ last_run' = IF due[p][name] THEN [last_run EXCEPT ![name] = now] ELSE last_run
    /\ UNCHANGED <<now, next_cron, started, due, logged_in, gp_request, fatals>>

MarkSatcat(p) == Mark(p, "satcat", "mark_satcat", "mark_gp")
MarkGp(p)     == Mark(p, "gp", "mark_gp", "satcat")

-----------------------------------------------------------------------------
(* The two runs.  Poller::run returns, whatever became of the request; the  *)
(* process goes on with the next poller or ends.                            *)

SkipSatcat(p) ==
    /\ ~ due[p]["satcat"] /\ Goto(p, "satcat", "gp")
    /\ UNCHANGED <<now, next_cron, last_run, started, due, logged_in, gp_request, fatals>>

RunSatcat(p) ==
    /\ due[p]["satcat"] /\ Goto(p, "satcat", "satcat_login")
    /\ UNCHANGED <<now, next_cron, last_run, started, due, logged_in, gp_request, fatals>>

SkipGp(p) ==
    /\ ~ due[p]["gp"] /\ Goto(p, "gp", "idle")
    /\ UNCHANGED <<now, next_cron, last_run, started, due, logged_in, gp_request, fatals>>

(* The targets are selected and GpPoller is constructed. *)
RunGp(p) ==
    /\ due[p]["gp"] /\ Goto(p, "gp", "gp_login")
    /\ UNCHANGED <<now, next_cron, last_run, started, due, logged_in, gp_request, fatals>>

(* The client keeps its session from one poller to the next. *)
Login(p, from, to) ==
    /\ Goto(p, from, to)
    /\ logged_in' = [logged_in EXCEPT ![p] = TRUE]
    /\ UNCHANGED <<now, next_cron, last_run, started, due, gp_request, fatals>>

LoginFails(p, from, to) ==
    /\ ~ logged_in[p] /\ Goto(p, from, to)
    /\ UNCHANGED <<now, next_cron, last_run, started, due, logged_in, gp_request, fatals>>

(* get() sends the request; answered, failed or answered with something that *)
(* cannot be processed, run() returns.                                       *)
SatcatRequest(p) ==
    /\ Goto(p, "satcat_fetch", "satcat_wait")
    /\ UNCHANGED <<now, next_cron, last_run, started, due, logged_in, gp_request, fatals>>

GpRequest(p) ==
    /\ Goto(p, "gp_fetch", "gp_wait")
    /\ gp_request' = now
    /\ UNCHANGED <<now, next_cron, last_run, started, due, logged_in, fatals>>

RunReturns(p, from, to) ==
    /\ Goto(p, from, to)
    /\ UNCHANGED <<now, next_cron, last_run, started, due, logged_in, gp_request, fatals>>

(* Mutant of Satcat: a failed login ends the process. *)
SatcatLoginFatal(p) ==
    \/ SkipSatcat(p) \/ RunSatcat(p)
    \/ Login(p, "satcat_login", "satcat_fetch") \/ LoginFails(p, "satcat_login", "idle")
    \/ SatcatRequest(p) \/ RunReturns(p, "satcat_wait", "gp")

Satcat(p) ==
    \/ SkipSatcat(p) \/ RunSatcat(p)
    \/ Login(p, "satcat_login", "satcat_fetch") \/ LoginFails(p, "satcat_login", "gp")
    \/ SatcatRequest(p) \/ RunReturns(p, "satcat_wait", "gp")

Gp(p) ==
    \/ SkipGp(p) \/ RunGp(p)
    \/ Login(p, "gp_login", "gp_fetch") \/ LoginFails(p, "gp_login", "idle")
    \/ GpRequest(p) \/ RunReturns(p, "gp_wait", "idle")

(* An exception reaches main(), or the process is killed: what it stamped   *)
(* stays stamped.                                                           *)
Fatal(p) ==
    /\ pc[p] # "idle" /\ fatals < MaxFatal
    /\ pc' = [pc EXCEPT ![p] = "idle"]
    /\ fatals' = fatals + 1
    /\ UNCHANGED <<now, next_cron, last_run, started, due, logged_in, gp_request>>

(* Time passes, but cron is punctual, the decision takes at most StampDelay *)
(* and no process lives longer than MaxRun.                                 *)
Tick ==
    /\ now < MaxTime /\ now # next_cron
    /\ \A p \in Process :
        /\ pc[p] \in Deciding => now < started[p] + StampDelay
        /\ pc[p] # "idle" => now < started[p] + MaxRun
    /\ now' = now + 1
    /\ UNCHANGED <<next_cron, last_run, pc, started, due, logged_in, gp_request, fatals>>

(* The bounded clock has run out and every process has ended. *)
End ==
    /\ now = MaxTime /\ now # next_cron /\ \A p \in Process : pc[p] = "idle"
    /\ UNCHANGED vars

Step(p) ==
    \/ CheckSatcat(p) \/ CheckGp(p) \/ MarkSatcat(p) \/ MarkGp(p) \/ Satcat(p) \/ Gp(p)

Next == Tick \/ End \/ \E p \in Process : Cron(p) \/ Step(p) \/ Fatal(p)

Spec == Init /\ [][Next]_vars

(* A process that cron started goes on. *)
FairSpec == Spec /\ \A p \in Process : WF_vars(Step(p))

-----------------------------------------------------------------------------
(* Properties. *)

ProcessState == Deciding \cup {"idle", "satcat", "satcat_login", "satcat_fetch", "satcat_wait",
                               "gp", "gp_login", "gp_fetch", "gp_wait"}

(* The clock, the stamps and the locals of every process are well typed.    *)
TypeOK ==
    /\ now \in Nat /\ next_cron \in Nat
    /\ last_run \in [Poller -> Nat \cup {Never}]
    /\ pc \in [Process -> ProcessState]
    /\ started \in [Process -> Nat]
    /\ due \in [Process -> [Poller -> BOOLEAN]]
    /\ logged_in \in [Process -> BOOLEAN]
    /\ gp_request \in Nat \cup {Never}
    /\ fatals \in Nat

(* No hour is skipped but for a slow decision: a process that finds the GP  *)
(* poller not due at its hour finds a stamp of the hour before, set later   *)
(* than the tolerance absorbs -- whichever runs came before, overlap or     *)
(* died.  With StampDelay <= Tolerance no process finds that.               *)
SkipsOnlyAfterLateStamp ==
    \A p \in Process : pc[p] \in {"mark_satcat", "mark_gp"} /\ ~ due[p]["gp"] =>
        last_run["gp"] \in (started[p] - Hour + Tolerance + 1)..(started[p] - Hour + StampDelay)

(* The tolerance never lets a poller fire twice for one interval: two stamps *)
(* of a poller are at least its interval, less the tolerance, apart.         *)
StampsApart ==
    [][\A name \in Poller :
          last_run'[name] # last_run[name] /\ last_run[name] # Never
          => last_run'[name] - last_run[name] >= Interval(name) - Tolerance]_vars

(* Slow decisions never skip two hours running: as long as no process died, *)
(* a poller's stamp is younger than its interval, one more hour and what a  *)
(* decision may exceed the tolerance by.                                    *)
PollersOnTime ==
    \A name \in Poller :
        fatals = 0 /\ last_run[name] # Never
        => now - last_run[name] < Interval(name) + Hour + StampDelay - Tolerance

(* The SATCAT poller never meets itself: while one process has a SATCAT run  *)
(* ahead of it or under way, no other has one -- as long as no process lives *)
(* longer than the interval less the tolerance.                              *)
InSatcatRun(p) ==
    due[p]["satcat"] /\ pc[p] \in {"check_gp", "mark_satcat", "mark_gp", "satcat",
                                   "satcat_login", "satcat_fetch", "satcat_wait"}

SatcatRunsAlone ==
    MaxRun < SatcatInterval - Tolerance =>
        \A p, q \in Process : InSatcatRun(p) /\ InSatcatRun(q) => p = q

(* A GP run that was stamped keeps its turn: whatever becomes of the login,  *)
(* the request and the import of the SATCAT run before it, the process only  *)
(* comes closer to its GP login, unless it dies.                             *)
BeforeGp == <<"satcat", "satcat_login", "satcat_fetch", "satcat_wait", "gp", "gp_login">>

StampedGpKeepsItsTurn ==
    [][\A p \in Process, i \in 1..5 :
          pc[p] = BeforeGp[i] /\ due[p]["gp"]
          => \/ pc'[p] = pc[p]
             \/ \E j \in (i + 1)..6 : pc'[p] = BeforeGp[j]
             \/ fatals' # fatals]_vars

(* A SATCAT run that fails to log in, to fetch or to process the catalogue  *)
(* does not cost the GP poller its hour: once stamped, it runs.             *)
StampedGpRuns ==
    \A p \in Process :
        pc[p] = "satcat" /\ due[p]["gp"] ~> pc[p] = "gp_login" \/ fatals # 0

(* README.md: "the gp class allows at most 1 request/hour".                 *)
GpRequestsAnHourApart ==
    [][gp_request' # gp_request /\ gp_request # Never => gp_request' - gp_request >= Hour]_vars
=============================================================================
