---------------------------- MODULE SchedulerProofs ----------------------------
(***************************************************************************)
(* The scheduler fires every poller once an interval, for every length of  *)
(* the hour, every tolerance and any number of overlapping, failing and    *)
(* dying processes: with decisions no slower than the tolerance no hour is *)
(* skipped at all, and with slower ones never two running.                 *)
(***************************************************************************)
EXTENDS Scheduler, TLAPS

(* A process that is deciding was started by the latest cron firing, not    *)
(* longer than StampDelay ago, and is alone in deciding.                    *)
Punctual ==
    /\ \A p \in Process : pc[p] \in Deciding =>
          /\ started[p] = next_cron - Hour
          /\ started[p] <= now /\ now <= started[p] + StampDelay
    /\ \A p, q \in Process : pc[p] \in Deciding /\ pc[q] \in Deciding => p = q

(* The GP stamp is at most StampDelay after its hour, and the stamp a       *)
(* deciding process sees is from an earlier hour.                           *)
StampPunctual ==
    last_run["gp"] # Never =>
        /\ last_run["gp"] <= next_cron - Hour + StampDelay
        /\ \A p \in Process : pc[p] \in Deciding => last_run["gp"] <= started[p] - Hour + StampDelay

Elapsed(name) == last_run[name] # Never => last_run[name] <= now - Interval(name) + Tolerance

(* A poller found due is still due when it is stamped. *)
StillDue ==
    \A p \in Process :
        /\ pc[p] \in {"check_gp", "mark_satcat"} /\ due[p]["satcat"] => Elapsed("satcat")
        /\ pc[p] \in {"mark_satcat", "mark_gp"} /\ due[p]["gp"] => Elapsed("gp")

SchedulerInv == TypeOK /\ Punctual /\ StampPunctual /\ StillDue /\ SkipsOnlyAfterLateStamp

LEMMA InitInv == Init => SchedulerInv
<1> SUFFICES ASSUME Init PROVE SchedulerInv
  OBVIOUS
<1>1. TypeOK
  BY DEF Init, TypeOK, ProcessState
<1>2. (\A p \in Process : pc[p] = "idle") /\ last_run["gp"] = Never
  BY DEF Init, Poller
<1>3. Punctual /\ StampPunctual /\ StillDue /\ SkipsOnlyAfterLateStamp
  BY <1>2 DEF Punctual, StampPunctual, StillDue, SkipsOnlyAfterLateStamp, Deciding
<1> QED BY <1>1, <1>3 DEF SchedulerInv

(* Steps of a process that has decided leave the stamps and the clock alone. *)
LEMMA DecidedStep ==
    ASSUME SchedulerInv, NEW p \in Process, Satcat(p) \/ Gp(p) \/ Fatal(p)
    PROVE  SchedulerInv'
<1>1. /\ UNCHANGED <<now, next_cron, last_run, started, due>>
      /\ \A q \in Process : pc'[q] \in Deciding => pc'[q] = pc[q]
      /\ pc' \in [Process -> ProcessState]
      /\ logged_in' \in [Process -> BOOLEAN]
      /\ gp_request' \in Nat \cup {Never}
      /\ fatals' \in Nat
  <2>1. /\ UNCHANGED <<now, next_cron, last_run, started, due>>
        /\ \E to \in ProcessState \ Deciding : pc' = [pc EXCEPT ![p] = to]
        /\ logged_in' = logged_in \/ logged_in' = [logged_in EXCEPT ![p] = TRUE]
        /\ gp_request' = gp_request \/ gp_request' = now
        /\ fatals' = fatals \/ fatals' = fatals + 1
    <3>1. CASE Satcat(p)
      BY <3>1 DEF Satcat, SkipSatcat, RunSatcat, Login, LoginFails, SatcatRequest, RunReturns, Goto,
                  ProcessState, Deciding
    <3>2. CASE Gp(p)
      BY <3>2 DEF Gp, SkipGp, RunGp, Login, LoginFails, GpRequest, RunReturns, Goto,
                  ProcessState, Deciding
    <3>3. CASE Fatal(p)
      BY <3>3 DEF Fatal, ProcessState, Deciding
    <3> QED BY <3>1, <3>2, <3>3
  <2>2. TypeOK
    BY DEF SchedulerInv
  <2>3. pc' \in [Process -> ProcessState] /\ \A q \in Process : pc'[q] \in Deciding => pc'[q] = pc[q]
    BY <2>1, <2>2 DEF TypeOK
  <2>4. logged_in' \in [Process -> BOOLEAN]
    BY <2>1, <2>2 DEF TypeOK
  <2>5. gp_request' \in Nat \cup {Never} /\ fatals' \in Nat
    BY <2>1, <2>2 DEF TypeOK
  <2> QED BY <2>1, <2>3, <2>4, <2>5
<1>2. TypeOK'
  BY <1>1 DEF SchedulerInv, TypeOK
<1>3. Punctual' /\ StampPunctual'
  BY <1>1 DEF SchedulerInv, Punctual, StampPunctual
<1>4. StillDue' /\ SkipsOnlyAfterLateStamp'
  BY <1>1 DEF SchedulerInv, StillDue, SkipsOnlyAfterLateStamp, Elapsed, Deciding
<1> QED BY <1>2, <1>3, <1>4 DEF SchedulerInv

LEMMA CronStep ==
    ASSUME SchedulerInv, NEW p \in Process, Cron(p)
    PROVE  SchedulerInv'
<1>1. /\ now = next_cron /\ next_cron' = next_cron + Hour
      /\ pc' = [pc EXCEPT ![p] = "check_satcat"]
      /\ started' = [started EXCEPT ![p] = now]
      /\ due' = [due EXCEPT ![p] = [name \in Poller |-> FALSE]]
      /\ logged_in' = [logged_in EXCEPT ![p] = FALSE]
      /\ UNCHANGED <<now, last_run, gp_request, fatals>>
  BY DEF Cron, Goto
<1>2. TypeOK /\ Hour \in Nat /\ StampDelay \in Nat /\ StampDelay < Hour
  BY ClockAssumption DEF SchedulerInv
<1>3. TypeOK'
  BY <1>1, <1>2 DEF TypeOK, ProcessState, Deciding
<1>4. \A q \in Process : pc[q] \notin Deciding
  BY <1>1, <1>2 DEF SchedulerInv, Punctual, TypeOK
<1>5. \A q \in Process : pc'[q] \in Deciding => q = p
  BY <1>1, <1>2, <1>4 DEF TypeOK
<1>6. pc'[p] = "check_satcat" /\ started'[p] = now
  BY <1>1, <1>2 DEF TypeOK
<1>7. Punctual'
  BY <1>1, <1>2, <1>5, <1>6 DEF Punctual, TypeOK
<1>8. StampPunctual'
  BY <1>1, <1>2, <1>5, <1>6 DEF SchedulerInv, StampPunctual, TypeOK, Poller
<1>9. StillDue' /\ SkipsOnlyAfterLateStamp'
  BY <1>5, <1>6 DEF StillDue, SkipsOnlyAfterLateStamp, Deciding
<1> QED BY <1>3, <1>7, <1>8, <1>9 DEF SchedulerInv

LEMMA CheckStep ==
    ASSUME SchedulerInv, NEW p \in Process, CheckSatcat(p) \/ CheckGp(p)
    PROVE  SchedulerInv'
<1>1. /\ UNCHANGED <<now, next_cron, last_run, started, logged_in, gp_request, fatals>>
      /\ \/ /\ pc[p] = "check_satcat" /\ pc' = [pc EXCEPT ![p] = "check_gp"]
            /\ due' = [due EXCEPT ![p]["satcat"] = IsPollerDue("satcat")]
         \/ /\ pc[p] = "check_gp" /\ pc' = [pc EXCEPT ![p] = "mark_satcat"]
            /\ due' = [due EXCEPT ![p]["gp"] = IsPollerDue("gp")]
  BY DEF CheckSatcat, CheckGp, CheckDue, Goto
<1>2. /\ TypeOK /\ Hour \in Nat /\ StampDelay \in Nat
      /\ Tolerance \in Nat /\ SatcatInterval \in Nat
  BY ClockAssumption DEF SchedulerInv
<1>3. IsPollerDue("satcat") \in BOOLEAN /\ IsPollerDue("gp") \in BOOLEAN
  BY DEF IsPollerDue
<1>4. TypeOK'
  <2>1. due' \in [Process -> [Poller -> BOOLEAN]]
    BY <1>1, <1>2, <1>3 DEF TypeOK, Poller
  <2> QED BY <1>1, <1>2, <2>1 DEF TypeOK, ProcessState, Deciding
<1>5. \A q \in Process : pc'[q] \in Deciding <=> pc[q] \in Deciding
  BY <1>1, <1>2 DEF TypeOK, Deciding
<1>6. Punctual' /\ StampPunctual'
  BY <1>1, <1>5 DEF SchedulerInv, Punctual, StampPunctual
<1>7. \A q \in Process : pc'[q] \in Deciding => q = p
  BY <1>1, <1>5 DEF SchedulerInv, Punctual, Deciding
<1>8. pc[p] = "check_gp" /\ ~ IsPollerDue("gp")
      => last_run["gp"] \in (started[p] - Hour + Tolerance + 1)..(started[p] - Hour + StampDelay)
  <2>1. SUFFICES ASSUME pc[p] = "check_gp", last_run["gp"] # Never,
                        ~ (last_run["gp"] <= now - Hour + Tolerance)
                 PROVE  last_run["gp"] \in
                          (started[p] - Hour + Tolerance + 1)..(started[p] - Hour + StampDelay)
    BY DEF IsPollerDue, Interval
  <2>2. /\ last_run["gp"] <= started[p] - Hour + StampDelay /\ started[p] <= now
        /\ last_run["gp"] \in Nat /\ started[p] \in Nat /\ now \in Nat
    BY <1>2, <2>1 DEF SchedulerInv, StampPunctual, Punctual, Deciding, TypeOK, Poller
  <2> QED BY <1>2, <2>1, <2>2
<1>9. CASE pc[p] = "check_satcat"
  <2>1. pc'[p] = "check_gp" /\ due'[p]["satcat"] = IsPollerDue("satcat")
    BY <1>1, <1>2, <1>9 DEF TypeOK, Poller
  <2>2. StillDue'
    BY <1>1, <1>7, <2>1 DEF StillDue, Elapsed, IsPollerDue, Deciding
  <2>3. SkipsOnlyAfterLateStamp'
    BY <1>7, <2>1 DEF SkipsOnlyAfterLateStamp, Deciding
  <2> QED BY <1>4, <1>6, <2>2, <2>3 DEF SchedulerInv
<1>10. CASE pc[p] = "check_gp"
  <2>1. /\ pc'[p] = "mark_satcat" /\ due'[p]["gp"] = IsPollerDue("gp")
        /\ due'[p]["satcat"] = due[p]["satcat"]
    BY <1>1, <1>2, <1>10 DEF TypeOK, Poller
  <2>2. due[p]["satcat"] => Elapsed("satcat")
    BY <1>10 DEF SchedulerInv, StillDue
  <2>3. StillDue'
    BY <1>1, <1>7, <2>1, <2>2 DEF StillDue, Elapsed, IsPollerDue, Deciding
  <2>4. SkipsOnlyAfterLateStamp'
    BY <1>1, <1>7, <1>8, <1>10, <2>1 DEF SkipsOnlyAfterLateStamp, Deciding
  <2> QED BY <1>4, <1>6, <2>3, <2>4 DEF SchedulerInv
<1> QED BY <1>1, <1>9, <1>10

LEMMA MarkStep ==
    ASSUME SchedulerInv, NEW p \in Process, MarkSatcat(p) \/ MarkGp(p)
    PROVE  SchedulerInv'
<1>1. /\ UNCHANGED <<now, next_cron, started, due, logged_in, gp_request, fatals>>
      /\ \/ /\ pc[p] = "mark_satcat" /\ pc' = [pc EXCEPT ![p] = "mark_gp"]
            /\ last_run' = IF due[p]["satcat"] THEN [last_run EXCEPT !["satcat"] = now] ELSE last_run
         \/ /\ pc[p] = "mark_gp" /\ pc' = [pc EXCEPT ![p] = "satcat"]
            /\ last_run' = IF due[p]["gp"] THEN [last_run EXCEPT !["gp"] = now] ELSE last_run
  BY DEF MarkSatcat, MarkGp, Mark, Goto
<1>2. TypeOK /\ Hour \in Nat /\ StampDelay \in Nat
  BY ClockAssumption DEF SchedulerInv
<1>3. last_run' \in [Poller -> Nat \cup {Never}]
  BY <1>1, <1>2 DEF TypeOK, Poller
<1>4. TypeOK'
  BY <1>1, <1>2, <1>3 DEF TypeOK, ProcessState, Deciding
<1>5. \A q \in Process : pc'[q] \in Deciding => pc[q] \in Deciding /\ q = p
  BY <1>1, <1>2 DEF SchedulerInv, Punctual, TypeOK, Deciding
<1>6. Punctual'
  BY <1>1, <1>5 DEF SchedulerInv, Punctual
<1>7. CASE pc[p] = "mark_satcat"
  <2>1. pc'[p] = "mark_gp" /\ last_run'["gp"] = last_run["gp"]
    BY <1>1, <1>2, <1>7 DEF TypeOK, Poller
  <2>2. StampPunctual'
    BY <1>1, <1>5, <2>1 DEF SchedulerInv, StampPunctual
  <2>3. StillDue' /\ SkipsOnlyAfterLateStamp'
    BY <1>1, <1>5, <1>7, <2>1 DEF SchedulerInv, StillDue, SkipsOnlyAfterLateStamp, Elapsed, Deciding
  <2> QED BY <1>4, <1>6, <2>2, <2>3 DEF SchedulerInv
<1>8. CASE pc[p] = "mark_gp"
  <2>1. pc'[p] = "satcat" /\ \A q \in Process : pc'[q] \notin Deciding
    BY <1>1, <1>2, <1>5, <1>8 DEF TypeOK, Deciding
  <2>2. last_run'["gp"] = now \/ last_run'["gp"] = last_run["gp"]
    BY <1>1, <1>2, <1>8 DEF TypeOK, Poller
  <2>3. now <= next_cron - Hour + StampDelay
    BY <1>8 DEF SchedulerInv, Punctual, Deciding
  <2>4. StampPunctual'
    BY <1>1, <2>1, <2>2, <2>3 DEF SchedulerInv, StampPunctual
  <2>5. StillDue' /\ SkipsOnlyAfterLateStamp'
    BY <2>1 DEF StillDue, SkipsOnlyAfterLateStamp, Deciding
  <2> QED BY <1>4, <1>6, <2>4, <2>5 DEF SchedulerInv
<1> QED BY <1>1, <1>7, <1>8

LEMMA TickStep ==
    ASSUME SchedulerInv, Tick
    PROVE  SchedulerInv'
<1>1. /\ now' = now + 1
      /\ \A p \in Process : pc[p] \in Deciding => now < started[p] + StampDelay
      /\ UNCHANGED <<next_cron, last_run, pc, started, due, logged_in, gp_request, fatals>>
  BY DEF Tick
<1>2. TypeOK /\ Hour \in Nat /\ SatcatInterval \in Nat /\ StampDelay \in Nat /\ Tolerance \in Nat
  BY ClockAssumption DEF SchedulerInv
<1>3. TypeOK'
  BY <1>1, <1>2 DEF TypeOK
<1>4. Punctual'
  BY <1>1, <1>2 DEF SchedulerInv, Punctual, TypeOK
<1>5. StampPunctual' /\ SkipsOnlyAfterLateStamp'
  BY <1>1 DEF SchedulerInv, StampPunctual, SkipsOnlyAfterLateStamp
<1>6. ASSUME NEW name \in Poller, Elapsed(name) PROVE Elapsed(name)'
  BY <1>1, <1>2, <1>6 DEF Elapsed, Interval, TypeOK
<1>7. StillDue'
  BY <1>1, <1>6 DEF SchedulerInv, StillDue, Poller
<1> QED BY <1>3, <1>4, <1>5, <1>7 DEF SchedulerInv

LEMMA StutterStep ==
    ASSUME SchedulerInv, UNCHANGED vars
    PROVE  SchedulerInv'
BY DEF vars, SchedulerInv, TypeOK, Punctual, StampPunctual, StillDue, SkipsOnlyAfterLateStamp, Elapsed

THEOREM SchedulerInvariant == Spec => []SchedulerInv
<1>1. ASSUME SchedulerInv, [Next]_vars PROVE SchedulerInv'
  BY <1>1, CronStep, CheckStep, MarkStep, DecidedStep, TickStep, StutterStep DEF Next, Step, End
<1> QED BY <1>1, InitInv, PTL DEF Spec

(* Clock, stamps and locals stay within their types, without a bound.       *)
THEOREM SchedulerTypeCorrect == Spec => []TypeOK
<1>1. SchedulerInv => TypeOK
  BY DEF SchedulerInv
<1> QED BY <1>1, SchedulerInvariant, PTL

(* A process finds the GP poller not due only after a late stamp.           *)
THEOREM SkipNeedsLateStamp == Spec => []SkipsOnlyAfterLateStamp
<1>1. SchedulerInv => SkipsOnlyAfterLateStamp
  BY DEF SchedulerInv
<1> QED BY <1>1, SchedulerInvariant, PTL

(* So when decisions are no slower than the tolerance, no process ever      *)
(* finds that the GP poller is not due at its hour.                         *)
NoHourSkipped ==
    \A p \in Process : pc[p] \in {"mark_satcat", "mark_gp"} => due[p]["gp"]

THEOREM EveryHourPolled == StampDelay <= Tolerance => (Spec => []NoHourSkipped)
<1> SUFFICES ASSUME StampDelay <= Tolerance PROVE Spec => []NoHourSkipped
  OBVIOUS
<1>1. SchedulerInv => NoHourSkipped
  <2> SUFFICES ASSUME SchedulerInv, NEW p \in Process,
                      pc[p] \in {"mark_satcat", "mark_gp"}, ~ due[p]["gp"]
               PROVE  FALSE
    BY DEF NoHourSkipped
  <2>1. last_run["gp"] \in (started[p] - Hour + Tolerance + 1)..(started[p] - Hour + StampDelay)
    BY DEF SchedulerInv, SkipsOnlyAfterLateStamp
  <2>2. started[p] \in Int /\ Hour \in Int /\ Tolerance \in Int /\ StampDelay \in Int
    BY ClockAssumption DEF SchedulerInv, TypeOK
  <2> QED BY <2>1, <2>2
<1> QED BY <1>1, SchedulerInvariant, PTL

(* Stamps of a poller are an interval less the tolerance apart, or more.    *)
THEOREM StampSpacing == Spec => StampsApart
<1> DEFINE Apart == \A name \in Poller :
              last_run'[name] # last_run[name] /\ last_run[name] # Never
              => last_run'[name] - last_run[name] >= Interval(name) - Tolerance
<1>1. ASSUME SchedulerInv, [Next]_vars PROVE Apart
  <2>1. SUFFICES ASSUME NEW name \in Poller, last_run'[name] # last_run[name], last_run[name] # Never
                 PROVE  last_run'[name] - last_run[name] >= Interval(name) - Tolerance
    OBVIOUS
  <2>2. PICK p \in Process : MarkSatcat(p) \/ MarkGp(p)
    BY <1>1, <2>1 DEF Next, End, vars, Tick, Cron, Step, Fatal, CheckSatcat, CheckGp, CheckDue, Satcat, Gp,
                SkipSatcat, RunSatcat, SkipGp, RunGp, Login, LoginFails, SatcatRequest, GpRequest,
                RunReturns
  <2>3. last_run'[name] = now /\ Elapsed(name)
    BY <1>1, <2>1, <2>2 DEF MarkSatcat, MarkGp, Mark, Goto, SchedulerInv, StillDue, TypeOK, Poller
  <2>4. /\ last_run[name] \in Int /\ now \in Int /\ Interval(name) \in Int /\ Tolerance \in Int
    BY <1>1, <2>1, ClockAssumption DEF SchedulerInv, TypeOK, Interval
  <2> QED BY <2>1, <2>3, <2>4 DEF Elapsed
<1>2. SchedulerInv /\ [Next]_vars => [Apart]_vars
  BY <1>1
<1> QED BY <1>2, SchedulerInvariant, PTL DEF Spec, StampsApart

-----------------------------------------------------------------------------
(* Why no poller falls more than an hour behind.  A stamp is at most an      *)
(* interval, less the tolerance, older than the latest hour at which its     *)
(* poller was decided on; that is the hour before while the process of this  *)
(* hour has not decided, or has decided to run it and not stamped it yet.    *)

Undecided(p, name) ==
    \/ pc[p] = "check_satcat"
    \/ pc[p] = "check_gp" /\ (name = "gp" \/ due[p]["satcat"])
    \/ pc[p] = "mark_satcat" /\ due[p][name]
    \/ pc[p] = "mark_gp" /\ name = "gp" /\ due[p]["gp"]

Oldest(name, hour) == hour - Interval(name) + Tolerance

StampAge(name) ==
    fatals = 0 /\ last_run[name] # Never =>
        /\ last_run[name] > Oldest(name, next_cron - 2 * Hour)
        /\ (\A p \in Process : ~ Undecided(p, name)) => last_run[name] > Oldest(name, next_cron - Hour)

OnTimeInv ==
    /\ SchedulerInv
    /\ now <= next_cron
    /\ \A name \in Poller : StampAge(name)

LEMMA ConstantTypes ==
    /\ Hour \in Nat /\ StampDelay \in Nat /\ Tolerance \in Nat /\ SatcatInterval \in Nat
    /\ \A name \in Poller : Interval(name) \in Nat /\ Tolerance < Interval(name)
BY ClockAssumption DEF Interval

LEMMA OnTimeInit == Init => OnTimeInv
<1> SUFFICES ASSUME Init PROVE OnTimeInv
  OBVIOUS
<1>1. now = 0 /\ next_cron = 0 /\ \A name \in Poller : last_run[name] = Never
  BY DEF Init
<1> QED BY <1>1, InitInv DEF OnTimeInv, StampAge

(* Cron finds every earlier decision taken. *)
LEMMA OnTimeCron ==
    ASSUME OnTimeInv, SchedulerInv', NEW p \in Process, Cron(p)
    PROVE  OnTimeInv'
<1>1. /\ now = next_cron /\ next_cron' = next_cron + Hour
      /\ pc' = [pc EXCEPT ![p] = "check_satcat"]
      /\ UNCHANGED <<now, last_run, fatals>>
  BY DEF Cron, Goto
<1>2. TypeOK /\ Hour \in Nat /\ StampDelay < Hour
  BY ClockAssumption DEF OnTimeInv, SchedulerInv
<1>3. \A q \in Process : pc[q] \notin Deciding
  BY <1>1, <1>2, ConstantTypes DEF OnTimeInv, SchedulerInv, Punctual, TypeOK
<1>4. ASSUME NEW name \in Poller PROVE StampAge(name)'
  <2>1. \A q \in Process : ~ Undecided(q, name)
    BY <1>3 DEF Undecided, Deciding
  <2>2. Undecided(p, name)'
    BY <1>1, <1>2 DEF Undecided, TypeOK
  <2>3. next_cron' - 2 * Hour = next_cron - Hour
    BY <1>1, <1>2 DEF TypeOK
  <2> QED BY <1>1, <2>1, <2>2, <2>3 DEF OnTimeInv, StampAge, Oldest, Interval
<1>5. (now <= next_cron)'
  BY <1>1, <1>2 DEF TypeOK
<1> QED BY <1>4, <1>5 DEF OnTimeInv

(* A poller that is found not due has a young stamp. *)
LEMMA OnTimeCheck ==
    ASSUME OnTimeInv, SchedulerInv', NEW p \in Process, CheckSatcat(p) \/ CheckGp(p)
    PROVE  OnTimeInv'
<1>1. /\ UNCHANGED <<now, next_cron, last_run, started, fatals>>
      /\ \/ /\ pc[p] = "check_satcat" /\ pc' = [pc EXCEPT ![p] = "check_gp"]
            /\ due' = [due EXCEPT ![p]["satcat"] = IsPollerDue("satcat")]
         \/ /\ pc[p] = "check_gp" /\ pc' = [pc EXCEPT ![p] = "mark_satcat"]
            /\ due' = [due EXCEPT ![p]["gp"] = IsPollerDue("gp")]
  BY DEF CheckSatcat, CheckGp, CheckDue, Goto
<1>2. TypeOK
  BY DEF OnTimeInv, SchedulerInv
<1>3. started[p] = next_cron - Hour /\ started[p] <= now
  BY <1>1 DEF OnTimeInv, SchedulerInv, Punctual, Deciding
<1>4. ASSUME NEW name \in Poller, last_run[name] # Never, ~ IsPollerDue(name)
      PROVE  last_run[name] > Oldest(name, next_cron - Hour)
  <2>1. last_run[name] \in Nat /\ now \in Nat /\ next_cron \in Nat /\ ~ (last_run[name] <= now - Interval(name) + Tolerance)
    BY <1>2, <1>4 DEF TypeOK, IsPollerDue
  <2> QED BY <1>3, <2>1, ConstantTypes DEF Oldest
<1>5. ASSUME NEW name \in Poller PROVE StampAge(name)'
  <2>1. CASE pc[p] = "check_satcat"
    <3>1. pc'[p] = "check_gp" /\ due'[p]["satcat"] = IsPollerDue("satcat")
      BY <1>1, <1>2, <2>1 DEF TypeOK, Poller
    <3>2. ~ Undecided(p, name)' => name = "satcat" /\ ~ IsPollerDue(name)
      BY <3>1 DEF Undecided, Poller
    <3> QED BY <1>1, <1>4, <3>2 DEF OnTimeInv, StampAge, Oldest, Interval
  <2>2. CASE pc[p] = "check_gp"
    <3>1. /\ pc'[p] = "mark_satcat" /\ due'[p]["gp"] = IsPollerDue("gp")
          /\ due'[p]["satcat"] = due[p]["satcat"]
      BY <1>1, <1>2, <2>2 DEF TypeOK, Poller
    <3>2. ~ Undecided(p, "gp")' => ~ IsPollerDue("gp")
      BY <3>1 DEF Undecided
    <3>3. \A q \in Process : ~ Undecided(q, "satcat")' => ~ Undecided(q, "satcat")
      BY <1>1, <1>2, <2>2, <3>1 DEF Undecided, TypeOK
    <3>4. CASE name = "gp"
      BY <1>1, <1>4, <3>2, <3>4 DEF OnTimeInv, StampAge, Oldest, Interval
    <3>5. CASE name = "satcat"
      BY <1>1, <3>3, <3>5 DEF OnTimeInv, StampAge, Oldest, Interval
    <3> QED BY <3>4, <3>5 DEF Poller
  <2> QED BY <1>1, <2>1, <2>2
<1> QED BY <1>1, <1>5 DEF OnTimeInv

(* A poller that is stamped has a stamp of this hour. *)
LEMMA OnTimeMark ==
    ASSUME OnTimeInv, SchedulerInv', NEW p \in Process, MarkSatcat(p) \/ MarkGp(p)
    PROVE  OnTimeInv'
<1>1. /\ UNCHANGED <<now, next_cron, started, due, fatals>>
      /\ \/ /\ pc[p] = "mark_satcat" /\ pc' = [pc EXCEPT ![p] = "mark_gp"]
            /\ last_run' = IF due[p]["satcat"] THEN [last_run EXCEPT !["satcat"] = now] ELSE last_run
         \/ /\ pc[p] = "mark_gp" /\ pc' = [pc EXCEPT ![p] = "satcat"]
            /\ last_run' = IF due[p]["gp"] THEN [last_run EXCEPT !["gp"] = now] ELSE last_run
  BY DEF MarkSatcat, MarkGp, Mark, Goto
<1>2. TypeOK
  BY DEF OnTimeInv, SchedulerInv
<1>3. started[p] = next_cron - Hour /\ started[p] <= now
  BY <1>1 DEF OnTimeInv, SchedulerInv, Punctual, Deciding
<1>4. ASSUME NEW name \in Poller PROVE StampAge(name)'
  <2>1. CASE last_run'[name] = now
    <3>1. now \in Nat /\ next_cron \in Nat /\ now >= next_cron - Hour
      BY <1>2, <1>3 DEF TypeOK
    <3>2. now > Oldest(name, next_cron - Hour) /\ now > Oldest(name, next_cron - 2 * Hour)
      BY <3>1, ConstantTypes DEF Oldest
    <3> QED BY <1>1, <2>1, <3>2 DEF StampAge, Oldest, Interval
  <2>2. CASE last_run'[name] # now
    <3>1. last_run'[name] = last_run[name]
      BY <1>1, <1>2, <2>2 DEF TypeOK, Poller
    <3>2. pc[p] = "mark_satcat" => ~ (name = "satcat" /\ due[p][name])
      BY <1>1, <1>2, <2>2 DEF TypeOK, Poller
    <3>3. pc[p] = "mark_gp" => ~ (name = "gp" /\ due[p][name])
      BY <1>1, <1>2, <2>2 DEF TypeOK, Poller
    <3>4. \A q \in Process : Undecided(q, name) => Undecided(q, name)'
      BY <1>1, <1>2, <3>2, <3>3 DEF Undecided, TypeOK, Poller
    <3> QED BY <1>1, <3>1, <3>4 DEF OnTimeInv, StampAge, Oldest, Interval
  <2> QED BY <2>1, <2>2
<1> QED BY <1>1, <1>4 DEF OnTimeInv

(* The other steps of a process change neither stamps nor decisions; one     *)
(* that dies deciding counts as a fatal error.                               *)
LEMMA OnTimeOther ==
    ASSUME OnTimeInv, SchedulerInv', NEW p \in Process, Satcat(p) \/ Gp(p) \/ Fatal(p)
    PROVE  OnTimeInv'
<1>1. TypeOK
  BY DEF OnTimeInv, SchedulerInv
<1>2. /\ UNCHANGED <<now, next_cron, last_run, due>>
      /\ fatals' # 0 \/ (fatals' = fatals /\ \A q \in Process : pc[q] \in Deciding => pc'[q] = pc[q])
  <2>1. CASE Satcat(p)
    BY <1>1, <2>1 DEF Satcat, SkipSatcat, RunSatcat, Login, LoginFails, SatcatRequest, RunReturns, Goto,
                Deciding, TypeOK
  <2>2. CASE Gp(p)
    BY <1>1, <2>2 DEF Gp, SkipGp, RunGp, Login, LoginFails, GpRequest, RunReturns, Goto,
                Deciding, TypeOK
  <2>3. CASE Fatal(p)
    BY <1>1, <2>3 DEF Fatal, TypeOK
  <2> QED BY <2>1, <2>2, <2>3
<1>3. ASSUME NEW name \in Poller PROVE StampAge(name)'
  <2>1. CASE fatals' # 0
    BY <2>1 DEF StampAge
  <2>2. CASE fatals' = fatals /\ \A q \in Process : pc[q] \in Deciding => pc'[q] = pc[q]
    <3>1. \A q \in Process : Undecided(q, name) => Undecided(q, name)'
      BY <1>2, <2>2 DEF Undecided, Deciding
    <3> QED BY <1>2, <2>2, <3>1 DEF OnTimeInv, StampAge, Oldest, Interval
  <2> QED BY <1>2, <2>1, <2>2
<1> QED BY <1>2, <1>3 DEF OnTimeInv

LEMMA OnTimeTick ==
    ASSUME OnTimeInv, SchedulerInv', Tick \/ UNCHANGED vars
    PROVE  OnTimeInv'
<1>1. /\ now' = now \/ (now' = now + 1 /\ now # next_cron)
      /\ UNCHANGED <<next_cron, last_run, pc, due, fatals>>
  BY DEF Tick, vars
<1>2. (now <= next_cron)'
  BY <1>1 DEF OnTimeInv, SchedulerInv, TypeOK
<1>3. \A name \in Poller : StampAge(name)'
  BY <1>1 DEF OnTimeInv, StampAge, Undecided, Oldest, Interval
<1> QED BY <1>2, <1>3 DEF OnTimeInv

THEOREM OnTimeInvariant == Spec => []OnTimeInv
<1>1. ASSUME OnTimeInv, SchedulerInv', [Next]_vars PROVE OnTimeInv'
  BY <1>1, OnTimeCron, OnTimeCheck, OnTimeMark, OnTimeOther, OnTimeTick DEF Next, Step, End
<1> QED BY <1>1, OnTimeInit, SchedulerInvariant, PTL DEF Spec

(* As long as no process dies, a stamp is younger than its interval, an      *)
(* hour and what decisions may exceed the tolerance by.                      *)
THEOREM PollersKeepTime == Spec => []PollersOnTime
<1>1. OnTimeInv => PollersOnTime
  <2> SUFFICES ASSUME OnTimeInv, NEW name \in Poller, fatals = 0, last_run[name] # Never
               PROVE  now - last_run[name] < Interval(name) + Hour + StampDelay - Tolerance
    BY DEF PollersOnTime
  <2>1. last_run[name] \in Nat /\ now \in Nat /\ next_cron \in Nat /\ now <= next_cron
    BY DEF OnTimeInv, SchedulerInv, TypeOK
  <2>2. CASE \A p \in Process : ~ Undecided(p, name)
    <3>1. last_run[name] > Oldest(name, next_cron - Hour)
      BY <2>2 DEF OnTimeInv, StampAge
    <3> QED BY <2>1, <3>1, ConstantTypes DEF Oldest
  <2>3. CASE \E p \in Process : Undecided(p, name)
    <3>1. now <= next_cron - Hour + StampDelay
      BY <2>3 DEF OnTimeInv, SchedulerInv, Punctual, Undecided, Deciding
    <3>2. last_run[name] > Oldest(name, next_cron - 2 * Hour)
      BY DEF OnTimeInv, StampAge
    <3> QED BY <2>1, <3>1, <3>2, ConstantTypes DEF Oldest
  <2> QED BY <2>2, <2>3
<1> QED BY <1>1, OnTimeInvariant, PTL

-----------------------------------------------------------------------------
(* Who may be alive at once.  A process lives from the hour that started it  *)
(* for MaxRun at most; once it has stamped its SATCAT run, the stamp is not  *)
(* older than the process, so nobody finds the poller due while it lives.    *)

Live(p) == pc[p] # "idle"

LifeSpan ==
    \A p \in Process : Live(p) =>
        /\ started[p] <= now /\ now <= started[p] + MaxRun
        /\ started[p] <= next_cron - Hour

SatcatStamped(p) ==
    due[p]["satcat"] /\ pc[p] \in {"mark_gp", "satcat", "satcat_login", "satcat_fetch", "satcat_wait"}

FreshStamp ==
    \A p \in Process : SatcatStamped(p) =>
        last_run["satcat"] # Never /\ last_run["satcat"] >= started[p]

OneSatcatRun == \A p, q \in Process : InSatcatRun(p) /\ InSatcatRun(q) => p = q

LifeInv == LifeSpan /\ FreshStamp

LEMMA LifeInit == Init => LifeInv /\ OneSatcatRun
BY DEF Init, LifeInv, LifeSpan, FreshStamp, OneSatcatRun, Live, SatcatStamped, InSatcatRun

(* What a step of a live process p is, seen from its age and its stamp.     *)
LEMMA LiveStep ==
    ASSUME TypeOK, NEW p \in Process, Step(p) \/ Fatal(p)
    PROVE  /\ Live(p)
           /\ UNCHANGED <<now, next_cron, started>>
           /\ \A q \in Process : q # p => pc'[q] = pc[q] /\ due'[q] = due[q]
<1>1. /\ Live(p) /\ UNCHANGED <<now, next_cron, started>>
      /\ \E to \in ProcessState : pc' = [pc EXCEPT ![p] = to]
  <2>1. CASE CheckSatcat(p) \/ CheckGp(p) \/ MarkSatcat(p) \/ MarkGp(p)
    BY <2>1 DEF CheckSatcat, CheckGp, CheckDue, MarkSatcat, MarkGp, Mark, Goto, Live,
                ProcessState, Deciding
  <2>2. CASE Satcat(p)
    BY <2>2 DEF Satcat, SkipSatcat, RunSatcat, Login, LoginFails, SatcatRequest, RunReturns, Goto,
                Live, ProcessState
  <2>3. CASE Gp(p)
    BY <2>3 DEF Gp, SkipGp, RunGp, Login, LoginFails, GpRequest, RunReturns, Goto, Live, ProcessState
  <2>4. CASE Fatal(p)
    BY <2>4 DEF Fatal, Live, ProcessState
  <2> QED BY <2>1, <2>2, <2>3, <2>4 DEF Step
<1>2. UNCHANGED due \/ \E name \in Poller : \E b : due' = [due EXCEPT ![p][name] = b]
  <2>1. CASE CheckSatcat(p) \/ CheckGp(p)
    BY <2>1 DEF CheckSatcat, CheckGp, CheckDue, Poller
  <2>2. CASE MarkSatcat(p) \/ MarkGp(p)
    BY <2>2 DEF MarkSatcat, MarkGp, Mark
  <2>3. CASE Satcat(p) \/ Gp(p) \/ Fatal(p)
    BY <2>3 DEF Satcat, SkipSatcat, RunSatcat, Login, LoginFails, SatcatRequest, RunReturns,
                Gp, SkipGp, RunGp, GpRequest, Fatal
  <2> QED BY <2>1, <2>2, <2>3 DEF Step
<1> QED BY <1>1, <1>2 DEF TypeOK

(* A step of p leaves its SATCAT stamp alone, or sets it to the present;    *)
(* and p is past that stamp only if it was, or stamps it now.               *)
LEMMA StampStep ==
    ASSUME TypeOK, NEW p \in Process, Step(p) \/ Fatal(p)
    PROVE  /\ \/ last_run'["satcat"] = last_run["satcat"]
              \/ last_run'["satcat"] = now /\ due[p]["satcat"]
           /\ SatcatStamped(p)' => SatcatStamped(p) \/ last_run'["satcat"] = now
           /\ InSatcatRun(p)' => \/ InSatcatRun(p)
                                 \/ CheckSatcat(p) /\ IsPollerDue("satcat")
<1>1. CASE CheckSatcat(p)
  <2>1. /\ pc'[p] = "check_gp" /\ due'[p]["satcat"] = IsPollerDue("satcat") /\ last_run' = last_run
    BY <1>1 DEF CheckSatcat, CheckDue, Goto, TypeOK, Poller
  <2> QED BY <1>1, <2>1 DEF SatcatStamped, InSatcatRun
<1>2. CASE CheckGp(p)
  <2>1. /\ pc[p] = "check_gp" /\ pc'[p] = "mark_satcat" /\ (due'[p]["satcat"] <=> due[p]["satcat"])
        /\ last_run' = last_run
    BY <1>2 DEF CheckGp, CheckDue, Goto, TypeOK, Poller
  <2> QED BY <2>1 DEF SatcatStamped, InSatcatRun
<1>3. CASE MarkSatcat(p)
  <2>1. /\ pc[p] = "mark_satcat" /\ pc'[p] = "mark_gp" /\ (due'[p]["satcat"] <=> due[p]["satcat"])
        /\ last_run'["satcat"] = IF due[p]["satcat"] THEN now ELSE last_run["satcat"]
    BY <1>3 DEF MarkSatcat, Mark, Goto, TypeOK, Poller
  <2> QED BY <2>1 DEF SatcatStamped, InSatcatRun
<1>4. CASE MarkGp(p)
  <2>1. /\ pc[p] = "mark_gp" /\ pc'[p] = "satcat" /\ (due'[p]["satcat"] <=> due[p]["satcat"])
        /\ last_run'["satcat"] = last_run["satcat"]
    BY <1>4 DEF MarkGp, Mark, Goto, TypeOK, Poller
  <2> QED BY <2>1 DEF SatcatStamped, InSatcatRun
<1>5. CASE Satcat(p)
  <2>1. /\ last_run' = last_run /\ (due'[p]["satcat"] <=> due[p]["satcat"])
        /\ \/ pc[p] = "satcat" /\ pc'[p] \in {"satcat_login", "gp"}
           \/ pc[p] = "satcat_login" /\ pc'[p] \in {"satcat_fetch", "gp"}
           \/ pc[p] = "satcat_fetch" /\ pc'[p] = "satcat_wait"
           \/ pc[p] = "satcat_wait" /\ pc'[p] = "gp"
    BY <1>5 DEF Satcat, SkipSatcat, RunSatcat, Login, LoginFails, SatcatRequest, RunReturns, Goto, TypeOK
  <2> QED BY <2>1 DEF SatcatStamped, InSatcatRun
<1>6. CASE Gp(p) \/ Fatal(p)
  <2>1. last_run' = last_run /\ pc'[p] \in {"gp_login", "gp_fetch", "gp_wait", "idle"}
    BY <1>6 DEF Gp, SkipGp, RunGp, Login, LoginFails, GpRequest, RunReturns, Goto, Fatal, TypeOK
  <2> QED BY <2>1 DEF SatcatStamped, InSatcatRun
<1> QED BY <1>1, <1>2, <1>3, <1>4, <1>5, <1>6 DEF Step

LEMMA LifeStep ==
    ASSUME SchedulerInv, LifeInv, now <= next_cron, [Next]_vars
    PROVE  LifeInv'
<1>1. TypeOK /\ Hour \in Nat /\ MaxRun \in Nat
  BY ClockAssumption DEF SchedulerInv
<1>2. CASE \E p \in Process : Step(p) \/ Fatal(p)
  <2>1. PICK p \in Process : Step(p) \/ Fatal(p)
    BY <1>2
  <2>2. LifeSpan'
    BY <1>1, <2>1, LiveStep DEF LifeInv, LifeSpan, Live
  <2>3. FreshStamp'
    <3> SUFFICES ASSUME NEW q \in Process, SatcatStamped(q)'
                 PROVE  last_run'["satcat"] # Never /\ last_run'["satcat"] >= started'[q]
      BY DEF FreshStamp
    <3>1. started'[q] = started[q] /\ started[q] <= now /\ now # Never /\ now \in Nat
      <4>1. Live(q)
        BY <1>1, <2>1, LiveStep DEF SatcatStamped, Live
      <4> QED BY <1>1, <2>1, <4>1, LiveStep, ClockAssumption DEF LifeInv, LifeSpan, TypeOK
    <3>2. SatcatStamped(q) \/ last_run'["satcat"] = now
      BY <1>1, <2>1, LiveStep, StampStep DEF SatcatStamped
    <3>3. last_run'["satcat"] = last_run["satcat"] \/ last_run'["satcat"] = now
      BY <1>1, <2>1, StampStep
    <3> QED BY <3>1, <3>2, <3>3 DEF LifeInv, FreshStamp
  <2> QED BY <2>2, <2>3 DEF LifeInv
<1>3. CASE \E p \in Process : Cron(p)
  <2>1. PICK p \in Process : Cron(p)
    BY <1>3
  <2>2. /\ now' = now /\ now = next_cron /\ next_cron' = next_cron + Hour /\ last_run' = last_run
        /\ started'[p] = now /\ pc'[p] = "check_satcat"
        /\ \A q \in Process : q # p => pc'[q] = pc[q] /\ due'[q] = due[q] /\ started'[q] = started[q]
    BY <1>1, <2>1 DEF Cron, Goto, TypeOK
  <2>3. LifeSpan'
    BY <1>1, <2>2 DEF LifeInv, LifeSpan, Live, TypeOK
  <2>4. FreshStamp'
    BY <2>2 DEF LifeInv, FreshStamp, SatcatStamped
  <2> QED BY <2>3, <2>4 DEF LifeInv
<1>4. CASE Tick
  <2>1. /\ now' = now + 1 /\ \A p \in Process : Live(p) => now < started[p] + MaxRun
        /\ UNCHANGED <<next_cron, last_run, pc, started, due>>
    BY <1>4 DEF Tick, Live
  <2>2. LifeSpan'
    BY <1>1, <2>1 DEF LifeInv, LifeSpan, Live, TypeOK
  <2>3. FreshStamp'
    BY <2>1 DEF LifeInv, FreshStamp, SatcatStamped
  <2> QED BY <2>2, <2>3 DEF LifeInv
<1>5. CASE UNCHANGED vars
  BY <1>5 DEF vars, LifeInv, LifeSpan, FreshStamp, Live, SatcatStamped
<1> QED BY <1>2, <1>3, <1>4, <1>5 DEF Next, End

(* Whoever finds the SATCAT poller due finds nobody else in a SATCAT run.   *)
LEMMA SatcatRunStep ==
    ASSUME MaxRun < SatcatInterval - Tolerance,
           SchedulerInv, LifeInv, OneSatcatRun, [Next]_vars
    PROVE  OneSatcatRun'
<1>1. TypeOK /\ MaxRun \in Nat /\ SatcatInterval \in Nat /\ Tolerance \in Nat
  BY ClockAssumption DEF SchedulerInv
<1>2. CASE \E p \in Process : Step(p) \/ Fatal(p)
  <2>1. PICK p \in Process : Step(p) \/ Fatal(p)
    BY <1>2
  <2>2. \A q \in Process : q # p => (InSatcatRun(q)' <=> InSatcatRun(q))
    BY <1>1, <2>1, LiveStep DEF InSatcatRun
  <2>3. CASE InSatcatRun(p)' => InSatcatRun(p)
    BY <2>2, <2>3 DEF OneSatcatRun
  <2>4. CASE CheckSatcat(p) /\ IsPollerDue("satcat")
    <3>1. ASSUME NEW q \in Process, q # p, InSatcatRun(q) PROVE FALSE
      <4>1. pc[p] = "check_satcat"
        BY <2>4 DEF CheckSatcat, CheckDue, Goto
      <4>2. SatcatStamped(q) /\ Live(q)
        <5>1. pc[q] \notin Deciding
          BY <3>1, <4>1 DEF SchedulerInv, Punctual, Deciding
        <5> QED BY <3>1, <5>1 DEF InSatcatRun, SatcatStamped, Live, Deciding
      <4>3. /\ last_run["satcat"] # Never /\ last_run["satcat"] >= started[q]
            /\ now <= started[q] + MaxRun
        BY <4>2 DEF LifeInv, FreshStamp, LifeSpan
      <4>4. last_run["satcat"] <= now - SatcatInterval + Tolerance
        BY <2>4, <4>3 DEF IsPollerDue, Interval
      <4>5. last_run["satcat"] \in Nat /\ now \in Nat /\ started[q] \in Nat
        BY <1>1, <4>3 DEF TypeOK, Poller
      <4> QED BY <1>1, <4>3, <4>4, <4>5
    <3> QED BY <2>2, <3>1 DEF OneSatcatRun
  <2> QED BY <1>1, <2>1, <2>3, <2>4, StampStep
<1>3. CASE \E p \in Process : Cron(p)
  <2>1. PICK p \in Process : Cron(p)
    BY <1>3
  <2>2. /\ pc'[p] = "check_satcat"
        /\ \A q \in Process : q # p => pc'[q] = pc[q] /\ due'[q] = due[q]
    BY <1>1, <2>1 DEF Cron, Goto, TypeOK
  <2> QED BY <2>2 DEF OneSatcatRun, InSatcatRun
<1>4. CASE Tick \/ UNCHANGED vars
  BY <1>4 DEF Tick, vars, OneSatcatRun, InSatcatRun
<1> QED BY <1>2, <1>3, <1>4 DEF Next, End

(* Two SATCAT runs never overlap, however long runs take, whichever         *)
(* processes die and whatever the GP half does, if no process outlives the  *)
(* interval less the tolerance.                                             *)
THEOREM SatcatNeverMeetsItself == Spec => []SatcatRunsAlone
<1>1. Init => LifeInv /\ OneSatcatRun
  BY LifeInit
<1>2. OnTimeInv => SchedulerInv /\ now <= next_cron
  BY DEF OnTimeInv
<1>3. SchedulerInv /\ now <= next_cron /\ LifeInv /\ [Next]_vars => LifeInv'
  BY LifeStep
<1>4. Spec => []LifeInv
  BY <1>1, <1>2, <1>3, OnTimeInvariant, PTL DEF Spec
<1>5. CASE ~ (MaxRun < SatcatInterval - Tolerance)
  <2>1. SatcatRunsAlone
    BY <1>5 DEF SatcatRunsAlone
  <2> QED BY <2>1, PTL
<1>6. CASE MaxRun < SatcatInterval - Tolerance
  <2>1. SchedulerInv /\ LifeInv /\ OneSatcatRun /\ [Next]_vars => OneSatcatRun'
    BY <1>6, SatcatRunStep
  <2>2. Spec => []OneSatcatRun
    BY <1>1, <1>4, <2>1, SchedulerInvariant, PTL DEF Spec
  <2>3. OneSatcatRun => SatcatRunsAlone
    BY DEF OneSatcatRun, SatcatRunsAlone
  <2> QED BY <2>2, <2>3, PTL
<1> QED BY <1>5, <1>6

(* No two processes are alive at once as long as none outlives the hour:    *)
(* then every hour's process finds the one of the hour before gone.  It is  *)
(* what the claims about runs that do not overlap rest on.                  *)
OneProcess == \A p, q \in Process : Live(p) /\ Live(q) => p = q

THEOREM HourlyRunsDoNotOverlap == MaxRun < Hour => (Spec => []OneProcess)
<1> SUFFICES ASSUME MaxRun < Hour PROVE Spec => []OneProcess
  OBVIOUS
<1>1. Init => LifeInv /\ OneProcess
  BY LifeInit DEF Init, OneProcess, Live
<1>2. ASSUME OnTimeInv, LifeInv, OneProcess, [Next]_vars PROVE OneProcess'
  <2>1. TypeOK /\ Hour \in Nat /\ MaxRun \in Nat
    BY <1>2, ClockAssumption DEF OnTimeInv, SchedulerInv
  <2>2. CASE \E p \in Process : Step(p) \/ Fatal(p)
    BY <1>2, <2>1, <2>2, LiveStep DEF OneProcess, Live
  <2>3. CASE \E p \in Process : Cron(p)
    <3>1. PICK p \in Process : Cron(p)
      BY <2>3
    <3>2. \A q \in Process : ~ Live(q)
      BY <1>2, <2>1, <3>1 DEF Cron, LifeInv, LifeSpan, TypeOK
    <3>3. \A q \in Process : q # p => pc'[q] = pc[q]
      BY <2>1, <3>1 DEF Cron, Goto, TypeOK
    <3> QED BY <3>2, <3>3 DEF OneProcess, Live
  <2>4. CASE Tick \/ UNCHANGED vars
    BY <1>2, <2>4 DEF Tick, vars, OneProcess, Live
  <2> QED BY <1>2, <2>2, <2>3, <2>4 DEF Next, End
<1>3. OnTimeInv => SchedulerInv /\ now <= next_cron
  BY DEF OnTimeInv
<1>4. SchedulerInv /\ now <= next_cron /\ LifeInv /\ [Next]_vars => LifeInv'
  BY LifeStep
<1> QED BY <1>1, <1>2, <1>3, <1>4, OnTimeInvariant, PTL DEF Spec

-----------------------------------------------------------------------------
(* How close GP requests come.  README.md allows one an hour; the scheduler  *)
(* keeps the hour from stamp to stamp, not from request to request, and a    *)
(* request may come anywhere in the life of its process.                     *)

(* The latest request is of a process started an hour before the next one   *)
(* or earlier, and before the hour of whoever has yet to send one.           *)
RequestInv ==
    gp_request # Never =>
        /\ gp_request <= next_cron - Hour + MaxRun
        /\ \A p \in Process : pc[p] \notin {"idle", "gp_wait"} =>
              gp_request <= started[p] - Hour + MaxRun

RequestsSpaced ==
    [][gp_request' # gp_request /\ gp_request # Never
       => gp_request' - gp_request >= Hour - MaxRun]_vars

LEMMA RequestStep ==
    ASSUME OnTimeInv, LifeInv, OneProcess, RequestInv, [Next]_vars
    PROVE  /\ RequestInv'
           /\ gp_request' # gp_request /\ gp_request # Never
              => gp_request' - gp_request >= Hour - MaxRun
<1>1. TypeOK /\ Hour \in Nat /\ MaxRun \in Nat
  BY ClockAssumption DEF OnTimeInv, SchedulerInv
<1>2. ASSUME NEW p \in Process, GpRequest(p)
      PROVE  /\ RequestInv'
             /\ gp_request # Never => gp_request' - gp_request >= Hour - MaxRun
  <2>1. /\ pc[p] = "gp_fetch" /\ pc'[p] = "gp_wait" /\ gp_request' = now
        /\ UNCHANGED <<next_cron, started>> /\ \A q \in Process : q # p => pc'[q] = pc[q]
    BY <1>1, <1>2 DEF GpRequest, Goto, TypeOK
  <2>2. /\ started[p] <= now /\ now <= started[p] + MaxRun /\ started[p] <= next_cron - Hour
        /\ \A q \in Process : q # p => pc[q] = "idle"
    BY <2>1 DEF LifeInv, LifeSpan, OneProcess, Live
  <2>3. started[p] \in Nat /\ now \in Nat /\ next_cron \in Nat
    BY <1>1 DEF TypeOK
  <2>4. now <= next_cron - Hour + MaxRun
    BY <1>1, <2>2, <2>3
  <2>5. RequestInv'
    BY <2>1, <2>2, <2>4 DEF RequestInv
  <2>6. ASSUME gp_request # Never PROVE now - gp_request >= Hour - MaxRun
    <3>1. gp_request \in Nat /\ gp_request <= started[p] - Hour + MaxRun
      BY <1>1, <2>1, <2>6 DEF RequestInv, TypeOK
    <3> QED BY <1>1, <2>2, <2>3, <3>1
  <2> QED BY <2>1, <2>5, <2>6
<1>3. ASSUME UNCHANGED <<gp_request, next_cron, started>>,
             \A q \in Process : pc'[q] \notin {"idle", "gp_wait"} => pc[q] \notin {"idle", "gp_wait"}
      PROVE  RequestInv'
  BY <1>3 DEF RequestInv
<1>4. ASSUME NEW p \in Process, Step(p) \/ Fatal(p), ~ GpRequest(p)
      PROVE  RequestInv' /\ gp_request' = gp_request
  <2>1. /\ gp_request' = gp_request /\ (pc[p] \in {"idle", "gp_wait"} => pc'[p] = "idle")
    BY <1>1, <1>4 DEF Step, CheckSatcat, CheckGp, CheckDue, MarkSatcat, MarkGp, Mark, Satcat, Gp,
              SkipSatcat, RunSatcat, SkipGp, RunGp, Login, LoginFails, SatcatRequest, RunReturns,
              Fatal, Goto, TypeOK
  <2> QED BY <1>1, <1>3, <1>4, <2>1, LiveStep
<1>5. ASSUME NEW p \in Process, Cron(p)
      PROVE  RequestInv' /\ gp_request' = gp_request
  <2>1. /\ now = next_cron /\ next_cron' = next_cron + Hour /\ started'[p] = now
        /\ \A q \in Process : q # p => pc'[q] = pc[q] /\ started'[q] = started[q]
        /\ UNCHANGED gp_request /\ next_cron \in Nat
    BY <1>1, <1>5 DEF Cron, Goto, TypeOK
  <2>2. gp_request # Never => gp_request \in Nat /\ gp_request <= next_cron - Hour + MaxRun
    BY <1>1 DEF RequestInv, TypeOK
  <2>3. gp_request # Never => gp_request <= next_cron' - Hour + MaxRun
    BY <1>1, <2>1, <2>2
  <2> QED BY <2>1, <2>2, <2>3 DEF RequestInv
<1>6. CASE Tick \/ UNCHANGED vars
  BY <1>3, <1>6 DEF Tick, vars
<1> QED BY <1>2, <1>4, <1>5, <1>6 DEF Next, End

(* So what the README allows is missed by no more than the length of a run: *)
(* two GP requests are an hour less MaxRun apart at least, whichever runs    *)
(* were skipped, failed or died in between, as long as no process outlives   *)
(* the hour.                                                                 *)
THEOREM RequestsNearlyAnHourApart == MaxRun < Hour => (Spec => RequestsSpaced)
<1> SUFFICES ASSUME MaxRun < Hour PROVE Spec => RequestsSpaced
  OBVIOUS
<1>1. Init => LifeInv /\ RequestInv
  BY LifeInit DEF Init, RequestInv
<1>2. OnTimeInv => SchedulerInv /\ now <= next_cron
  BY DEF OnTimeInv
<1>3. SchedulerInv /\ now <= next_cron /\ LifeInv /\ [Next]_vars => LifeInv'
  BY LifeStep
<1>4. Spec => []OneProcess
  BY HourlyRunsDoNotOverlap
<1>5. OnTimeInv /\ LifeInv /\ OneProcess /\ RequestInv /\ [Next]_vars
      => /\ RequestInv'
         /\ [gp_request' # gp_request /\ gp_request # Never
             => gp_request' - gp_request >= Hour - MaxRun]_vars
  BY RequestStep
<1> QED BY <1>1, <1>2, <1>3, <1>4, <1>5, OnTimeInvariant, PTL DEF Spec, RequestsSpaced

-----------------------------------------------------------------------------
(* Where a process that has a SATCAT run before its GP run goes next.        *)

(* Nothing that becomes of the SATCAT run, or of another process, takes a   *)
(* stamped GP run out of its turn: each step of the process is one towards  *)
(* its GP login, unless the process dies (main.cpp, Poller::run).           *)
THEOREM SatcatCostsNoGpRun == Spec => StampedGpKeepsItsTurn
<1> DEFINE Keeps(p, i) ==
              pc[p] = BeforeGp[i] /\ due[p]["gp"]
              => \/ pc'[p] = pc[p]
                 \/ \E j \in (i + 1)..6 : pc'[p] = BeforeGp[j]
                 \/ fatals' # fatals
<1>1. ASSUME TypeOK, [Next]_vars, NEW p \in Process, NEW i \in 1..5 PROVE Keeps(p, i)
  <2> SUFFICES ASSUME pc[p] = BeforeGp[i], due[p]["gp"], pc'[p] # pc[p], fatals' = fatals
               PROVE  \E j \in (i + 1)..6 : pc'[p] = BeforeGp[j]
    OBVIOUS
  <2>1. /\ BeforeGp[1] = "satcat" /\ BeforeGp[2] = "satcat_login" /\ BeforeGp[3] = "satcat_fetch"
        /\ BeforeGp[4] = "satcat_wait" /\ BeforeGp[5] = "gp" /\ BeforeGp[6] = "gp_login"
    BY DEF BeforeGp
  <2>2. i \in {1, 2, 3, 4, 5}
    OBVIOUS
  <2>3. pc[p] \in {"satcat", "satcat_login", "satcat_fetch", "satcat_wait", "gp"}
    BY <2>1, <2>2
  <2>4. Satcat(p) \/ Gp(p)
    <3>1. PICK q \in Process : Cron(q) \/ Step(q) \/ Fatal(q)
      BY <1>1 DEF Next, Tick, End, vars
    <3>2. ~ Fatal(q)
      BY <1>1 DEF Fatal, TypeOK
    <3>3. q = p
      BY <1>1, <3>1, LiveStep DEF Cron, Goto, TypeOK
    <3>4. ~ Cron(p) /\ ~ CheckSatcat(p) /\ ~ CheckGp(p) /\ ~ MarkSatcat(p) /\ ~ MarkGp(p)
      BY <2>3 DEF Cron, CheckSatcat, CheckGp, CheckDue, MarkSatcat, MarkGp, Mark, Goto
    <3> QED BY <3>1, <3>2, <3>3, <3>4 DEF Step
  <2>5. \/ pc[p] = "satcat" /\ pc'[p] \in {"satcat_login", "gp"}
        \/ pc[p] = "satcat_login" /\ pc'[p] \in {"satcat_fetch", "gp"}
        \/ pc[p] = "satcat_fetch" /\ pc'[p] = "satcat_wait"
        \/ pc[p] = "satcat_wait" /\ pc'[p] = "gp"
        \/ pc[p] = "gp" /\ pc'[p] = "gp_login"
    <3>1. CASE Satcat(p)
      BY <1>1, <3>1 DEF Satcat, SkipSatcat, RunSatcat, Login, LoginFails, SatcatRequest, RunReturns,
                  Goto, TypeOK
    <3>2. CASE Gp(p)
      <4>1. RunGp(p)
        BY <2>3, <3>2 DEF Gp, SkipGp, Login, LoginFails, GpRequest, RunReturns, Goto
      <4> QED BY <1>1, <4>1 DEF RunGp, Goto, TypeOK
    <3> QED BY <2>4, <3>1, <3>2
  <2>6. \E j \in 1..6 : i < j /\ pc'[p] = BeforeGp[j]
    <3>1. CASE i = 1
      BY <2>1, <2>5, <3>1
    <3>2. CASE i = 2
      BY <2>1, <2>5, <3>2
    <3>3. CASE i = 3
      BY <2>1, <2>5, <3>3
    <3>4. CASE i = 4
      BY <2>1, <2>5, <3>4
    <3>5. CASE i = 5
      BY <2>1, <2>5, <3>5
    <3> QED BY <2>2, <3>1, <3>2, <3>3, <3>4, <3>5
  <2>7. \A j \in 1..6 : i < j => j \in (i + 1)..6
    OBVIOUS
  <2> QED BY <2>6, <2>7
<1>2. TypeOK /\ [Next]_vars => [\A p \in Process, i \in 1..5 : Keeps(p, i)]_vars
  BY <1>1
<1> QED BY <1>2, SchedulerTypeCorrect, PTL DEF Spec, StampedGpKeepsItsTurn
=============================================================================
