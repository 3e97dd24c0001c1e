------------------------------- MODULE Tenancy -------------------------------
(***************************************************************************)
(* One merchant's access to the platform: the subscription, the tenant and *)
(* the store that its sweeps, payments, cancellations and the platform's   *)
(* operators change, and the lease under which the scheduled sweep runs.   *)
(*                                                                         *)
(* Postgres runs each statement or transaction of the backend atomically.  *)
(* A request in progress is a `call', a scheduled run a `job': the         *)
(* statement it runs next and the values it has read.  The sweep treats    *)
(* the rows it selected one after the other, each in a transaction whose   *)
(* error is caught, so that one merchant's rows stand for every one's.     *)
(*                                                                         *)
(* Time is counted in units of which a trial, a paid period, the grace and *)
(* the retention last a whole number.  The lease lasts minutes: it lapses  *)
(* by an event of its own.                                                 *)
(***************************************************************************)
EXTENDS Naturals, FiniteSets

CONSTANTS
  Workers,      \* scheduled runs that may be in progress at one time
  Calls,        \* requests in progress at one time
  Trial, Period, Grace, Retention, \* lengths, in units of time
  Horizon,      \* bound on the clock
  MaxPayments,  \* bound on invoices paid
  MaxFaults,    \* bound on runs that die and on their statements that fail
  MaxDrops,     \* bound on the same of requests
  MaxLapses,    \* bound on leases that lapse before their run ends
  Races,        \* whether a write may overwrite what it has not read
  Required,     \* whether a store needs its merchant verified
  None

ASSUME TenancyAssumption ==
  /\ {Trial, Period, Grace, Retention} \subseteq Nat \ {0}
  /\ Horizon \in Nat \ {0}
  /\ {MaxPayments, MaxFaults, MaxDrops, MaxLapses} \subseteq Nat
  /\ {Races, Required} \subseteq BOOLEAN
  /\ IsFiniteSet(Workers) /\ None \notin Workers

VARIABLES
  sub,      \* the subscription's row
  tenant,   \* the tenant's row
  store,    \* publicationStatus of the store, "GONE" once its row is deleted
  released, \* the merchant has published the store
  withheld, \* history: the store stayed closed as its merchant was not verified
  noticed,  \* stages a reminder notification is recorded of
  sent,     \* history: how often each stage's messages were sent
  prompted, \* an M-Pesa prompt for the open invoice has not been answered
  lock,     \* the row of the scheduled job's lease
  job, call,
  now, payments, faults, drops, lapses, stale

vars == << sub, tenant, store, released, withheld, noticed, sent, prompted, lock,
           job, call, now, payments, faults, drops, lapses, stale >>

shop    == << store, released, withheld >>
notices == << noticed, sent >>
bounds == << payments, faults, drops, lapses, stale >>
-----------------------------------------------------------------------------
Unset == 0

(* A date that is set and not in the future *)
Past(date, at) == date # Unset /\ date <= at

SubscriptionStatus == { "TRIALING", "ACTIVE", "PAST_DUE", "GRACE_PERIOD",
                        "SUSPENDED", "CANCELLED" }
TenantStatus == SubscriptionStatus \cup {"DELETED"}

(* paidSubscriptionStatuses: the statuses that can be cancelled *)
Paid == { "TRIALING", "ACTIVE", "PAST_DUE", "GRACE_PERIOD" }
Billable == Paid \cup {"SUSPENDED"}

(* isPublicTenantStatus, also the tenant check of the launch readiness *)
PublicStatus == { "ACTIVE", "TRIALING", "GRACE_PERIOD" }

Stages == { "PILOT_ENDS", "GRACE_PERIOD" }

(* canMerchantSell: where verification is required the merchant may be verified
   or not, and the platform's decisions and the details the merchant saves may
   change that between any two steps *)
MaySell == IF Required THEN BOOLEAN ELSE {TRUE}

(* What the public sees, of a merchant who may sell *)
Public == tenant.status \in PublicStatus /\ store = "PUBLISHED"

NoRow == [ sub |-> [ status |-> "CANCELLED", ends |-> FALSE, trialEnd |-> Unset,
                     periodEnd |-> Unset, graceEnd |-> Unset ],
           was |-> "CANCELLED", shop |-> FALSE ]

Asleep == [ pc |-> "idle", at |-> Unset, row |-> NoRow, stage |-> "none",
            late |-> FALSE ]
Idle   == [ pc |-> "idle", was |-> "none", reason |-> "none", store |-> "none",
            opens |-> FALSE ]

Free == [ owner |-> None, lapsed |-> FALSE ]

Runs(w, pc) == job[w].pc = pc
At(k, pc) == call[k].pc = pc

Steps(w, pc) == job' = [job EXCEPT ![w].pc = pc]
Goes(k, pc)  == call' = [call EXCEPT ![k].pc = pc]
Ends(k)      == call' = [call EXCEPT ![k] = Idle]

(* A write is stale when what it was decided on has changed meanwhile: the
   history variable `stale' remembers that there was one. *)
Counts(overwrites) ==
  /\ overwrites => Races
  /\ stale' = (stale \/ overwrites)

(* A store in its trial, whose merchant may have published it or not *)
Init ==
  /\ sub = [ status |-> "TRIALING", ends |-> FALSE, trialEnd |-> 1 + Trial,
             periodEnd |-> Unset, graceEnd |-> Unset ]
  /\ tenant = [ status |-> "TRIALING", reason |-> "none", due |-> Unset,
                deleted |-> FALSE ]
  /\ store \in {"DRAFT", "PUBLISHED"}
  /\ released = (store = "PUBLISHED")
  /\ withheld = FALSE
  /\ noticed = {} /\ sent = [s \in Stages |-> 0]
  /\ prompted = FALSE
  /\ lock = Free
  /\ job = [w \in Workers |-> Asleep]
  /\ call = [k \in Calls |-> Idle]
  /\ now = 1
  /\ payments = 0 /\ faults = 0 /\ drops = 0 /\ lapses = 0 /\ stale = FALSE
-----------------------------------------------------------------------------
(* lifecycleDecision: what a sweep of date `at' makes of a subscription *)

TrialOver(s, at) == s.status = "TRIALING" /\ Past(s.trialEnd, at)

PeriodOver(s, at) == s.status \in {"ACTIVE", "PAST_DUE"} /\ Past(s.periodEnd, at)

(* Faulty: the grace never ends *)
GraceForgotten(s, at) == FALSE

GraceOver(s, at) == s.status = "GRACE_PERIOD" /\ Past(s.graceEnd, at)

Leaves(s, at) == s.ends /\ Past(s.periodEnd, at)

(* The rows that runSubscriptionLifecycleSweep selects *)
Overdue(s, at) ==
  Leaves(s, at) \/ TrialOver(s, at) \/ PeriodOver(s, at) \/ GraceOver(s, at)

GraceEnd(s) == IF s.status = "TRIALING" THEN s.trialEnd + Grace
               ELSE IF s.graceEnd # Unset THEN s.graceEnd
               ELSE s.periodEnd + Grace

StatusInGrace(s) == IF s.status = "ACTIVE" THEN "PAST_DUE" ELSE "GRACE_PERIOD"

(* Faulty: the end of the grace is not written *)
DecisionUndated(s, at) ==
  [ status |-> IF GraceEnd(s) > at THEN StatusInGrace(s) ELSE "SUSPENDED",
    graceEnd |-> Unset, from |-> GraceEnd(s) ]

Decision(s, at) ==
  LET end     == GraceEnd(s)
      written == IF s.status = "GRACE_PERIOD" THEN Unset ELSE end
  IN
  IF Leaves(s, at)
  THEN [ status |-> "CANCELLED", graceEnd |-> Unset, from |-> s.periodEnd ]
  ELSE IF end > at
  THEN [ status |-> StatusInGrace(s), graceEnd |-> written, from |-> Unset ]
  ELSE [ status |-> "SUSPENDED", graceEnd |-> written, from |-> end ]
-----------------------------------------------------------------------------
(* The scheduled run: the lease, then the sweeps one after the other *)

Acquire(w) ==
  /\ Runs(w, "idle")
  /\ lock = Free \/ lock.lapsed
  /\ lock' = [ owner |-> w, lapsed |-> FALSE ]
  /\ job' = [job EXCEPT ![w] = [ Asleep EXCEPT !.pc = "sweep", !.at = now ]]
  /\ UNCHANGED << sub, tenant, shop, notices, prompted, call, now, bounds >>

Sweep(w) ==
  /\ Runs(w, "sweep")
  /\ IF Overdue(sub, job[w].at)
     THEN job' = [job EXCEPT ![w].pc = "row",
                    ![w].row = [ sub |-> sub, was |-> tenant.status,
                                 shop |-> store # "GONE" ]]
     ELSE Steps(w, "remind")
  /\ UNCHANGED << sub, tenant, shop, notices, prompted, lock, call, now, bounds >>

(* The decision is taken on the row that was read; the store's row may be
   gone meanwhile: then nothing is written *)
Row(w) ==
  LET r == job[w].row
      d == Decision(r.sub, job[w].at)
      closes == r.shop /\ d.status \in {"SUSPENDED", "CANCELLED"}
  IN
  /\ Runs(w, "row")
  /\ job' = [job EXCEPT ![w].pc = "remind", ![w].row = NoRow]
  /\ \/ /\ closes /\ store = "GONE"
        /\ UNCHANGED << sub, tenant, store, withheld, stale >>
     \/ /\ ~(closes /\ store = "GONE")
        /\ sub' = [sub EXCEPT !.status = d.status,
                            !.graceEnd = IF d.graceEnd # Unset
                                         THEN d.graceEnd ELSE @]
        /\ tenant' = [tenant EXCEPT
             !.status = IF r.was = "SUSPENDED" /\ d.status # "SUSPENDED"
                        THEN @ ELSE d.status,
             !.reason = IF d.status = "SUSPENDED" /\ r.was # "SUSPENDED"
                        THEN "BILLING" ELSE @,
             !.due = IF d.from # Unset THEN d.from + Retention ELSE @]
        /\ store' = IF closes THEN "SUSPENDED" ELSE store
        /\ withheld' = (withheld /\ ~closes)
        /\ Counts(sub # r.sub \/ tenant.status # r.was)
  /\ UNCHANGED << released, notices, prompted, lock, call, now,
                  payments, faults, drops, lapses >>

(* runPilotReminderSweep: what is due at `at' or one unit later, of a tenant
   whose owner has not been deleted with its rows *)
Reminded(at) ==
  { s \in Stages :
      LET end == IF s = "PILOT_ENDS" THEN sub.trialEnd ELSE sub.graceEnd
          of  == IF s = "PILOT_ENDS" THEN "TRIALING" ELSE "GRACE_PERIOD"
      IN sub.status = of /\ tenant.status = of /\ ~tenant.deleted
         /\ end \in {at, at + 1} }

Remind(w) ==
  /\ Runs(w, "remind")
  /\ \/ /\ Reminded(job[w].at) = {}
        /\ Steps(w, "retain")
     \/ \E s \in Reminded(job[w].at) :
          job' = [job EXCEPT ![w].pc = "check", ![w].stage = s]
  /\ UNCHANGED << sub, tenant, shop, notices, prompted, lock, call, now, bounds >>

(* Faulty: earlier notifications are not looked for *)
CheckNothing(w) ==
  /\ Runs(w, "check")
  /\ Steps(w, "notify")
  /\ UNCHANGED << sub, tenant, shop, notices, prompted, lock, call, now, bounds >>

(* dispatchReminder: a look for an earlier notification of the stage, the
   messages to the owners, whose own errors are caught, and their record *)
Check(w) ==
  /\ Runs(w, "check")
  /\ IF job[w].stage \in noticed
     THEN job' = [job EXCEPT ![w].pc = "retain", ![w].stage = "none"]
     ELSE Steps(w, "notify")
  /\ UNCHANGED << sub, tenant, shop, notices, prompted, lock, call, now, bounds >>

Notify(w) ==
  /\ Runs(w, "notify")
  /\ sent' = [sent EXCEPT ![job[w].stage] = @ + 1]
  /\ Steps(w, "record")
  /\ UNCHANGED << sub, tenant, shop, noticed, prompted, lock, call, now, bounds >>

Record(w) ==
  /\ Runs(w, "record")
  /\ noticed' = noticed \cup {job[w].stage}
  /\ job' = [job EXCEPT ![w].pc = "retain", ![w].stage = "none"]
  /\ UNCHANGED << sub, tenant, shop, sent, prompted, lock, call, now, bounds >>

(* runTenantRetentionSweep selects the tenants, processTenantRetention reads
   each again before its evidence files and then its rows are deleted *)
(* Faulty: only on the very day *)
DueAtDay(at) == tenant.due = at /\ ~tenant.deleted

DueAt(at) == Past(tenant.due, at) /\ ~tenant.deleted

Retain(w) ==
  /\ Runs(w, "retain")
  /\ Steps(w, IF DueAt(job[w].at) THEN "reread" ELSE "release")
  /\ UNCHANGED << sub, tenant, shop, notices, prompted, lock, call, now, bounds >>

Reread(w) ==
  /\ Runs(w, "reread")
  /\ Steps(w, IF DueAt(job[w].at) THEN "scrub" ELSE "release")
  /\ UNCHANGED << sub, tenant, shop, notices, prompted, lock, call, now, bounds >>

Scrub(w) ==
  /\ Runs(w, "scrub")
  /\ store' = "GONE"
  /\ noticed' = {} /\ sent' = [s \in Stages |-> 0]
  /\ tenant' = [tenant EXCEPT !.status = "DELETED", !.deleted = TRUE]
  /\ Steps(w, "release")
  /\ UNCHANGED << sub, released, withheld, prompted, lock, call, now, bounds >>

(* Faulty: the lease is released whoever holds it *)
ReleaseAny(w) ==
  /\ Runs(w, "release")
  /\ lock' = Free
  /\ job' = [job EXCEPT ![w] = Asleep]
  /\ UNCHANGED << sub, tenant, shop, notices, prompted, call, now, bounds >>

Release(w) ==
  /\ Runs(w, "release")
  /\ lock' = IF lock.owner = w THEN Free ELSE lock
  /\ job' = [job EXCEPT ![w] = Asleep]
  /\ UNCHANGED << sub, tenant, shop, notices, prompted, call, now, bounds >>

(* A statement fails: the error of one row is caught in its loop, that of a
   selection ends the run, which then releases the lease *)
After == [ sweep |-> "release", row |-> "remind", remind |-> "release",
           check |-> "retain", notify |-> "retain", record |-> "retain",
           retain |-> "release", reread |-> "release", scrub |-> "release" ]

Fails(w) ==
  /\ faults < MaxFaults /\ faults' = faults + 1
  /\ job[w].pc \in DOMAIN After
  /\ job' = [job EXCEPT ![w].pc = After[@], ![w].row = NoRow, ![w].stage = "none"]
  /\ UNCHANGED << sub, tenant, shop, notices, prompted, lock, call, now,
                  payments, drops, lapses, stale >>

(* A run dies, or the release fails: the lease stays *)
Crash(w) ==
  /\ faults < MaxFaults /\ faults' = faults + 1
  /\ ~Runs(w, "idle")
  /\ job' = [job EXCEPT ![w] = Asleep]
  /\ UNCHANGED << sub, tenant, shop, notices, prompted, lock, call, now,
                  payments, drops, lapses, stale >>

(* Ten minutes pass: whether the holder still runs or has died *)
Lapse ==
  LET w == lock.owner IN
  /\ lock # Free /\ ~lock.lapsed
  /\ lock' = [lock EXCEPT !.lapsed = TRUE]
  /\ IF Runs(w, "idle") THEN UNCHANGED << job, lapses >>
     ELSE /\ lapses < MaxLapses /\ lapses' = lapses + 1
          /\ job' = [job EXCEPT ![w].late = TRUE]
  /\ UNCHANGED << sub, tenant, shop, notices, prompted, call, now,
                  payments, faults, drops, stale >>
-----------------------------------------------------------------------------
(* Payments.  The merchant's M-Pesa prompt for the open invoice is answered
   once; the answer activates the subscription, then restores the tenant and
   its store, each from what it read of them. *)

FirstActivation == sub.status = "TRIALING" \/ sub.periodEnd = Unset

Prompt ==
  /\ ~prompted /\ ~tenant.deleted
  /\ payments < MaxPayments /\ payments' = payments + 1
  /\ sub.status \in Billable
  /\ FirstActivation => sub.trialEnd <= now
  /\ prompted' = TRUE
  /\ UNCHANGED << sub, tenant, shop, notices, lock, job, call, now,
                  faults, drops, lapses, stale >>

Declined ==
  /\ prompted /\ prompted' = FALSE
  /\ UNCHANGED << sub, tenant, shop, notices, lock, job, call, now, bounds >>

Activate(k) ==
  /\ At(k, "idle") /\ prompted /\ prompted' = FALSE
  /\ sub' = [sub EXCEPT !.status = "ACTIVE", !.periodEnd = now + Period,
                        !.graceEnd = Unset]
  /\ Counts(sub.status \notin Billable)
  /\ Goes(k, "restore")
  /\ UNCHANGED << tenant, shop, notices, lock, job, now, payments, faults, drops, lapses >>

Reads(k) ==
  \E may \in MaySell :
    call' = [call EXCEPT ![k] =
      [ pc |-> "access", was |-> tenant.status, reason |-> tenant.reason,
        store |-> store, opens |-> store = "SUSPENDED" /\ may ]]

(* Faulty: whatever the reason of the suspension *)
ReadTenantAny(k) ==
  /\ At(k, "restore")
  /\ Reads(k)
  /\ UNCHANGED << sub, tenant, shop, notices, prompted, lock, job, now, bounds >>

(* Faulty: only after a suspension for billing *)
ReadTenantSuspended(k) ==
  /\ At(k, "restore")
  /\ IF tenant.reason # "BILLING" THEN Ends(k)
     ELSE Reads(k)
  /\ UNCHANGED << sub, tenant, shop, notices, prompted, lock, job, now, bounds >>

ReadTenant(k) ==
  /\ At(k, "restore")
  /\ IF tenant.reason = "PLATFORM" THEN Ends(k)
     ELSE Reads(k)
  /\ UNCHANGED << sub, tenant, shop, notices, prompted, lock, job, now, bounds >>

(* A store that a billing suspension had closed is published again, if its
   merchant may sell *)
Closed(k) == call[k].reason = "BILLING" /\ call[k].store = "SUSPENDED"

Reopens(k) ==
  IF Closed(k) /\ call[k].opens THEN Goes(k, "reopen") ELSE Ends(k)

Withholds(k, closed) == withheld' = IF closed THEN ~call[k].opens ELSE withheld

(* It is decided on the tenant read, and that no suspension closed the store *)
Outdated(k) ==
  \/ << tenant.status, tenant.reason >> # << call[k].was, call[k].reason >>
  \/ store = "SUSPENDED" /\ call[k].store # "SUSPENDED"

RestoreTenant(k) ==
  /\ At(k, "access")
  /\ tenant' = [tenant EXCEPT !.status = "ACTIVE",
                  !.reason = IF call[k].reason = "BILLING" THEN "none" ELSE @]
  /\ Counts(Outdated(k))
  /\ Reopens(k) /\ Withholds(k, Closed(k))
  /\ UNCHANGED << sub, store, released, notices, prompted, lock, job, now,
                  payments, faults, drops, lapses >>

ReopenStore(k) ==
  /\ At(k, "reopen")
  /\ store' = IF store = "GONE" THEN store ELSE "PUBLISHED"
  /\ Ends(k)
  /\ UNCHANGED << sub, tenant, released, withheld, notices, prompted, lock,
                  job, now, bounds >>

(* The error of the tenant's update is swallowed and the store still reopened *)
RestoreFails(k) ==
  /\ drops < MaxDrops /\ drops' = drops + 1
  /\ At(k, "access")
  /\ Reopens(k)
  /\ UNCHANGED << sub, tenant, shop, notices, prompted, lock, job, now,
                  payments, faults, lapses, stale >>
-----------------------------------------------------------------------------
(* cancelSubscription: at the period's end, or at once *)

Cancel(k) ==
  /\ At(k, "idle") /\ ~tenant.deleted
  /\ sub.status \in Paid
  /\ \E pc \in {"flag", "quit"} : Goes(k, pc)
  /\ UNCHANGED << sub, tenant, shop, notices, prompted, lock, job, now, bounds >>

FlagPeriodEnd(k) ==
  /\ At(k, "flag")
  /\ sub' = [sub EXCEPT !.ends = TRUE]
  /\ Ends(k)
  /\ UNCHANGED << tenant, shop, notices, prompted, lock, job, now, bounds >>

Quit(k) ==
  /\ At(k, "quit")
  /\ sub' = [sub EXCEPT !.status = "CANCELLED", !.ends = FALSE]
  /\ tenant' = [tenant EXCEPT !.status = "CANCELLED", !.due = now + Retention]
  /\ store' = IF store = "GONE" THEN store ELSE "SUSPENDED"
  /\ withheld' = FALSE
  /\ Ends(k)
  /\ UNCHANGED << released, notices, prompted, lock, job, now, bounds >>
-----------------------------------------------------------------------------
(* The platform's operators suspend and reactivate; tenant and store were read
   before the transaction, and the store's row must still be there when it is
   written.  A store comes back only if its merchant may sell. *)

Operate(k) ==
  /\ At(k, "idle")
  /\ \E pc \in {"suspend", "reactivate"}, may \in MaySell :
       call' = [call EXCEPT ![k] =
         [ Idle EXCEPT !.pc = pc, !.store = store,
             !.opens = pc = "reactivate" /\ store = "SUSPENDED" /\ may ]]
  /\ UNCHANGED << sub, tenant, shop, notices, prompted, lock, job, now, bounds >>

Suspend(k) ==
  /\ At(k, "suspend")
  /\ IF call[k].store # "GONE" /\ store = "GONE"
     THEN UNCHANGED << tenant, store, withheld >>
     ELSE /\ tenant' = [tenant EXCEPT !.status = "SUSPENDED", !.reason = "PLATFORM"]
          /\ store' = IF store = "GONE" THEN store ELSE "SUSPENDED"
          /\ withheld' = FALSE
  /\ Ends(k)
  /\ UNCHANGED << sub, released, notices, prompted, lock, job, now, bounds >>

Reactivate(k) ==
  LET closed == call[k].store = "SUSPENDED"
      opens  == call[k].opens
  IN
  /\ At(k, "reactivate")
  /\ IF opens /\ store = "GONE"
     THEN UNCHANGED << tenant, store, withheld, stale >>
     ELSE /\ tenant' = [tenant EXCEPT !.status = "ACTIVE", !.reason = "none"]
          /\ store' = IF opens THEN "PUBLISHED" ELSE store
          /\ Withholds(k, closed)
          /\ Counts(store # call[k].store)
  /\ Ends(k)
  /\ UNCHANGED << sub, released, notices, prompted, lock, job, now,
                  payments, faults, drops, lapses >>
-----------------------------------------------------------------------------
(* The merchant publishes the store, when the launch checks pass, or brings
   a published version back, which checks nothing of the tenant *)

Publish(k) ==
  /\ At(k, "idle") /\ ~tenant.deleted /\ store # "GONE"
  /\ released \/ tenant.status \in PublicStatus
  /\ Goes(k, "publish")
  /\ UNCHANGED << sub, tenant, shop, notices, prompted, lock, job, now, bounds >>

PublishStore(k) ==
  /\ At(k, "publish")
  /\ IF store = "GONE" THEN UNCHANGED shop
     ELSE store' = "PUBLISHED" /\ released' = TRUE /\ withheld' = FALSE
  /\ Ends(k)
  /\ UNCHANGED << sub, tenant, notices, prompted, lock, job, now, bounds >>

(* The function of a payment's callback is stopped between two statements;
   of the other requests only the last statement writes *)
Drop(k) ==
  /\ drops < MaxDrops /\ drops' = drops + 1
  /\ call[k].pc \in {"restore", "access", "reopen"}
  /\ Ends(k)
  /\ UNCHANGED << sub, tenant, shop, notices, prompted, lock, job, now,
                  payments, faults, lapses, stale >>

Tick ==
  /\ now < Horizon /\ now' = now + 1
  /\ UNCHANGED << sub, tenant, shop, notices, prompted, lock, job, call, bounds >>
-----------------------------------------------------------------------------
RunStep(w) ==
  \/ Sweep(w) \/ Row(w) \/ Remind(w) \/ Check(w) \/ Notify(w) \/ Record(w)
  \/ Retain(w) \/ Reread(w) \/ Scrub(w) \/ Release(w)

Job(w) == Acquire(w) \/ RunStep(w) \/ Fails(w) \/ Crash(w)

Request(k) ==
  \/ Activate(k) \/ ReadTenant(k) \/ RestoreTenant(k) \/ ReopenStore(k)
  \/ RestoreFails(k)
  \/ Cancel(k) \/ FlagPeriodEnd(k) \/ Quit(k)
  \/ Operate(k) \/ Suspend(k) \/ Reactivate(k)
  \/ Publish(k) \/ PublishStore(k) \/ Drop(k)

Next ==
  \/ \E w \in Workers : Job(w)
  \/ Lapse
  \/ Prompt \/ Declined
  \/ \E k \in Calls : Request(k)
  \/ Tick

Spec == Init /\ [][Next]_vars

(* The scheduler keeps starting runs, a run keeps going and a lease's ten
   minutes pass.  Nothing is assumed of merchants, operators, faults or of
   the clock. *)
Fairness ==
  /\ WF_vars(\E w \in Workers : Acquire(w))
  /\ \A w \in Workers : WF_vars(RunStep(w))
  /\ WF_vars(Lapse)

FairSpec == Spec /\ Fairness
-----------------------------------------------------------------------------
Dates == Unset .. Horizon + Trial + Period + Grace + Retention

Subscription == [ status : SubscriptionStatus, ends : BOOLEAN, trialEnd : Dates,
                  periodEnd : Dates, graceEnd : Dates ]
Selected   == [ sub : Subscription, was : TenantStatus, shop : BOOLEAN ]
Reason     == {"none", "BILLING", "PLATFORM"}
StoreState == {"DRAFT", "PUBLISHED", "SUSPENDED", "GONE"}

RunPC == {"idle"} \cup DOMAIN After \cup {"release"}
Run   == [ pc : RunPC, at : 0 .. Horizon, row : Selected,
           stage : Stages \cup {"none"}, late : BOOLEAN ]

CallPC == { "idle", "restore", "access", "reopen", "flag", "quit", "suspend",
            "reactivate", "publish" }

RowsOK ==
  /\ sub \in Subscription
  /\ sub.status \in {"ACTIVE", "PAST_DUE"} => sub.periodEnd # Unset
  /\ sub.status = "GRACE_PERIOD" => sub.graceEnd # Unset
  /\ tenant \in [ status : TenantStatus, reason : Reason, due : Dates,
                  deleted : BOOLEAN ]
  /\ store \in StoreState /\ prompted \in BOOLEAN
  /\ {released, withheld} \subseteq BOOLEAN

RunsOK ==
  /\ lock \in [ owner : Workers \cup {None}, lapsed : BOOLEAN ]
  /\ lock.owner = None => lock = Free
  /\ job \in [Workers -> Run]
  /\ \A w \in Workers : job[w].row # NoRow => Runs(w, "row")

RequestsOK ==
  call \in [Calls -> [ pc : CallPC, was : TenantStatus \cup {"none"},
                      reason : Reason, store : StoreState \cup {"none"},
                      opens : BOOLEAN ]]

CountsOK ==
  /\ noticed \subseteq Stages
  /\ sent \in [Stages -> 0 .. 1 + MaxLapses + MaxFaults]
  /\ now \in 1 .. Horizon
  /\ payments \in 0 .. MaxPayments /\ faults \in 0 .. MaxFaults
  /\ drops \in 0 .. MaxDrops /\ lapses \in 0 .. MaxLapses /\ stale \in BOOLEAN

(* The type of the state, with what ties its parts: a subscription that gives
   access has the date by which the sweep selects it, a run has a row only
   while it treats it, and a lease is held by nobody only when it is free. *)
TypeOK == RowsOK /\ RunsOK /\ RequestsOK /\ CountsOK

(* job-lock.ts: of the runs whose lease has not lapsed there is at most one,
   although a run that lost its lease still finishes and releases. *)
OneLiveLease ==
  \A v, w \in Workers :
    /\ ~Runs(v, "idle") /\ ~job[v].late
    /\ ~Runs(w, "idle") /\ ~job[w].late
    => v = w

(* dispatchReminder looks for an earlier notification, sends, and records the
   notification afterwards: the messages of a stage are sent again only by runs
   that overlap, because a lease lapsed, or after a run that stopped or failed
   before its record, and once for each (until the tenant's rows are deleted). *)
NoticeOnce == \A s \in Stages : sent[s] <= 1 + lapses + faults

(* A merchant whose payment bought a period that has not ended is served:
   once the payment's request is over the tenant is ACTIVE and no suspension
   is left on the store, unless the platform suspended it or its data is
   deleted, or the store was withheld from a merchant whose verification is
   required and not approved.  Excepted are a restoration that failed or died
   and a write over what it had not read. *)
Restoring == \E k \in Calls : call[k].pc \in {"restore", "access", "reopen"}

PaidIsServed ==
  (/\ sub.status = "ACTIVE" /\ now < sub.periodEnd
   /\ ~Restoring /\ drops = 0 /\ ~stale)
  => \/ tenant.reason = "PLATFORM" \/ tenant.deleted
     \/ tenant.status = "ACTIVE" /\ (store = "SUSPENDED" => withheld)

(* Only an operator lifts the platform's suspension: neither a sweep, nor a
   payment, a cancellation, a publication or a rollback, nor two of them,
   brings the store back before.  Excepted are stale writes, and a tenant whose
   data is deleted: its store is gone, and the sweeps go on writing its row. *)
PlatformStands ==
  [][ (tenant.reason = "PLATFORM" /\ ~tenant.deleted /\ ~stale')
      => \/ \E k \in Calls : At(k, "reactivate") /\ At(k, "idle")'
         \/ tenant.reason' = "PLATFORM" /\ ~Public' ]_vars

(* The cron sweeps end unpaid access: once the trial or the last paid period
   and its grace are over, the subscription is paid for or it is SUSPENDED or
   CANCELLED, whatever runs died, lapsed or failed meanwhile. *)
Over == now >= Grace + (IF sub.periodEnd = Unset THEN sub.trialEnd ELSE sub.periodEnd)

AccessEnds == (Over /\ sub.status \in Paid) ~> ~(Over /\ sub.status \in Paid)

(* Data whose deletion date has come are deleted, or the date moves. *)
DueIsDeleted ==
  (Past(tenant.due, now) /\ ~tenant.deleted)
  ~> (tenant.deleted \/ ~Past(tenant.due, now))

(* No run that starts after a payment deletes the data of the tenant it opened
   before the period it bought is over, races apart.  Stated of the policy; the code
   violates it: no payment clears the date a suspension set. *)
PaidBefore(w) ==
  /\ sub.status = "ACTIVE" /\ tenant.status = "ACTIVE"
  /\ sub.periodEnd - Period < job[w].at /\ now < sub.periodEnd

PaidNotDeleted ==
  [][ (~Restoring /\ ~stale)
      => \A w \in Workers : PaidBefore(w) /\ Runs(w, "scrub") => ~tenant.deleted' ]_vars

(* A store the public sees was published by its merchant.  Stated of the
   launch checks; the code violates it: a suspension is written over DRAFT
   and lifting the suspension publishes. *)
OnlyReleasedIsPublic == Public => released

(* The store stays public in the grace period.  Stated of the policy; the
   code violates it: the first sweep after a paid period makes the tenant
   PAST_DUE, which is not a public status. *)
GraceIsPublic ==
  (/\ sub.status \in {"PAST_DUE", "GRACE_PERIOD"} /\ now < sub.graceEnd
   /\ tenant.reason = "none" /\ store = "PUBLISHED" /\ ~stale)
  => Public
=============================================================================
