---------------------------- MODULE TenancyProofs ---------------------------
(***************************************************************************)
(* Proofs about Tenancy, for any number of requests and scheduled runs,    *)
(* any lengths of the periods and any bounds: its types, the lease of the  *)
(* scheduled job and the count of reminders; that only an operator lifts   *)
(* the platform's suspension, that a merchant who has paid is served, and  *)
(* that data is deleted when it is due.                                    *)
(***************************************************************************)
EXTENDS Tenancy, FiniteSetTheorems, TLAPS

(* The dates of a subscription that the sweeps may have treated *)
Sound(s) ==
  /\ s.trialEnd = 1 + Trial
  /\ s.periodEnd <= Horizon + Period
  /\ s.graceEnd <= Horizon + Trial + Period + Grace
  /\ s.status \in {"ACTIVE", "PAST_DUE"} => s.periodEnd # Unset
  /\ s.status = "GRACE_PERIOD" => s.graceEnd # Unset

(* A run treats a row that was overdue when it read it; a period once paid
   for stays on record. *)
Dated ==
  /\ Sound(sub)
  /\ \A w \in Workers :
       /\ Runs(w, "row") => /\ Sound(job[w].row.sub)
                            /\ Overdue(job[w].row.sub, job[w].at)
                            /\ job[w].row.sub.periodEnd # Unset => sub.periodEnd # Unset
       /\ job[w].pc \in {"check", "notify", "record"} => job[w].stage \in Stages

(* Only the owner of a lease that has not lapsed runs without being late. *)
Leased ==
  \A w \in Workers :
    /\ ~Runs(w, "idle") /\ ~job[w].late => lock.owner = w /\ ~lock.lapsed
    /\ Runs(w, "idle") => ~job[w].late

(* A run is late once for each lapse.  The messages of a stage were sent, or
   are about to be, at most once more often than runs lapsed and faults
   occurred; and what was sent of a stage that is not on record is about to be
   recorded, or a fault came in between. *)
Late == { w \in Workers : job[w].late }
Sending(s)   == { w \in Workers : Runs(w, "notify") /\ job[w].stage = s }
Recording(s) == { w \in Workers : Runs(w, "record") /\ job[w].stage = s }

Numbered ==
  /\ Cardinality(Late) <= lapses
  /\ \A s \in Stages :
       /\ sent[s] + Cardinality(Sending(s)) <= 1 + lapses + faults
       /\ s \notin noticed => sent[s] <= Cardinality(Recording(s)) + faults

(* The inductive invariant of the scheduled job *)
Running == TypeOK /\ Dated /\ Leased /\ Numbered

(* What a sweep decides of a row it found overdue: never an active status,
   and a status that gives access only with the date that will end it. *)
LEMMA DecisionSound ==
  ASSUME NEW s \in Subscription, NEW at \in Nat, Sound(s), Overdue(s, at)
  PROVE  LET d == Decision(s, at) IN
         /\ d.status \in {"CANCELLED", "PAST_DUE", "GRACE_PERIOD", "SUSPENDED"}
         /\ d.graceEnd \in Nat /\ d.graceEnd <= Horizon + Trial + Period + Grace
         /\ d.from \in Nat /\ d.from <= Horizon + Trial + Period + Grace
         /\ d.status = "PAST_DUE" => s.periodEnd # Unset
         /\ d.status = "GRACE_PERIOD" => d.graceEnd # Unset
         /\ s.status = "CANCELLED" => d.status = "CANCELLED"
<1> USE TenancyAssumption
    DEF Subscription, SubscriptionStatus, Dates, Sound, Overdue, TrialOver,
        PeriodOver, GraceOver, Past, Unset, GraceEnd, StatusInGrace
<1>1. CASE Leaves(s, at)
  BY <1>1 DEF Decision, Leaves
<1>2. CASE ~Leaves(s, at) /\ GraceEnd(s) > at
  BY <1>2 DEF Decision
<1>3. CASE ~Leaves(s, at) /\ GraceEnd(s) <= at
  BY <1>3 DEF Decision
<1>4. GraceEnd(s) \in Nat
  OBVIOUS
<1> QED
  BY <1>1, <1>2, <1>3, <1>4

(* The statements of a scheduled run, and where a failing one leads *)
LEMMA RunSteps ==
  /\ RunPC = { "idle", "sweep", "row", "remind", "check", "notify", "record",
               "retain", "reread", "scrub", "release" }
  /\ \A pc \in DOMAIN After : pc # "idle" /\ After[pc] \in { "release", "remind", "retain" }
  /\ DOMAIN After \subseteq RunPC
BY DEF RunPC, After

LEMMA NoRowTyped ==
  NoRow \in Selected
BY TenancyAssumption
   DEF NoRow, Selected, Subscription, SubscriptionStatus, TenantStatus, Dates, Unset

(* What a starting run and an operator's request are *)
LEMMA Woken ==
  ASSUME NEW at \in 0 .. Horizon
  PROVE  LET r == [ Asleep EXCEPT !.pc = "sweep", !.at = at ]
         IN r \in Run /\ r.pc = "sweep" /\ r.row = NoRow /\ ~r.late
<1>1. Asleep \in Run /\ Asleep.row = NoRow /\ ~Asleep.late
  BY RunSteps, NoRowTyped, TenancyAssumption DEF Asleep, Run, Unset
<1> QED
  BY <1>1, RunSteps DEF Run

LEMMA Asked ==
  ASSUME NEW pc \in CallPC, NEW s \in StoreState, NEW b \in BOOLEAN
  PROVE  [ Idle EXCEPT !.pc = pc, !.store = s, !.opens = b ]
           \in [ pc : CallPC, was : TenantStatus \cup {"none"},
                 reason : Reason, store : StoreState \cup {"none"}, opens : BOOLEAN ]
<1>1. Idle \in [ pc : CallPC, was : TenantStatus \cup {"none"},
                 reason : Reason, store : StoreState \cup {"none"}, opens : BOOLEAN ]
  BY DEF Idle, CallPC, Reason
<1> QED
  BY <1>1

(* What a payment has read of the tenant and its store *)
LEMMA ReadTyped ==
  ASSUME RowsOK, RequestsOK, NEW k \in Calls, Reads(k)
  PROVE  /\ RequestsOK'
         /\ call'[k].pc = "access" /\ call'[k].reason = tenant.reason
<1> PICK may \in BOOLEAN : call' = [call EXCEPT ![k] =
       [ pc |-> "access", was |-> tenant.status, reason |-> tenant.reason,
         store |-> store, opens |-> store = "SUSPENDED" /\ may ]]
  BY DEF Reads, MaySell
<1> PICK b \in BOOLEAN : b = (store = "SUSPENDED" /\ may)
  OBVIOUS
<1> QED
  BY DEF RowsOK, RequestsOK, CallPC

(* What a failing statement and a lapse leave of a run *)
LEMMA RunLeft ==
  ASSUME NEW r \in Run, NEW pc \in RunPC
  PROVE  LET f == [ r EXCEPT !.pc = pc, !.row = NoRow, !.stage = "none" ]
             l == [ r EXCEPT !.late = TRUE ]
         IN /\ f \in Run /\ f.row = NoRow /\ f.late = r.late /\ f.pc = pc
            /\ l \in Run /\ l.row = r.row /\ l.pc = r.pc /\ l.late
            /\ l.at = r.at /\ l.stage = r.stage
BY NoRowTyped DEF Run

(* A run moves to a step that the type of runs allows. *)
LEMMA RunMoves ==
  ASSUME RunsOK, NEW w \in Workers, NEW r \in Run,
         r.row # NoRow => r.pc = "row",
         job' = [job EXCEPT ![w] = r],
         lock' \in [ owner : Workers \cup {None}, lapsed : BOOLEAN ],
         lock'.owner = None => lock' = Free
  PROVE  RunsOK'
BY DEF RunsOK, Runs

(* A request that goes on to reopen the store, or ends, keeps its type. *)
LEMMA ReopensTyped ==
  ASSUME RequestsOK, NEW k \in Calls, Reopens(k)
  PROVE  RequestsOK'
<1>1. CASE Goes(k, "reopen")
  BY <1>1 DEF Goes, RequestsOK, CallPC
<1>2. CASE Ends(k)
  BY <1>2 DEF Ends, Idle, RequestsOK, CallPC, Reason
<1> QED
  BY <1>1, <1>2 DEF Reopens

(* A run about to send the messages of a stage counts for one of the times
   they may be sent. *)
LEMMA NotifiedOnce ==
  ASSUME Numbered, NEW w \in Workers, Runs(w, "notify"), job[w].stage \in Stages,
         sent[job[w].stage] \in Nat, lapses \in Nat, faults \in Nat
  PROVE  sent[job[w].stage] <= lapses + faults
<1> DEFINE N == Sending(job[w].stage)
<1>1. N \in SUBSET Workers /\ w \in N
  BY DEF Sending
<1>4. sent[job[w].stage] + Cardinality(N) <= 1 + lapses + faults
  BY DEF Numbered
<1> HIDE DEF N
<1>2. IsFiniteSet(N) /\ Cardinality(N) \in Nat
  BY <1>1, TenancyAssumption, FS_Subset, FS_CardinalityType
<1>3. Cardinality(N) # 0
  BY <1>1, <1>2, FS_EmptySet
<1> QED
  BY <1>2, <1>3, <1>4

LEMMA Typed == Running /\ [Next]_vars => TypeOK' /\ Dated' /\ Leased'
<1> SUFFICES ASSUME Running, [Next]_vars PROVE TypeOK' /\ Dated' /\ Leased'
  OBVIOUS
<1> USE TenancyAssumption
    DEF Running, TypeOK, Runs, At, shop, notices, bounds, Unset

<1>1. ASSUME NEW w \in Workers, Acquire(w)
      PROVE  TypeOK' /\ Dated' /\ Leased'
  <2> DEFINE r == [ Asleep EXCEPT !.pc = "sweep", !.at = now ]
  <2>a. r \in Run /\ r.pc = "sweep" /\ r.row = NoRow /\ ~r.late
    <3>1. now \in 0 .. Horizon
      BY DEF CountsOK
    <3> HIDE DEF Running, TypeOK
    <3> QED
      BY ONLY <3>1, Woken
  <2>b. job' = [job EXCEPT ![w] = r]
    BY <1>1 DEF Acquire
  <2> HIDE DEF r
  <2>1. RunsOK'
    <3>1. /\ lock' \in [ owner : Workers \cup {None}, lapsed : BOOLEAN ]
          /\ lock'.owner # None
      BY <1>1 DEF Acquire
    <3> QED
      BY <2>a, <2>b, <3>1, RunMoves
  <2>2. Dated'
    BY <1>1, <2>a, <2>b DEF Acquire, Dated, Sound, RunsOK
  <2>3. Leased'
    BY <1>1, <2>a, <2>b DEF Acquire, Free, Leased, RunsOK
  <2>4. RowsOK' /\ RequestsOK' /\ CountsOK'
    BY <1>1 DEF Acquire, RowsOK, RequestsOK, CountsOK
  <2> QED
    BY <2>1, <2>2, <2>3, <2>4
<1>2. ASSUME NEW w \in Workers, Sweep(w)
      PROVE  TypeOK' /\ Dated' /\ Leased'
  <2>1. RunsOK'
    <3> DEFINE row == [ sub |-> sub, was |-> tenant.status, shop |-> store # "GONE" ]
    <3>1. row \in Selected
      BY DEF RowsOK, Selected
    <3>2. CASE job' = [job EXCEPT ![w].pc = "row", ![w].row = row]
      <4> HIDE DEF row
      <4>1. [job[w] EXCEPT !.pc = "row", !.row = row] \in Run
        BY <3>1, RunSteps DEF RunsOK, Run
      <4>2. job' = [job EXCEPT ![w] = [job[w] EXCEPT !.pc = "row", !.row = row]]
        BY <3>2 DEF RunsOK
      <4>3. [job[w] EXCEPT !.pc = "row", !.row = row].pc = "row"
        BY DEF RunsOK, Run
      <4> QED
        BY <1>2, <4>1, <4>2, <4>3, RunMoves DEF Sweep, RunsOK
    <3>3. CASE Steps(w, "remind")
      BY <1>2, <3>3, RunSteps DEF Sweep, Steps, RunsOK, Run
    <3> QED
      BY <1>2, <3>2, <3>3 DEF Sweep
  <2>2. Dated'
    <3>1. /\ \A v \in Workers \ {w} : job'[v] = job[v]
          /\ \/ /\ Overdue(sub, job[w].at) /\ job'[w].pc = "row"
                /\ job'[w].row.sub = sub /\ job'[w].at = job[w].at
             \/ job'[w].pc = "remind"
      BY <1>2 DEF Sweep, Steps, RunsOK, Run
    <3>2. sub' = sub
      BY <1>2 DEF Sweep
    <3> QED
      BY <3>1, <3>2 DEF Dated, Sound
  <2>3. Leased'
    BY <1>2 DEF Sweep, Steps, Leased, RunsOK, Run
  <2>4. RowsOK' /\ RequestsOK' /\ CountsOK'
    BY <1>2 DEF Sweep, RowsOK, RequestsOK, CountsOK
  <2> QED
    BY <2>1, <2>2, <2>3, <2>4
<1>3. ASSUME NEW w \in Workers, Row(w)
      PROVE  TypeOK' /\ Dated' /\ Leased'
  <2> DEFINE d == Decision(job[w].row.sub, job[w].at)
  <2>0. /\ d.status \in {"CANCELLED", "PAST_DUE", "GRACE_PERIOD", "SUSPENDED"}
        /\ d.graceEnd \in Nat /\ d.graceEnd <= Horizon + Trial + Period + Grace
        /\ d.from \in Nat /\ d.from <= Horizon + Trial + Period + Grace
        /\ d.status = "PAST_DUE" => sub.periodEnd # Unset
        /\ d.status = "GRACE_PERIOD" => d.graceEnd # Unset
    BY <1>3, DecisionSound DEF Row, RunsOK, Run, Selected, Dated
  <2> HIDE DEF d
  <2> DEFINE r == job[w].row
             end == IF d.graceEnd # Unset THEN d.graceEnd ELSE sub.graceEnd
  <2>h. /\ d.from + Retention \in Dates /\ d.graceEnd \in Dates
        /\ d.status \in SubscriptionStatus /\ d.status \in TenantStatus
    BY <2>0 DEF Dates, SubscriptionStatus, TenantStatus
  <2>i. end \in Dates /\ end <= Horizon + Trial + Period + Grace
    BY <2>0, <2>h DEF RowsOK, Subscription, Dated, Sound
  <2>j. \/ UNCHANGED << sub, tenant, store >>
        \/ /\ sub' = [sub EXCEPT !.status = d.status, !.graceEnd = end]
           /\ tenant' = [tenant EXCEPT
                !.status = IF r.was = "SUSPENDED" /\ d.status # "SUSPENDED"
                           THEN tenant.status ELSE d.status,
                !.reason = IF d.status = "SUSPENDED" /\ r.was # "SUSPENDED"
                           THEN "BILLING" ELSE tenant.reason,
                !.due = IF d.from # Unset THEN d.from + Retention ELSE tenant.due]
           /\ store' \in {store, "SUSPENDED"}
    BY <1>3 DEF Row, d, RowsOK, Subscription
  <2>k. /\ sub'.trialEnd = sub.trialEnd /\ sub'.periodEnd = sub.periodEnd
        /\ \/ sub'.status = sub.status /\ sub'.graceEnd = sub.graceEnd
           \/ sub'.status = d.status /\ sub'.graceEnd = end
    BY <2>j DEF RowsOK, Subscription
  <2> HIDE DEF end
  <2>1. RowsOK'
    <3>1. sub' \in Subscription
      BY <2>h, <2>i, <2>j DEF RowsOK, Subscription
    <3>2. /\ sub'.status \in {"ACTIVE", "PAST_DUE"} => sub'.periodEnd # Unset
          /\ sub'.status = "GRACE_PERIOD" => sub'.graceEnd # Unset
      BY <2>0, <2>k DEF RowsOK, end
    <3>3. tenant' \in [ status : TenantStatus, reason : Reason, due : Dates,
                        deleted : BOOLEAN ]
      BY <2>h, <2>j DEF RowsOK, Reason
    <3>4. /\ store' \in StoreState /\ prompted' \in BOOLEAN
          /\ {released', withheld'} \subseteq BOOLEAN
      BY <1>3, <2>j DEF Row, RowsOK, StoreState
    <3> QED
      BY <3>1, <3>2, <3>3, <3>4 DEF RowsOK
  <2>2. RunsOK'
    <3>1. [job[w] EXCEPT !.pc = "remind", !.row = NoRow] \in Run
      BY RunSteps, NoRowTyped DEF RunsOK, Run
    <3>2. [job[w] EXCEPT !.pc = "remind", !.row = NoRow].row = NoRow
      BY DEF RunsOK, Run
    <3>3. job' = [job EXCEPT ![w] = [job[w] EXCEPT !.pc = "remind", !.row = NoRow]]
      BY <1>3 DEF Row, RunsOK
    <3> QED
      BY <1>3, <3>1, <3>2, <3>3, RunMoves DEF Row, RunsOK
  <2>3. CountsOK'
    BY <1>3 DEF Row, Counts, CountsOK
  <2>4. Dated'
    <3>1. Sound(sub)'
      BY <2>0, <2>i, <2>k DEF Dated, Sound, end
    <3>2. \A v \in Workers : job'[v] = job[v]
            \/ job'[v].pc = "remind"
      BY <1>3 DEF Row, RunsOK, Run
    <3> QED
      BY <2>k, <3>1, <3>2 DEF Dated, Sound
  <2>5. Leased'
    BY <1>3 DEF Row, Counts, Leased, RunsOK, Run
  <2>6. RequestsOK'
    BY <1>3 DEF Row, RequestsOK
  <2> QED
    BY <2>1, <2>2, <2>3, <2>4, <2>5, <2>6
<1>4. ASSUME NEW w \in Workers, Remind(w)
      PROVE  TypeOK' /\ Dated' /\ Leased'
  <2>1. RunsOK'
    BY <1>4, RunSteps, NoRowTyped DEF Remind, Steps, Reminded, RunsOK, Stages,
       Run
  <2>2. Dated'
    BY <1>4 DEF Remind, Steps, Reminded, Dated, Sound, RunsOK, Run, Stages
  <2>3. Leased'
    BY <1>4 DEF Remind, Steps, Reminded, Leased, RunsOK, Run
  <2>4. RowsOK' /\ RequestsOK' /\ CountsOK'
    BY <1>4 DEF Remind, RowsOK, RequestsOK, CountsOK
  <2> QED
    BY <2>1, <2>2, <2>3, <2>4
<1>5. ASSUME NEW w \in Workers, Check(w)
      PROVE  TypeOK' /\ Dated' /\ Leased'
  <2>1. RunsOK'
    BY <1>5, RunSteps, NoRowTyped DEF Check, Steps, RunsOK, Stages, Run
  <2>2. Dated'
    BY <1>5 DEF Check, Steps, Dated, Sound, RunsOK, Run
  <2>3. Leased'
    BY <1>5 DEF Check, Steps, Leased, RunsOK, Run
  <2>4. RowsOK' /\ RequestsOK' /\ CountsOK'
    BY <1>5 DEF Check, RowsOK, RequestsOK, CountsOK
  <2> QED
    BY <2>1, <2>2, <2>3, <2>4
<1>6. ASSUME NEW w \in Workers, Notify(w)
      PROVE  TypeOK' /\ Dated' /\ Leased'
  <2>1. RunsOK'
    BY <1>6, RunSteps, NoRowTyped DEF Notify, Steps, RunsOK, Stages, Run
  <2>2. CountsOK'
    <3>1. sent[job[w].stage] <= lapses + faults
      BY <1>6, NotifiedOnce DEF Notify, Dated, RunsOK, Run, CountsOK
    <3>2. sent[job[w].stage] + 1 \in 0 .. 1 + MaxLapses + MaxFaults
      BY <1>6, <3>1 DEF Notify, CountsOK, Dated
    <3> QED
      BY <1>6, <3>2 DEF Notify, CountsOK
  <2>3. Dated'
    BY <1>6 DEF Notify, Steps, Dated, Sound, RunsOK, Run
  <2>4. Leased'
    BY <1>6 DEF Notify, Steps, Leased, RunsOK, Run
  <2>5. RowsOK' /\ RequestsOK'
    BY <1>6 DEF Notify, RowsOK, RequestsOK
  <2> QED
    BY <2>1, <2>2, <2>3, <2>4, <2>5
<1>6a. ASSUME NEW w \in Workers, Record(w)
       PROVE  TypeOK' /\ Dated' /\ Leased'
  <2>a. [ job[w] EXCEPT !.pc = "retain", !.stage = "none" ] \in Run
    BY <1>6a, RunSteps DEF RunsOK, Run
  <2>1. RunsOK'
    <3>1. job[w].row = NoRow
      BY <1>6a DEF Record, RunsOK
    <3>2. [job[w] EXCEPT !.pc = "retain", !.stage = "none"].row = NoRow
      BY <3>1 DEF RunsOK, Run
    <3>3. job' = [job EXCEPT ![w] = [job[w] EXCEPT !.pc = "retain", !.stage = "none"]]
      BY <1>6a DEF Record, RunsOK
    <3> QED
      BY <1>6a, <2>a, <3>2, <3>3, RunMoves DEF Record, RunsOK
  <2>2. CountsOK'
    BY <1>6a DEF Record, CountsOK, Dated
  <2>3. Dated'
    BY <1>6a, <2>a DEF Record, Dated, Sound, RunsOK, Run
  <2>4. Leased'
    BY <1>6a, <2>a DEF Record, Leased, RunsOK, Run
  <2>5. RowsOK' /\ RequestsOK'
    BY <1>6a DEF Record, RowsOK, RequestsOK
  <2> QED
    BY <2>1, <2>2, <2>3, <2>4, <2>5
<1>7. ASSUME NEW w \in Workers, Retain(w)
      PROVE  TypeOK' /\ Dated' /\ Leased'
  <2>1. RunsOK'
    BY <1>7, RunSteps, NoRowTyped DEF Retain, Steps, RunsOK, Stages, Run
  <2>2. Dated'
    BY <1>7 DEF Retain, Steps, Dated, Sound, RunsOK, Run
  <2>3. Leased'
    BY <1>7 DEF Retain, Steps, Leased, RunsOK, Run
  <2>4. RowsOK' /\ RequestsOK' /\ CountsOK'
    BY <1>7 DEF Retain, RowsOK, RequestsOK, CountsOK
  <2> QED
    BY <2>1, <2>2, <2>3, <2>4
<1>8. ASSUME NEW w \in Workers, Reread(w)
      PROVE  TypeOK' /\ Dated' /\ Leased'
  <2>1. RunsOK'
    BY <1>8, RunSteps, NoRowTyped DEF Reread, Steps, RunsOK, Stages, Run
  <2>2. Dated'
    BY <1>8 DEF Reread, Steps, Dated, Sound, RunsOK, Run
  <2>3. Leased'
    BY <1>8 DEF Reread, Steps, Leased, RunsOK, Run
  <2>4. RowsOK' /\ RequestsOK' /\ CountsOK'
    BY <1>8 DEF Reread, RowsOK, RequestsOK, CountsOK
  <2> QED
    BY <2>1, <2>2, <2>3, <2>4
<1>9. ASSUME NEW w \in Workers, Scrub(w)
      PROVE  TypeOK' /\ Dated' /\ Leased'
  <2>1. RowsOK'
    BY <1>9 DEF Scrub, Steps, RowsOK, Subscription, SubscriptionStatus,
       TenantStatus, Reason, StoreState, Dates
  <2>2. RunsOK'
    BY <1>9, RunSteps, NoRowTyped DEF Scrub, Steps, RunsOK, Stages, Run
  <2>3. CountsOK'
    BY <1>9 DEF Scrub, Steps, CountsOK
  <2>4. Dated'
    BY <1>9 DEF Scrub, Steps, Dated, Sound, RunsOK, Run
  <2>5. Leased'
    BY <1>9 DEF Scrub, Steps, Leased, RunsOK, Run
  <2>6. RequestsOK'
    BY <1>9 DEF Scrub, RequestsOK
  <2> QED
    BY <2>1, <2>2, <2>3, <2>4, <2>5, <2>6
<1>10. ASSUME NEW w \in Workers, Release(w)
      PROVE  TypeOK' /\ Dated' /\ Leased'
  <2>1. RunsOK'
    BY <1>10, RunSteps, NoRowTyped DEF Release, Free, Asleep, RunsOK, Stages,
       Run
  <2>2. Dated'
    BY <1>10 DEF Release, Free, Asleep, Dated, Sound, RunsOK, Run
  <2>3. Leased'
    BY <1>10 DEF Release, Free, Asleep, Leased, RunsOK, Run
  <2>4. RowsOK' /\ RequestsOK' /\ CountsOK'
    BY <1>10 DEF Release, RowsOK, RequestsOK, CountsOK
  <2> QED
    BY <2>1, <2>2, <2>3, <2>4
<1>11. ASSUME NEW w \in Workers, Fails(w)
      PROVE  TypeOK' /\ Dated' /\ Leased'
  <2> DEFINE r == [job[w] EXCEPT !.pc = After[@], !.row = NoRow, !.stage = "none"]
  <2>a. After[job[w].pc] \in { "release", "remind", "retain" }
    BY <1>11, RunSteps DEF Fails
  <2>b. job[w] \in Run /\ After[job[w].pc] \in RunPC
    BY <2>a, RunSteps DEF RunsOK
  <2>c. r = [job[w] EXCEPT !.pc = After[job[w].pc], !.row = NoRow, !.stage = "none"]
    BY <2>b DEF Run
  <2>d. r \in Run
    BY <2>b, <2>c, RunLeft
  <2>e. job' = [job EXCEPT ![w] = r]
    BY <1>11 DEF Fails, RunsOK
  <2>f. /\ r.row = NoRow /\ r.late = job[w].late
        /\ r.pc \in { "release", "remind", "retain" }
    BY <2>a, <2>b, <2>c DEF Run
  <2> HIDE DEF r
  <2>1. RunsOK'
    BY <1>11, <2>d, <2>e, <2>f, RunMoves DEF Fails, RunsOK
  <2>2. CountsOK'
    BY <1>11 DEF Fails, CountsOK
  <2>3. Dated'
    <3>1. \A v \in Workers : job'[v] = job[v]
            \/ job'[v].pc \in { "release", "remind", "retain" }
      BY <2>e, <2>f DEF RunsOK
    <3> QED
      BY <1>11, <3>1 DEF Fails, Dated, Sound
  <2>4. Leased'
    BY <1>11, <2>e, <2>f, RunSteps DEF Fails, Leased, RunsOK
  <2>5. RowsOK' /\ RequestsOK'
    BY <1>11 DEF Fails, RowsOK, RequestsOK
  <2> QED
    BY <2>1, <2>2, <2>3, <2>4, <2>5
<1>12. ASSUME NEW w \in Workers, Crash(w)
      PROVE  TypeOK' /\ Dated' /\ Leased'
  <2>1. RunsOK'
    BY <1>12, RunSteps, NoRowTyped DEF Crash, Asleep, RunsOK, Stages, Run
  <2>2. CountsOK'
    BY <1>12 DEF Crash, Asleep, CountsOK
  <2>3. Dated'
    BY <1>12 DEF Crash, Asleep, Dated, Sound, RunsOK, Run
  <2>4. Leased'
    BY <1>12 DEF Crash, Asleep, Leased, RunsOK, Run
  <2>5. RowsOK' /\ RequestsOK'
    BY <1>12 DEF Crash, RowsOK, RequestsOK
  <2> QED
    BY <2>1, <2>2, <2>3, <2>4, <2>5
<1>13. ASSUME Lapse
      PROVE  TypeOK' /\ Dated' /\ Leased'
  <2>a. lock.owner \in Workers
    BY <1>13 DEF Lapse, RunsOK
  <2> DEFINE r == [ job[lock.owner] EXCEPT !.late = TRUE ]
  <2>b. /\ r \in Run /\ r.row = job[lock.owner].row /\ r.pc = job[lock.owner].pc
        /\ r.late /\ r.at = job[lock.owner].at /\ r.stage = job[lock.owner].stage
    BY <2>a, RunSteps, RunLeft DEF RunsOK
  <2>c. job' = job \/ job' = [job EXCEPT ![lock.owner] = r]
    BY <1>13 DEF Lapse, RunsOK
  <2> HIDE DEF r
  <2>d. lock' \in [ owner : Workers \cup {None}, lapsed : BOOLEAN ]
        /\ lock'.owner # None
    BY <1>13, <2>a DEF Lapse, RunsOK
  <2>1. RunsOK'
    BY <2>a, <2>b, <2>c, <2>d DEF RunsOK
  <2>2. CountsOK'
    BY <1>13 DEF Lapse, Free, CountsOK
  <2>3. Dated'
    <3>1. \A v \in Workers :
            /\ job'[v].pc = job[v].pc /\ job'[v].row = job[v].row
            /\ job'[v].at = job[v].at /\ job'[v].stage = job[v].stage
      BY <2>a, <2>b, <2>c DEF RunsOK
    <3> QED
      BY <1>13, <3>1 DEF Lapse, Dated, Sound
  <2>4. Leased'
    BY <1>13, <2>a DEF Lapse, Free, Leased, RunsOK, Run, r
  <2>5. RowsOK' /\ RequestsOK'
    BY <1>13 DEF Lapse, RowsOK, RequestsOK
  <2> QED
    BY <2>1, <2>2, <2>3, <2>4, <2>5
<1>14. ASSUME Prompt
      PROVE  TypeOK' /\ Dated' /\ Leased'
  <2>1. RowsOK'
    <3>1. /\ sub' = sub /\ tenant' = tenant /\ store' = store /\ released' = released
          /\ withheld' = withheld
          /\ prompted' = TRUE
      BY <1>14 DEF Prompt
    <3> QED BY <3>1 DEF RowsOK
  <2>2. CountsOK'
    BY <1>14 DEF Prompt, CountsOK
  <2>3. RunsOK' /\ RequestsOK' /\ Dated' /\ Leased'
    BY <1>14 DEF Prompt, RunsOK, RequestsOK, Dated, Leased, Sound
  <2> QED
    BY <2>1, <2>2, <2>3
<1>15. ASSUME Declined
      PROVE  TypeOK' /\ Dated' /\ Leased'
  <2>1. RowsOK'
    <3>1. /\ sub' = sub /\ tenant' = tenant /\ store' = store /\ released' = released
          /\ withheld' = withheld
          /\ prompted' = FALSE
      BY <1>15 DEF Declined
    <3> QED BY <3>1 DEF RowsOK
  <2>2. RunsOK' /\ RequestsOK' /\ CountsOK' /\ Dated' /\ Leased'
    BY <1>15 DEF Declined, RunsOK, RequestsOK, CountsOK, Dated, Leased, Sound
  <2> QED
    BY <2>1, <2>2
<1>16. ASSUME NEW k \in Calls, Activate(k)
      PROVE  TypeOK' /\ Dated' /\ Leased'
  <2>1. RowsOK'
    <3>1. now + Period \in Dates /\ now + Period # Unset /\ Unset \in Dates
      BY DEF CountsOK, Dates
    <3>2. sub' \in Subscription
      BY <1>16, <3>1 DEF Activate, RowsOK, Subscription, SubscriptionStatus
    <3>3. sub'.status = "ACTIVE" /\ sub'.periodEnd # Unset
      BY <1>16, <3>1 DEF Activate, RowsOK, Subscription
    <3> QED
      BY <1>16, <3>2, <3>3 DEF Activate, RowsOK
  <2>2. RequestsOK'
    BY <1>16 DEF Activate, Counts, Goes, RequestsOK, CallPC, StoreState,
       Reason, TenantStatus, SubscriptionStatus
  <2>3. CountsOK'
    BY <1>16 DEF Activate, Counts, Goes, CountsOK
  <2>4. Dated'
    BY <1>16 DEF Activate, Counts, Goes, Dated, Sound, RowsOK, CountsOK,
       Subscription
  <2>5. RunsOK' /\ Leased'
    BY <1>16 DEF Activate, RunsOK, Leased
  <2> QED
    BY <2>1, <2>2, <2>3, <2>4, <2>5
<1>17. ASSUME NEW k \in Calls, ReadTenant(k)
      PROVE  TypeOK' /\ Dated' /\ Leased'
  <2>1. RequestsOK'
    <3>1. CASE Ends(k)
      BY <3>1 DEF Ends, Idle, RequestsOK, CallPC, Reason
    <3> QED
      BY <1>17, <3>1, ReadTyped DEF ReadTenant
  <2>2. RowsOK' /\ RunsOK' /\ CountsOK' /\ Dated' /\ Leased'
    BY <1>17 DEF ReadTenant, RowsOK, RunsOK, CountsOK, Dated, Leased, Sound
  <2> QED
    BY <2>1, <2>2
<1>18. ASSUME NEW k \in Calls, RestoreTenant(k)
      PROVE  TypeOK' /\ Dated' /\ Leased'
  <2>1. RowsOK'
    BY <1>18 DEF RestoreTenant, Counts, Reopens, Withholds, Goes, Ends, Idle, RowsOK,
       Subscription, SubscriptionStatus, TenantStatus, Reason, StoreState,
       Dates, RequestsOK
  <2>2. RequestsOK'
    BY <1>18, ReopensTyped DEF RestoreTenant
  <2>3. CountsOK'
    BY <1>18 DEF RestoreTenant, Counts, Reopens, Goes, Ends, Idle, CountsOK
  <2>4. RunsOK' /\ Dated' /\ Leased'
    BY <1>18 DEF RestoreTenant, RunsOK, Dated, Leased, Sound
  <2> QED
    BY <2>1, <2>2, <2>3, <2>4
<1>19. ASSUME NEW k \in Calls, ReopenStore(k)
      PROVE  TypeOK' /\ Dated' /\ Leased'
  <2>1. RowsOK'
    BY <1>19 DEF ReopenStore, Ends, Idle, RowsOK, Subscription,
       SubscriptionStatus, TenantStatus, Reason, StoreState, Dates
  <2>2. RequestsOK'
    BY <1>19 DEF ReopenStore, Ends, Idle, RequestsOK, CallPC, StoreState,
       Reason, TenantStatus, SubscriptionStatus
  <2>3. RunsOK' /\ CountsOK' /\ Dated' /\ Leased'
    BY <1>19 DEF ReopenStore, RunsOK, CountsOK, Dated, Leased, Sound
  <2> QED
    BY <2>1, <2>2, <2>3
<1>20. ASSUME NEW k \in Calls, RestoreFails(k)
      PROVE  TypeOK' /\ Dated' /\ Leased'
  <2>1. RequestsOK'
    BY <1>20, ReopensTyped DEF RestoreFails
  <2>2. CountsOK'
    BY <1>20 DEF RestoreFails, Reopens, Goes, Ends, Idle, CountsOK
  <2>3. RowsOK' /\ RunsOK' /\ Dated' /\ Leased'
    BY <1>20 DEF RestoreFails, RowsOK, RunsOK, Dated, Leased, Sound
  <2> QED
    BY <2>1, <2>2, <2>3
<1>21. ASSUME NEW k \in Calls, Cancel(k)
      PROVE  TypeOK' /\ Dated' /\ Leased'
  <2>1. RequestsOK'
    BY <1>21 DEF Cancel, Goes, RequestsOK, CallPC, StoreState, Reason,
       TenantStatus, SubscriptionStatus
  <2>2. RowsOK' /\ RunsOK' /\ CountsOK' /\ Dated' /\ Leased'
    BY <1>21 DEF Cancel, RowsOK, RunsOK, CountsOK, Dated, Leased, Sound
  <2> QED
    BY <2>1, <2>2
<1>22. ASSUME NEW k \in Calls, FlagPeriodEnd(k)
      PROVE  TypeOK' /\ Dated' /\ Leased'
  <2>1. RowsOK'
    BY <1>22 DEF FlagPeriodEnd, Ends, Idle, RowsOK, Subscription,
       SubscriptionStatus, TenantStatus, Reason, StoreState, Dates
  <2>2. RequestsOK'
    BY <1>22 DEF FlagPeriodEnd, Ends, Idle, RequestsOK, CallPC, StoreState,
       Reason, TenantStatus, SubscriptionStatus
  <2>3. Dated'
    BY <1>22 DEF FlagPeriodEnd, Ends, Idle, Dated, Sound, RowsOK, Subscription
  <2>4. RunsOK' /\ CountsOK' /\ Leased'
    BY <1>22 DEF FlagPeriodEnd, RunsOK, CountsOK, Leased
  <2> QED
    BY <2>1, <2>2, <2>3, <2>4
<1>23. ASSUME NEW k \in Calls, Quit(k)
      PROVE  TypeOK' /\ Dated' /\ Leased'
  <2>1. RowsOK'
    <3>1. now + Retention \in Dates
      BY DEF CountsOK, Dates
    <3>2. sub' \in Subscription /\ sub'.status = "CANCELLED"
      BY <1>23 DEF Quit, RowsOK, Subscription, SubscriptionStatus
    <3>3. tenant' \in [ status : TenantStatus, reason : Reason, due : Dates,
                        deleted : BOOLEAN ]
      BY <1>23, <3>1 DEF Quit, RowsOK, TenantStatus, SubscriptionStatus
    <3> QED
      BY <1>23, <3>2, <3>3 DEF Quit, RowsOK, StoreState
  <2>2. RequestsOK'
    BY <1>23 DEF Quit, Ends, Idle, RequestsOK, CallPC, StoreState, Reason,
       TenantStatus, SubscriptionStatus
  <2>3. Dated'
    BY <1>23 DEF Quit, Ends, Idle, Dated, Sound, RowsOK, Subscription
  <2>4. RunsOK' /\ CountsOK' /\ Leased'
    BY <1>23 DEF Quit, RunsOK, CountsOK, Leased
  <2> QED
    BY <2>1, <2>2, <2>3, <2>4
<1>24. ASSUME NEW k \in Calls, Operate(k)
      PROVE  TypeOK' /\ Dated' /\ Leased'
  <2>1. RequestsOK'
    <3>1. PICK pc \in {"suspend", "reactivate"}, may \in BOOLEAN :
            call' = [call EXCEPT ![k] =
              [ Idle EXCEPT !.pc = pc, !.store = store,
                  !.opens = pc = "reactivate" /\ store = "SUSPENDED" /\ may ]]
      BY <1>24 DEF Operate, MaySell
    <3> PICK b \in BOOLEAN : b = (pc = "reactivate" /\ store = "SUSPENDED" /\ may)
      OBVIOUS
    <3>2. pc \in CallPC /\ store \in StoreState
      BY DEF RowsOK, CallPC
    <3>3. [ Idle EXCEPT !.pc = pc, !.store = store, !.opens = b ]
            \in [ pc : CallPC, was : TenantStatus \cup {"none"}, reason : Reason,
                  store : StoreState \cup {"none"}, opens : BOOLEAN ]
      BY <3>2, Asked
    <3> QED
      BY <3>1, <3>3 DEF RequestsOK
  <2>2. RowsOK' /\ RunsOK' /\ CountsOK' /\ Dated' /\ Leased'
    BY <1>24 DEF Operate, RowsOK, RunsOK, CountsOK, Dated, Leased, Sound
  <2> QED
    BY <2>1, <2>2
<1>25. ASSUME NEW k \in Calls, Suspend(k)
      PROVE  TypeOK' /\ Dated' /\ Leased'
  <2>1. RowsOK'
    BY <1>25 DEF Suspend, Ends, Idle, RowsOK, Subscription, SubscriptionStatus,
       TenantStatus, Reason, StoreState, Dates
  <2>2. RequestsOK'
    BY <1>25 DEF Suspend, Ends, Idle, RequestsOK, CallPC, StoreState, Reason,
       TenantStatus, SubscriptionStatus
  <2>3. RunsOK' /\ CountsOK' /\ Dated' /\ Leased'
    BY <1>25 DEF Suspend, RunsOK, CountsOK, Dated, Leased, Sound
  <2> QED
    BY <2>1, <2>2, <2>3
<1>26. ASSUME NEW k \in Calls, Reactivate(k)
      PROVE  TypeOK' /\ Dated' /\ Leased'
  <2>1. RowsOK'
    BY <1>26 DEF Reactivate, Withholds, Counts, Ends, Idle, RequestsOK, RowsOK,
       Subscription,
       SubscriptionStatus, TenantStatus, Reason, StoreState, Dates
  <2>2. RequestsOK'
    BY <1>26 DEF Reactivate, Counts, Ends, Idle, RequestsOK, CallPC,
       StoreState, Reason, TenantStatus, SubscriptionStatus
  <2>3. CountsOK'
    BY <1>26 DEF Reactivate, Counts, Ends, Idle, CountsOK
  <2>4. RunsOK' /\ Dated' /\ Leased'
    BY <1>26 DEF Reactivate, RunsOK, Dated, Leased, Sound
  <2> QED
    BY <2>1, <2>2, <2>3, <2>4
<1>27. ASSUME NEW k \in Calls, Publish(k)
      PROVE  TypeOK' /\ Dated' /\ Leased'
  <2>1. RequestsOK'
    BY <1>27 DEF Publish, Goes, RequestsOK, CallPC, StoreState, Reason,
       TenantStatus, SubscriptionStatus
  <2>2. RowsOK' /\ RunsOK' /\ CountsOK' /\ Dated' /\ Leased'
    BY <1>27 DEF Publish, RowsOK, RunsOK, CountsOK, Dated, Leased, Sound
  <2> QED
    BY <2>1, <2>2
<1>28. ASSUME NEW k \in Calls, PublishStore(k)
      PROVE  TypeOK' /\ Dated' /\ Leased'
  <2>1. RowsOK'
    BY <1>28 DEF PublishStore, Ends, Idle, RowsOK, Subscription,
       SubscriptionStatus, TenantStatus, Reason, StoreState, Dates
  <2>2. RequestsOK'
    BY <1>28 DEF PublishStore, Ends, Idle, RequestsOK, CallPC, StoreState,
       Reason, TenantStatus, SubscriptionStatus
  <2>3. RunsOK' /\ CountsOK' /\ Dated' /\ Leased'
    BY <1>28 DEF PublishStore, RunsOK, CountsOK, Dated, Leased, Sound
  <2> QED
    BY <2>1, <2>2, <2>3
<1>29. ASSUME NEW k \in Calls, Drop(k)
      PROVE  TypeOK' /\ Dated' /\ Leased'
  <2>1. RequestsOK'
    BY <1>29 DEF Drop, Ends, Idle, RequestsOK, CallPC, StoreState, Reason,
       TenantStatus, SubscriptionStatus
  <2>2. CountsOK'
    BY <1>29 DEF Drop, Ends, Idle, CountsOK
  <2>3. RowsOK' /\ RunsOK' /\ Dated' /\ Leased'
    BY <1>29 DEF Drop, RowsOK, RunsOK, Dated, Leased, Sound
  <2> QED
    BY <2>1, <2>2, <2>3
<1>30. ASSUME Tick
      PROVE  TypeOK' /\ Dated' /\ Leased'
  <2>1. CountsOK'
    BY <1>30 DEF Tick, CountsOK
  <2>2. RowsOK' /\ RunsOK' /\ RequestsOK' /\ Dated' /\ Leased'
    BY <1>30 DEF Tick, RowsOK, RunsOK, RequestsOK, Dated, Leased, Sound
  <2> QED
    BY <2>1, <2>2
<1>31. CASE UNCHANGED vars
  BY <1>31 DEF vars, RowsOK, RunsOK, RequestsOK, CountsOK, Dated, Sound, Leased
<1> HIDE TenancyAssumption
         DEF Running, TypeOK, Runs, At, shop, notices, bounds, Unset
<1>32. ASSUME NEW w \in Workers, Job(w)
       PROVE  TypeOK' /\ Dated' /\ Leased'
  BY <1>32, <1>1, <1>2, <1>3, <1>4, <1>5, <1>6, <1>6a, <1>7, <1>8, <1>9, <1>10, <1>11,
     <1>12 DEF Job, RunStep
<1>33. ASSUME NEW k \in Calls, Request(k)
       PROVE  TypeOK' /\ Dated' /\ Leased'
  BY <1>33, <1>16, <1>17, <1>18, <1>19, <1>20, <1>21, <1>22, <1>23, <1>24, <1>25,
     <1>26, <1>27, <1>28, <1>29 DEF Request
<1> QED
  BY <1>13, <1>14, <1>15, <1>30, <1>31, <1>32, <1>33 DEF Next

(* The sets that are counted are finite, and their sizes are numbers. *)
LEMMA Counted ==
  ASSUME NEW s
  PROVE  /\ IsFiniteSet(Sending(s)) /\ Cardinality(Sending(s)) \in Nat
         /\ IsFiniteSet(Sending(s)') /\ Cardinality(Sending(s)') \in Nat
         /\ IsFiniteSet(Recording(s)) /\ Cardinality(Recording(s)) \in Nat
         /\ IsFiniteSet(Recording(s)') /\ Cardinality(Recording(s)') \in Nat
         /\ IsFiniteSet(Late) /\ Cardinality(Late) \in Nat
         /\ IsFiniteSet(Late') /\ Cardinality(Late') \in Nat
<1>1. /\ Sending(s) \subseteq Workers /\ Sending(s)' \subseteq Workers
      /\ Recording(s) \subseteq Workers /\ Recording(s)' \subseteq Workers
      /\ Late \subseteq Workers /\ Late' \subseteq Workers
  BY DEF Sending, Recording, Late
<1> QED
  BY <1>1, TenancyAssumption, FS_Subset, FS_CardinalityType

(* So are the counters. *)
LEMMA Numbers ==
  ASSUME CountsOK
  PROVE  lapses \in Nat /\ faults \in Nat /\ \A s \in Stages : sent[s] \in Nat
BY TenancyAssumption DEF CountsOK

(* No run becomes late. *)
LEMMA LateKept ==
  ASSUME Running, CountsOK', lapses' = lapses,
         \A w \in Workers : job'[w].late => job[w].late
  PROVE  Cardinality(Late') <= lapses'
<1>1. Late' \subseteq Late
  BY DEF Late
<1>2. Cardinality(Late') <= Cardinality(Late)
  BY <1>1, Counted, FS_Subset
<1>3. Cardinality(Late) <= lapses
  BY DEF Running, Numbered
<1> QED
  BY <1>2, <1>3, Counted, Numbers DEF Running, TypeOK

(* A step that sends and records nothing, begins no sending and ends no recording *)
LEMMA StillNumbered ==
  ASSUME Running, CountsOK', lapses' = lapses, faults' = faults,
         sent' = sent, noticed' = noticed,
         \A w \in Workers : /\ job'[w].late => job[w].late
                            /\ \/ job'[w].pc = job[w].pc /\ job'[w].stage = job[w].stage
                               \/ /\ job[w].pc \notin {"notify", "record"}
                                  /\ job'[w].pc \notin {"notify", "record"}
  PROVE  Numbered'
<1>1. \A s \in Stages : Sending(s)' = Sending(s) /\ Recording(s)' = Recording(s)
  BY DEF Sending, Recording, Runs
<1> QED
  BY <1>1, LateKept DEF Running, Numbered

(* A fault stops a run before it sends, or before it records what it sent. *)
LEMMA FaultNumbered ==
  ASSUME Running, CountsOK', lapses' = lapses, faults' = faults + 1,
         sent' = sent, noticed' = noticed, NEW w \in Workers,
         job'[w].late => job[w].late, job'[w].pc \notin {"notify", "record"},
         \A v \in Workers \ {w} : job'[v] = job[v]
  PROVE  Numbered'
<1>1. ASSUME NEW s \in Stages
      PROVE  /\ sent'[s] + Cardinality(Sending(s)') <= 1 + lapses' + faults'
             /\ s \notin noticed' => sent'[s] <= Cardinality(Recording(s)') + faults'
  <2>1. Sending(s)' \subseteq Sending(s) /\ Recording(s) \subseteq Recording(s)' \cup {w}
    BY DEF Sending, Recording, Runs
  <2>2. Cardinality(Sending(s)') <= Cardinality(Sending(s))
    BY <2>1, Counted, FS_Subset
  <2>3. Cardinality(Recording(s)) <= Cardinality(Recording(s)') + 1
    <3> PICK R : R = Recording(s)'
      OBVIOUS
    <3>1. /\ IsFiniteSet(R \cup {w})
          /\ \/ Cardinality(R \cup {w}) = Cardinality(R)
             \/ Cardinality(R \cup {w}) = Cardinality(R) + 1
      BY Counted, FS_AddElement
    <3>2. Cardinality(Recording(s)) <= Cardinality(R \cup {w})
      BY <2>1, <3>1, FS_Subset
    <3> QED
      BY <3>1, <3>2, Counted
  <2>4. /\ sent[s] + Cardinality(Sending(s)) <= 1 + lapses + faults
        /\ s \notin noticed => sent[s] <= Cardinality(Recording(s)) + faults
    BY DEF Running, Numbered
  <2> QED
    BY <2>2, <2>3, <2>4, Counted, Numbers DEF Running, TypeOK
<1>2. \A v \in Workers : job'[v].late => job[v].late
  OBVIOUS
<1> QED
  BY <1>1, <1>2, LateKept DEF Numbered

(* The runs in progress are the late ones and the owner of the lease. *)
LEMMA InProgress ==
  ASSUME Running, NEW S \in SUBSET { w \in Workers : ~Runs(w, "idle") }
  PROVE  IsFiniteSet(S) /\ Cardinality(S) <= 1 + lapses
<1>1. IsFiniteSet(Late) /\ Late \subseteq Workers
  BY TenancyAssumption, FS_Subset DEF Late
<1>2. S \subseteq Late \cup {lock.owner}
  BY DEF Running, Leased, Late
<1>3. /\ IsFiniteSet(Late \cup {lock.owner}) /\ Cardinality(Late) \in Nat
      /\ \/ Cardinality(Late \cup {lock.owner}) = Cardinality(Late)
         \/ Cardinality(Late \cup {lock.owner}) = Cardinality(Late) + 1
  BY <1>1, FS_AddElement, FS_CardinalityType
<1>4. /\ IsFiniteSet(S) /\ Cardinality(S) <= Cardinality(Late \cup {lock.owner})
      /\ Cardinality(S) \in Nat
  BY <1>2, <1>3, FS_Subset, FS_CardinalityType
<1>5. Cardinality(Late) <= lapses /\ lapses \in Nat
  BY TenancyAssumption DEF Running, Numbered, TypeOK, CountsOK
<1> QED
  BY <1>3, <1>4, <1>5

(* A run that finds no record of a stage may send it: of what was sent before
   each is about to be recorded by another run in progress, or a fault came in
   between. *)
LEMMA CheckNumbered ==
  ASSUME Running, TypeOK', NEW w \in Workers, Check(w)
  PROVE  Numbered'
<1> USE DEF Runs, bounds
<1>1. job[w].stage \in Stages
  BY DEF Check, Running, Dated
<1>2. /\ lapses' = lapses /\ faults' = faults /\ sent' = sent /\ noticed' = noticed
      /\ job[w].pc = "check"
  BY DEF Check, notices
<1>3. CASE job[w].stage \in noticed
  <2>1. /\ job'[w].pc = "retain" /\ job'[w].late = job[w].late
        /\ \A v \in Workers \ {w} : job'[v] = job[v]
    BY <1>3 DEF Check, Running, TypeOK, RunsOK, Run
  <2> QED
    BY <1>2, <2>1, StillNumbered DEF TypeOK
<1>4. CASE job[w].stage \notin noticed
  <2>1. /\ job'[w].pc = "notify" /\ job'[w].late = job[w].late
        /\ job'[w].stage = job[w].stage
        /\ \A v \in Workers \ {w} : job'[v] = job[v]
    BY <1>4 DEF Check, Steps, Running, TypeOK, RunsOK, Run
  <2>2. Cardinality(Late') <= lapses'
    BY <1>2, <2>1, LateKept DEF TypeOK
  <2>3. ASSUME NEW s \in Stages
        PROVE  /\ sent'[s] + Cardinality(Sending(s)') <= 1 + lapses' + faults'
               /\ s \notin noticed' => sent'[s] <= Cardinality(Recording(s)') + faults'
    <3>1. Recording(s)' = Recording(s)
      BY <1>2, <2>1 DEF Recording
    <3>2. s \notin noticed => sent[s] <= Cardinality(Recording(s)) + faults
      BY DEF Running, Numbered
    <3>3. CASE s = job[w].stage
      <4> PICK A, B : A = Sending(s)' /\ B = Recording(s)
        OBVIOUS
      <4>1. /\ A \cap B = {}
            /\ A \cup B \in SUBSET { v \in Workers : ~Runs(v, "idle") }
        BY <1>2, <2>1, <3>1 DEF Sending, Recording
      <4>2. Cardinality(A \cup B) <= 1 + lapses
        BY <4>1, InProgress
      <4>a. IsFiniteSet(A) /\ IsFiniteSet(B)
            /\ Cardinality(A) \in Nat /\ Cardinality(B) \in Nat
        BY Counted
      <4>3. Cardinality(A \cup B) = Cardinality(A) + Cardinality(B)
        <5>1. Cardinality(A \cup B)
                = Cardinality(A) + Cardinality(B) - Cardinality(A \cap B)
          BY <4>a, FS_Union
        <5>2. Cardinality(A \cap B) = 0
          BY <4>1, FS_EmptySet
        <5> QED
          BY <4>a, <5>1, <5>2
      <4> QED
        BY <1>2, <1>4, <3>1, <3>2, <3>3, <4>2, <4>3, Counted, Numbers
           DEF Running, TypeOK
    <3>4. CASE s # job[w].stage
      <4>1. Sending(s)' = Sending(s)
        BY <3>4, <1>2, <2>1 DEF Sending
      <4> QED
        BY <4>1, <3>1, <1>2 DEF Running, Numbered
    <3> QED
      BY <3>3, <3>4
  <2> QED
    BY <2>2, <2>3 DEF Numbered
<1> QED
  BY <1>3, <1>4

(* The messages are sent: from now on they are about to be recorded. *)
LEMMA NotifyNumbered ==
  ASSUME Running, TypeOK', NEW w \in Workers, Notify(w)
  PROVE  Numbered'
<1> USE DEF Runs, bounds
<1> PICK st : st = job[w].stage
  OBVIOUS
<1>1. st \in Stages /\ job[w].pc = "notify"
  BY DEF Notify, Running, Dated
<1>2. /\ lapses' = lapses /\ faults' = faults /\ noticed' = noticed
      /\ sent' = [sent EXCEPT ![st] = @ + 1]
  BY DEF Notify
<1>3. /\ job'[w].pc = "record" /\ job'[w].late = job[w].late /\ job'[w].stage = st
      /\ \A v \in Workers \ {w} : job'[v] = job[v]
  BY DEF Notify, Steps, Running, TypeOK, RunsOK, Run
<1>4. Cardinality(Late') <= lapses'
  BY <1>2, <1>3, LateKept DEF TypeOK
<1>5. ASSUME NEW s \in Stages
      PROVE  /\ sent'[s] + Cardinality(Sending(s)') <= 1 + lapses' + faults'
             /\ s \notin noticed' => sent'[s] <= Cardinality(Recording(s)') + faults'
  <2>1. /\ sent[s] + Cardinality(Sending(s)) <= 1 + lapses + faults
        /\ s \notin noticed => sent[s] <= Cardinality(Recording(s)) + faults
    BY DEF Running, Numbered
  <2>2. CASE s = st
    <3>1. Sending(s)' = Sending(s) \ {w} /\ w \in Sending(s)
      BY <1>1, <1>3, <2>2 DEF Sending
    <3>2. Cardinality(Sending(s)') = Cardinality(Sending(s)) - 1
      BY <3>1, Counted, FS_RemoveElement
    <3>3. Recording(s)' = Recording(s) \cup {w} /\ w \notin Recording(s)
      BY <1>1, <1>3, <2>2 DEF Recording
    <3>4. Cardinality(Recording(s)') = Cardinality(Recording(s)) + 1
      BY <3>3, Counted, FS_AddElement
    <3>5. sent'[s] = sent[s] + 1
      BY <1>2, <2>2 DEF Running, TypeOK, CountsOK
    <3> QED
      BY <1>2, <2>1, <3>2, <3>4, <3>5, Counted, Numbers DEF Running, TypeOK
  <2>3. CASE s # st
    <3>1. Sending(s)' = Sending(s) /\ Recording(s)' = Recording(s)
      BY <1>1, <1>3, <2>3 DEF Sending, Recording
    <3>2. sent'[s] = sent[s]
      BY <1>2, <2>3 DEF Running, TypeOK, CountsOK
    <3> QED
      BY <1>2, <2>1, <3>1, <3>2
  <2> QED
    BY <2>2, <2>3
<1> QED
  BY <1>4, <1>5 DEF Numbered

(* The record is written. *)
LEMMA RecordNumbered ==
  ASSUME Running, TypeOK', NEW w \in Workers, Record(w)
  PROVE  Numbered'
<1> USE DEF Runs, bounds
<1> PICK st : st = job[w].stage
  OBVIOUS
<1>1. job[w].pc = "record"
  BY DEF Record
<1>2. /\ lapses' = lapses /\ faults' = faults /\ sent' = sent
      /\ noticed' = noticed \cup {st}
  BY DEF Record
<1>3. /\ job'[w].pc = "retain" /\ job'[w].late = job[w].late
      /\ \A v \in Workers \ {w} : job'[v] = job[v]
  BY DEF Record, Running, TypeOK, RunsOK, Run
<1>4. Cardinality(Late') <= lapses'
  BY <1>2, <1>3, LateKept DEF TypeOK
<1>5. ASSUME NEW s \in Stages
      PROVE  /\ sent'[s] + Cardinality(Sending(s)') <= 1 + lapses' + faults'
             /\ s \notin noticed' => sent'[s] <= Cardinality(Recording(s)') + faults'
  <2>1. Sending(s)' = Sending(s) /\ (s # st => Recording(s)' = Recording(s))
    BY <1>1, <1>3 DEF Sending, Recording
  <2> QED
    BY <1>2, <2>1 DEF Running, Numbered
<1> QED
  BY <1>4, <1>5 DEF Numbered

(* The tenant's rows are deleted, and with them the record. *)
LEMMA ScrubNumbered ==
  ASSUME Running, TypeOK', NEW w \in Workers, Scrub(w)
  PROVE  Numbered'
<1> USE DEF Runs, bounds
<1>1. lapses' = lapses /\ faults' = faults /\ \A s \in Stages : sent'[s] = 0
  BY DEF Scrub
<1>2. /\ job[w].pc = "scrub" /\ job'[w].pc = "release" /\ job'[w].late = job[w].late
      /\ \A v \in Workers \ {w} : job'[v] = job[v]
  BY DEF Scrub, Steps, Running, TypeOK, RunsOK, Run
<1>3. Cardinality(Late') <= lapses'
  BY <1>1, <1>2, LateKept DEF TypeOK
<1>4. ASSUME NEW s \in Stages
      PROVE  /\ sent'[s] + Cardinality(Sending(s)') <= 1 + lapses' + faults'
             /\ s \notin noticed' => sent'[s] <= Cardinality(Recording(s)') + faults'
  <2>1. Sending(s)' = Sending(s)
    BY <1>2 DEF Sending
  <2>2. sent[s] + Cardinality(Sending(s)) <= 1 + lapses + faults
    BY DEF Running, Numbered
  <2> QED
    BY <1>1, <2>1, <2>2, Counted, Numbers DEF Running, TypeOK
<1> QED
  BY <1>3, <1>4 DEF Numbered

(* A lapse makes one run late at most. *)
LEMMA LapseNumbered ==
  ASSUME Running, TypeOK', Lapse
  PROVE  Numbered'
<1> USE DEF Runs, bounds
<1> PICK w : w = lock.owner
  OBVIOUS
<1>1. faults' = faults /\ sent' = sent /\ noticed' = noticed
  BY DEF Lapse, notices
<1>2. CASE Runs(w, "idle")
  BY <1>1, <1>2, StillNumbered DEF Lapse, TypeOK
<1>3. CASE ~Runs(w, "idle")
  <2>1. lapses' = lapses + 1 /\ job' = [job EXCEPT ![w].late = TRUE]
    BY <1>3 DEF Lapse
  <2>2. /\ Late' \subseteq Late \cup {w}
        /\ \A s \in Stages : Sending(s)' = Sending(s) /\ Recording(s)' = Recording(s)
    BY <2>1 DEF Late, Sending, Recording, Running, TypeOK, RunsOK, Run
  <2>3. Cardinality(Late') <= lapses'
    <3>1. /\ IsFiniteSet(Late \cup {w})
          /\ \/ Cardinality(Late \cup {w}) = Cardinality(Late)
             \/ Cardinality(Late \cup {w}) = Cardinality(Late) + 1
      BY Counted, FS_AddElement
    <3>2. Cardinality(Late') <= Cardinality(Late \cup {w})
      BY <2>2, <3>1, FS_Subset
    <3>3. Cardinality(Late) <= lapses
      BY DEF Running, Numbered
    <3> QED
      BY <2>1, <3>1, <3>2, <3>3, Counted, Numbers DEF Running, TypeOK
  <2>4. ASSUME NEW s \in Stages
        PROVE  /\ sent'[s] + Cardinality(Sending(s)') <= 1 + lapses' + faults'
               /\ s \notin noticed' => sent'[s] <= Cardinality(Recording(s)') + faults'
    <3>1. /\ sent[s] + Cardinality(Sending(s)) <= 1 + lapses + faults
          /\ s \notin noticed => sent[s] <= Cardinality(Recording(s)) + faults
      BY DEF Running, Numbered
    <3> QED
      BY <1>1, <2>1, <2>2, <3>1, Counted, Numbers DEF Running, TypeOK
  <2> QED
    BY <2>3, <2>4 DEF Numbered
<1> QED
  BY <1>2, <1>3

(* The reminders keep to their number. *)
LEMMA RemindersNumbered ==
  ASSUME Running, [Next]_vars, TypeOK'
  PROVE  Numbered'
<1> USE DEF Runs, At, shop, notices, bounds
<1>1. ASSUME NEW w \in Workers,
             \/ Acquire(w) \/ Sweep(w) \/ Row(w) \/ Remind(w) \/ Retain(w)
             \/ Reread(w) \/ Release(w)
      PROVE  Numbered'
  <2>1. lapses' = lapses /\ faults' = faults /\ sent' = sent /\ noticed' = noticed
    BY <1>1 DEF Acquire, Sweep, Row, Remind, Retain, Reread, Release
  <2>2. /\ job[w].pc \notin {"notify", "record"}
        /\ \A v \in Workers \ {w} : job'[v] = job[v]
    BY <1>1 DEF Acquire, Sweep, Row, Remind, Retain, Reread, Release, Steps,
       Running, TypeOK, RunsOK
  <2>3. (job'[w].late => job[w].late) /\ job'[w].pc \notin {"notify", "record"}
    <3>1. CASE Acquire(w)
      <4> DEFINE r == [ Asleep EXCEPT !.pc = "sweep", !.at = now ]
      <4>1. r.pc = "sweep" /\ ~r.late
        <5>1. now \in 0 .. Horizon
          BY TenancyAssumption DEF Running, TypeOK, CountsOK
        <5> QED
          BY ONLY <5>1, Woken
      <4>2. job'[w] = r
        BY <3>1 DEF Acquire, Running, TypeOK, RunsOK
      <4> HIDE DEF r
      <4> QED
        BY <4>1, <4>2
    <3>2. CASE Sweep(w) \/ Row(w) \/ Remind(w) \/ Retain(w) \/ Reread(w)
      BY <3>2 DEF Sweep, Row, Remind, Retain, Reread, Steps, Running, TypeOK,
         RunsOK, Run
    <3>3. CASE Release(w)
      BY <3>3 DEF Release, Asleep, Running, TypeOK, RunsOK
    <3> QED
      BY <1>1, <3>1, <3>2, <3>3
  <2> QED
    BY <2>1, <2>2, <2>3, StillNumbered DEF TypeOK
<1>2. ASSUME NEW w \in Workers, Fails(w) \/ Crash(w)
      PROVE  Numbered'
  <2>1. /\ lapses' = lapses /\ faults' = faults + 1 /\ sent' = sent
        /\ noticed' = noticed /\ \A v \in Workers \ {w} : job'[v] = job[v]
    BY <1>2 DEF Fails, Crash, Running, TypeOK, RunsOK
  <2>2. (job'[w].late => job[w].late) /\ job'[w].pc \notin {"notify", "record"}
    <3>1. CASE Crash(w)
      BY <3>1 DEF Crash, Asleep, Running, TypeOK, RunsOK
    <3>2. CASE Fails(w)
      <4>1. After[job[w].pc] \in { "release", "remind", "retain" }
        BY <3>2, RunSteps DEF Fails
      <4> QED
        BY <3>2, <4>1 DEF Fails, Running, TypeOK, RunsOK, Run
    <3> QED
      BY <1>2, <3>1, <3>2
  <2> QED
    BY <2>1, <2>2, FaultNumbered DEF TypeOK
<1>3. CASE UNCHANGED << job, notices, lapses, faults >>
  BY <1>3, StillNumbered DEF TypeOK
<1>4. ASSUME NEW k \in Calls, Request(k)
      PROVE  UNCHANGED << job, notices, lapses, faults >>
  BY <1>4 DEF Request, Activate, ReadTenant, RestoreTenant, ReopenStore,
     RestoreFails, Cancel, FlagPeriodEnd, Quit, Operate, Suspend, Reactivate,
     Publish, PublishStore, Drop
<1>5. ASSUME Prompt \/ Declined \/ Tick \/ UNCHANGED vars
      PROVE  UNCHANGED << job, notices, lapses, faults >>
  BY <1>5 DEF Prompt, Declined, Tick, vars
<1> QED
  BY <1>1, <1>2, <1>3, <1>4, <1>5, CheckNumbered, NotifyNumbered, RecordNumbered,
     ScrubNumbered, LapseNumbered DEF Next, Job, RunStep

LEMMA RunningInit == Init => Running
<1> SUFFICES ASSUME Init PROVE Running
  OBVIOUS
<1> USE TenancyAssumption DEF Init, Runs, Unset
<1>1. RowsOK
  <2>1. sub \in Subscription /\ sub.status = "TRIALING"
    <3>1. 1 + Trial \in Dates /\ Unset \in Dates
      BY DEF Dates
    <3> QED
      BY <3>1 DEF Subscription, SubscriptionStatus
  <2>2. tenant \in [ status : TenantStatus, reason : Reason, due : Dates,
                     deleted : BOOLEAN ]
    BY DEF TenantStatus, SubscriptionStatus, Reason, Dates
  <2>3. /\ store \in StoreState /\ prompted \in BOOLEAN
        /\ {released, withheld} \subseteq BOOLEAN
    BY DEF StoreState
  <2> QED
    BY <2>1, <2>2, <2>3 DEF RowsOK
<1>2. RunsOK
  <2>1. Asleep \in Run /\ Asleep.row = NoRow
    BY RunSteps, NoRowTyped DEF Asleep, Run
  <2> QED
    BY <2>1 DEF RunsOK, Free
<1>3. RequestsOK
  BY DEF RequestsOK, Idle, CallPC, Reason
<1>4. CountsOK
  <2>1. /\ now \in 1 .. Horizon /\ noticed \subseteq Stages
        /\ sent \in [Stages -> 0 .. 1 + MaxLapses + MaxFaults]
    OBVIOUS
  <2>2. /\ 0 \in 0 .. MaxPayments /\ 0 \in 0 .. MaxFaults
        /\ 0 \in 0 .. MaxDrops /\ 0 \in 0 .. MaxLapses
    BY ONLY TenancyAssumption
  <2>3. stale \in BOOLEAN
    OBVIOUS
  <2> HIDE TenancyAssumption
  <2> QED
    BY <2>1, <2>2, <2>3 DEF CountsOK
<1>5. Dated
  BY DEF Dated, Sound, Asleep
<1>6. Leased
  BY DEF Leased, Asleep
<1>7. Numbered
  <2>1. Late = {} /\ \A s \in Stages : Sending(s) = {} /\ Recording(s) = {}
    BY DEF Late, Sending, Recording, Asleep
  <2>2. lapses = 0 /\ faults = 0 /\ \A s \in Stages : sent[s] = 0
    OBVIOUS
  <2>3. Cardinality({}) = 0
    BY FS_EmptySet
  <2> HIDE DEF Init
  <2> QED
    BY <2>1, <2>2, <2>3 DEF Numbered
<1> QED
  BY <1>1, <1>2, <1>3, <1>4, <1>5, <1>6, <1>7 DEF Running, TypeOK

LEMMA RunningHolds == Spec => []Running
<1>1. Running /\ [Next]_vars => Running'
  BY Typed, RemindersNumbered DEF Running
<1> QED
  BY RunningInit, <1>1, PTL DEF Spec

(* The state has its type, whatever runs, requests and failures there are;
   with it the date by which the sweep will select a subscription that gives
   access, and a lease held by nobody only when it is free. *)
THEOREM TenancyTyped == Spec => []TypeOK
BY RunningHolds, PTL DEF Running

(* Of any number of runs at most one has a lease that has not lapsed. *)
THEOREM LeasesExclude == Spec => []OneLiveLease
<1>1. Running => OneLiveLease
  BY DEF Running, Leased, OneLiveLease
<1> QED
  BY RunningHolds, <1>1, PTL

(* The messages of a stage are sent again only by runs that overlap or after a
   run that stopped or failed before its record, whatever runs there are. *)
THEOREM RemindersAreOnce == Spec => []NoticeOnce
<1>1. Running => NoticeOnce
  <2> SUFFICES ASSUME Running, NEW s \in Stages PROVE sent[s] <= 1 + lapses + faults
    BY DEF NoticeOnce
  <2>1. Cardinality(Sending(s)) \in Nat
    BY TenancyAssumption, FS_Subset, FS_CardinalityType DEF Sending
  <2>2. sent[s] \in Nat /\ lapses \in Nat /\ faults \in Nat
    BY TenancyAssumption DEF Running, TypeOK, CountsOK
  <2> QED
    BY <2>1, <2>2 DEF Running, Numbered
<1> QED
  BY RunningHolds, <1>1, PTL

-----------------------------------------------------------------------------
(* The platform's suspension is on the tenant, or the tenant and its
   subscription are cancelled; a payment in progress has not read it. *)
PlatformHeld ==
  /\ tenant.reason = "PLATFORM" /\ ~tenant.deleted
     => \/ tenant.status = "SUSPENDED"
        \/ tenant.status = "CANCELLED" /\ sub.status = "CANCELLED"
  /\ \A k \in Calls : At(k, "access") => call[k].reason # "PLATFORM"

(* What is suspended has a reason; a closed store of a subscription that is
   not cancelled too, or it is being reopened or was withheld. *)
Reopening == \E k \in Calls : At(k, "reopen")

ReasonKept == tenant.status = "SUSPENDED" => tenant.reason # "none"

ClosureKept ==
  drops = 0 /\ store = "SUSPENDED" /\ sub.status # "CANCELLED"
  => tenant.reason # "none" \/ withheld \/ Reopening

(* A paid period is served, or the restoration goes on. *)
Restored == \E k \in Calls : At(k, "restore") \/ At(k, "access")

Served ==
  sub.status = "ACTIVE" /\ now < sub.periodEnd /\ drops = 0
  => \/ tenant.reason = "PLATFORM" \/ tenant.deleted
     \/ tenant.status = "ACTIVE" /\ (store # "SUSPENDED" \/ withheld \/ Reopening)
     \/ Restored

(* The inductive invariant of the access to the platform: it holds as long
   as no write was over what it had not read. *)
Service == ~stale => PlatformHeld /\ ReasonKept /\ ClosureKept /\ Served

(* Steps that leave the rows and what the payments in progress have read *)
LEMMA ServiceKept ==
  ASSUME Running, Service, UNCHANGED << sub, tenant, store, withheld, drops, stale >>,
         now' >= now, now' \in Nat,
         \A k \in Calls :
           \/ call'[k] = call[k]
           \/ call[k].pc \notin {"restore", "access", "reopen"} /\ call'[k].pc # "access"
  PROVE  Service'
<1> SUFFICES ASSUME ~stale' PROVE (PlatformHeld /\ ReasonKept /\ ClosureKept /\ Served)'
  BY DEF Service
<1>1. PlatformHeld /\ ReasonKept /\ ClosureKept /\ Served
  BY DEF Service
<1>2. (Reopening => Reopening') /\ (Restored => Restored')
  BY DEF Reopening, Restored, At
<1>3. PlatformHeld' /\ ReasonKept'
  BY <1>1 DEF PlatformHeld, ReasonKept, At
<1>4. ClosureKept'
  BY <1>1, <1>2 DEF ClosureKept
<1>5. Served'
  <2>1. now \in Nat /\ sub.periodEnd \in Nat
    BY TenancyAssumption
       DEF Running, TypeOK, RowsOK, CountsOK, Subscription, Dates, Unset
  <2>2. now' < sub.periodEnd => now < sub.periodEnd
    BY <2>1
  <2> QED
    BY <1>1, <1>2, <2>2 DEF Served
<1> QED
  BY <1>3, <1>4, <1>5

(* A sweep decides on rows that have not changed, or its write counts as
   stale: it gives its own reason only to what was not suspended. *)
LEMMA RowServed ==
  ASSUME Running, Service, NEW w \in Workers, Row(w)
  PROVE  /\ Service'
         /\ ~stale' /\ tenant.reason = "PLATFORM" /\ ~tenant.deleted
            => tenant'.reason = "PLATFORM" /\ ~tenant'.deleted
<1> SUFFICES ASSUME ~stale'
    PROVE  /\ (PlatformHeld /\ ReasonKept /\ ClosureKept /\ Served)'
           /\ tenant.reason = "PLATFORM" /\ ~tenant.deleted
              => tenant'.reason = "PLATFORM" /\ ~tenant'.deleted
  BY DEF Service
<1> DEFINE d == Decision(job[w].row.sub, job[w].at)
<1>1. /\ d.status \in {"CANCELLED", "PAST_DUE", "GRACE_PERIOD", "SUSPENDED"}
      /\ job[w].row.sub.status = "CANCELLED" => d.status = "CANCELLED"
  BY DecisionSound, TenancyAssumption
     DEF Row, Running, TypeOK, RunsOK, Run, Selected, Dated, Runs
<1> HIDE DEF d
<1>2. ~stale
  BY DEF Row, Counts
<1>3. PlatformHeld /\ ReasonKept /\ ClosureKept /\ Served
  BY <1>2 DEF Service
<1>4. call' = call /\ drops' = drops /\ now' = now
  BY DEF Row
<1>5. (Reopening' <=> Reopening) /\ (Restored' <=> Restored)
  BY <1>4 DEF Reopening, Restored, At
<1>6. CASE UNCHANGED << sub, tenant, store, withheld, stale >>
  BY <1>3, <1>4, <1>5, <1>6 DEF PlatformHeld, ReasonKept, ClosureKept, Served, At
<1>7. CASE ~UNCHANGED << sub, tenant, store, withheld, stale >>
  <2>1. /\ sub = job[w].row.sub /\ tenant.status = job[w].row.was
        /\ sub'.status = d.status
        /\ tenant'.status = IF tenant.status = "SUSPENDED" /\ d.status # "SUSPENDED"
                            THEN tenant.status ELSE d.status
        /\ tenant'.reason = IF d.status = "SUSPENDED" /\ tenant.status # "SUSPENDED"
                            THEN "BILLING" ELSE tenant.reason
        /\ tenant'.deleted = tenant.deleted
        /\ d.status \notin {"SUSPENDED", "CANCELLED"}
           => store' = store /\ withheld' = withheld
    BY <1>2, <1>7 DEF Row, Counts, Running, TypeOK, RowsOK, Subscription, d
  <2>2. PlatformHeld'
    BY <1>1, <1>3, <1>4, <2>1 DEF PlatformHeld, At
  <2>3. ReasonKept'
    BY <1>1, <1>3, <2>1 DEF ReasonKept
  <2>4. ClosureKept'
    BY <1>1, <1>3, <1>4, <1>5, <2>1 DEF ClosureKept, ReasonKept
  <2>5. Served'
    BY <1>1, <2>1 DEF Served
  <2>6. tenant.reason = "PLATFORM" /\ ~tenant.deleted
        => tenant'.reason = "PLATFORM" /\ ~tenant'.deleted
    BY <1>1, <1>3, <2>1 DEF PlatformHeld
  <2> QED
    BY <2>2, <2>3, <2>4, <2>5, <2>6
<1> QED
  BY <1>6, <1>7

LEMMA ServiceStep ==
  ASSUME Running, Service, [Next]_vars
  PROVE  Service'
<1> USE DEF At, shop, notices, bounds
<1> DEFINE Good == PlatformHeld /\ ReasonKept /\ ClosureKept /\ Served
<1>1. Service' <=> (~stale' => Good')
  BY DEF Service
<1>2. ~stale => Good
  BY DEF Service
<1>3. tenant.reason \in Reason /\ drops \in Nat
  BY TenancyAssumption DEF Running, TypeOK, RowsOK, CountsOK
<1>4. ASSUME NEW w \in Workers, Job(w)
      PROVE  Service'
  <2>1. CASE Row(w)
    BY <2>1, RowServed
  <2>2. CASE Scrub(w)
    <3>1. /\ UNCHANGED << sub, call, drops, stale >> /\ store' = "GONE"
          /\ tenant'.status = "DELETED" /\ tenant'.deleted
          /\ tenant'.reason = tenant.reason
      BY <2>2 DEF Scrub, Running, TypeOK, RowsOK
    <3> QED
      BY <1>1, <1>2, <3>1 DEF PlatformHeld, ReasonKept, ClosureKept, Served
  <2>3. CASE Acquire(w) \/ Sweep(w) \/ Remind(w) \/ Check(w) \/ Notify(w) \/ Record(w) \/ Retain(w)
             \/ Reread(w) \/ Release(w) \/ Fails(w) \/ Crash(w)
    <3>1. UNCHANGED << sub, tenant, store, withheld, drops, stale, call, now >>
      BY <2>3 DEF Acquire, Sweep, Remind, Check, Notify, Record, Retain, Reread,
         Release,          Fails, Crash
    <3>2. now \in Nat
      BY TenancyAssumption DEF Running, TypeOK, CountsOK
    <3> QED
      BY <3>1, <3>2, ServiceKept
  <2> QED
    BY <1>4, <2>1, <2>2, <2>3 DEF Job, RunStep
<1>5. ASSUME Lapse \/ Prompt \/ Declined \/ Tick \/ UNCHANGED vars
      PROVE  Service'
  <2>1. UNCHANGED << sub, tenant, store, withheld, drops, stale, call >>
    BY <1>5 DEF Lapse, Prompt, Declined, Tick, vars
  <2>2. now' \in {now, now + 1} /\ now \in Nat
    BY <1>5, TenancyAssumption
       DEF Lapse, Prompt, Declined, Tick, vars, Running, TypeOK, CountsOK
  <2> QED
    BY <2>1, <2>2, ServiceKept
<1>6. ASSUME NEW k \in Calls, Request(k)
      PROVE  Service'
  <2>a. \A l \in Calls \ {k} : call'[l] = call[l]
    BY <1>6 DEF Request, Activate, ReadTenant, Reads, RestoreTenant, Reopens,
       ReopenStore, RestoreFails, Cancel, FlagPeriodEnd, Quit, Operate, Suspend,
       Reactivate, Publish, PublishStore, Drop, Goes, Ends, Running, TypeOK, RequestsOK
  <2>b. now' = now /\ now \in Nat
    <3>1. now' = now
      BY <1>6 DEF Request, Activate, ReadTenant, RestoreTenant, ReopenStore,
         RestoreFails, Cancel, FlagPeriodEnd, Quit, Operate, Suspend, Reactivate,
         Publish, PublishStore, Drop
    <3>2. now \in Nat
      BY TenancyAssumption DEF Running, TypeOK, CountsOK
    <3> QED
      BY <3>1, <3>2
  <2>c. k \in DOMAIN call
    BY DEF Running, TypeOK, RequestsOK
  <2>1. CASE Activate(k)
    <3>1. /\ call[k].pc = "idle" /\ call'[k].pc = "restore"
          /\ UNCHANGED << tenant, store, withheld, drops >>
          /\ sub'.status = "ACTIVE" /\ (~stale' => ~stale /\ sub.status \in Billable)
      BY <2>1, <2>c DEF Activate, Counts, Goes, Running, TypeOK, RowsOK, RequestsOK,
         Subscription
    <3>2. ~stale' => PlatformHeld' /\ ReasonKept'
      BY <1>2, <2>a, <3>1 DEF PlatformHeld, ReasonKept, Billable, Paid
    <3>3. ~stale' => ClosureKept'
      BY <1>2, <2>a, <3>1 DEF ClosureKept, Reopening, Billable, Paid
    <3>4. Served'
      BY <3>1 DEF Served, Restored
    <3> QED
      BY <1>1, <3>2, <3>3, <3>4
  <2>2. CASE ReadTenant(k)
    <3>1. /\ UNCHANGED << sub, tenant, store, withheld, drops, stale >>
          /\ call[k].pc = "restore"
          /\ IF tenant.reason = "PLATFORM" THEN call'[k].pc = "idle"
             ELSE call'[k].pc = "access" /\ call'[k].reason = tenant.reason
      BY <2>2, <2>c, ReadTyped DEF ReadTenant, Ends, Idle, Running, TypeOK
    <3>2. ~stale' => PlatformHeld' /\ ReasonKept'
      BY <1>2, <2>a, <3>1 DEF PlatformHeld, ReasonKept
    <3>3. ~stale' => ClosureKept'
      BY <1>2, <2>a, <3>1 DEF ClosureKept, Reopening
    <3>4. ~stale' => Served'
      BY <1>2, <2>a, <2>b, <3>1 DEF Served, Restored, Reopening
    <3> QED
      BY <1>1, <3>2, <3>3, <3>4
  <2>3. CASE RestoreTenant(k)
    <3>1. /\ UNCHANGED << sub, store, drops >> /\ call[k].pc = "access"
          /\ tenant'.status = "ACTIVE" /\ tenant'.deleted = tenant.deleted
          /\ tenant'.reason = IF call[k].reason = "BILLING" THEN "none" ELSE tenant.reason
          /\ ~stale' => ~stale /\ ~Outdated(k)
          /\ IF Closed(k) THEN call'[k].pc = "reopen" \/ withheld'
                          ELSE withheld' = withheld
          /\ call'[k].pc # "access"
      <4>1. /\ UNCHANGED << sub, store, drops >> /\ call[k].pc = "access"
            /\ ~stale' => ~stale /\ ~Outdated(k)
        BY <2>3 DEF RestoreTenant, Counts
      <4>2. /\ tenant'.status = "ACTIVE" /\ tenant'.deleted = tenant.deleted
            /\ tenant'.reason = IF call[k].reason = "BILLING" THEN "none" ELSE tenant.reason
        BY <2>3 DEF RestoreTenant, Running, TypeOK, RowsOK
      <4>3. /\ call'[k].pc = IF Closed(k) /\ call[k].opens THEN "reopen" ELSE "idle"
            /\ withheld' = IF Closed(k) THEN ~call[k].opens ELSE withheld
        BY <2>3, <2>c DEF RestoreTenant, Reopens, Withholds, Goes, Ends, Idle, Running,
           TypeOK, RequestsOK
      <4> QED
        BY <4>1, <4>2, <4>3
    <3>2. ~stale' => PlatformHeld' /\ ReasonKept'
      BY <1>2, <2>a, <3>1 DEF PlatformHeld, ReasonKept, Outdated
    <3>3. ~stale' => ClosureKept'
      BY <1>2, <2>a, <3>1 DEF ClosureKept, Closed, Reopening, Outdated
    <3>4. ~stale' => Served'
      BY <1>2, <1>3, <2>a, <2>b, <3>1
         DEF Served, ClosureKept, Closed, PlatformHeld, Reopening, Outdated, Reason
    <3> QED
      BY <1>1, <3>2, <3>3, <3>4
  <2>4. CASE ReopenStore(k)
    <3>1. /\ UNCHANGED << sub, tenant, drops, stale >>
          /\ store' \in {"GONE", "PUBLISHED"}
          /\ call[k].pc = "reopen" /\ call'[k].pc = "idle"
      BY <2>4, <2>c DEF ReopenStore, Ends, Idle
    <3>2. ~stale' => PlatformHeld' /\ ReasonKept' /\ ClosureKept'
      BY <1>2, <2>a, <3>1 DEF PlatformHeld, ReasonKept, ClosureKept
    <3>3. ~stale' => Served'
      BY <1>2, <2>a, <2>b, <3>1 DEF Served, Restored, Reopening
    <3> QED
      BY <1>1, <3>2, <3>3
  <2>5. CASE RestoreFails(k) \/ Drop(k)
    <3>1. /\ UNCHANGED << sub, tenant, store, withheld, stale >> /\ drops' = drops + 1
          /\ call'[k].pc # "access"
      BY <2>5, <2>c DEF RestoreFails, Drop, Reopens, Goes, Ends, Idle, Running,
         TypeOK, RequestsOK
    <3>2. drops' # 0
      BY <1>3, <3>1
    <3>3. ~stale' => PlatformHeld' /\ ReasonKept'
      BY <1>2, <2>a, <3>1 DEF PlatformHeld, ReasonKept
    <3>4. ClosureKept' /\ Served'
      BY <3>2 DEF ClosureKept, Served
    <3> QED
      BY <1>1, <3>3, <3>4
  <2>6. CASE Cancel(k) \/ Operate(k) \/ Publish(k)
    <3>1. /\ UNCHANGED << sub, tenant, store, withheld, drops, stale >> /\ call[k].pc = "idle"
          /\ call'[k].pc # "access"
      BY <2>6, <2>c DEF Cancel, Operate, Publish, Goes, Idle, Running, TypeOK,
         RequestsOK
    <3> QED
      BY <2>a, <2>b, <3>1, ServiceKept
  <2>7. CASE FlagPeriodEnd(k)
    <3>1. /\ UNCHANGED << tenant, store, withheld, drops, stale >>
          /\ call[k].pc = "flag"
          /\ sub'.status = sub.status /\ sub'.periodEnd = sub.periodEnd
          /\ call'[k].pc = "idle"
      BY <2>7, <2>c DEF FlagPeriodEnd, Ends, Idle, Running, TypeOK, RowsOK, Subscription
    <3>2. ~stale' => PlatformHeld' /\ ReasonKept'
      BY <1>2, <2>a, <3>1 DEF PlatformHeld, ReasonKept
    <3>3. ~stale' => ClosureKept' /\ Served'
      BY <1>2, <2>a, <2>b, <3>1 DEF ClosureKept, Served, Restored, Reopening
    <3> QED
      BY <1>1, <3>2, <3>3
  <2>8. CASE Quit(k)
    <3>1. /\ UNCHANGED << drops, stale >> /\ call[k].pc = "quit"
          /\ sub'.status = "CANCELLED" /\ tenant'.status = "CANCELLED"
          /\ call'[k].pc = "idle"
      BY <2>8, <2>c DEF Quit, Ends, Idle, Running, TypeOK, RowsOK, Subscription
    <3> QED
      BY <1>1, <1>2, <2>a, <3>1 DEF PlatformHeld, ReasonKept, ClosureKept, Served
  <2>9. CASE Suspend(k)
    <3>1. /\ UNCHANGED << sub, drops, stale >> /\ call[k].pc = "suspend"
          /\ call'[k].pc = "idle"
          /\ \/ UNCHANGED << tenant, store, withheld >>
             \/ tenant'.status = "SUSPENDED" /\ tenant'.reason = "PLATFORM"
      BY <2>9, <2>c DEF Suspend, Ends, Idle, Running, TypeOK, RowsOK
    <3>2. ~stale' => PlatformHeld' /\ ReasonKept'
      BY <1>2, <2>a, <3>1 DEF PlatformHeld, ReasonKept
    <3>3. ~stale' => ClosureKept' /\ Served'
      BY <1>2, <2>a, <2>b, <3>1 DEF ClosureKept, Served, Restored, Reopening
    <3> QED
      BY <1>1, <3>2, <3>3
  <2>10. CASE Reactivate(k)
    <3>1. /\ UNCHANGED << sub, drops >> /\ call[k].pc = "reactivate"
          /\ call'[k].pc = "idle"
          /\ \/ UNCHANGED << tenant, store, withheld, stale >>
             \/ /\ tenant'.status = "ACTIVE" /\ tenant'.reason = "none"
                /\ ~stale' => ~stale /\ (store' # "SUSPENDED" \/ withheld')
      BY <2>10, <2>c DEF Reactivate, Withholds, Counts, Ends, Idle, Running, TypeOK,
         RowsOK
    <3>2. ~stale' => PlatformHeld' /\ ReasonKept'
      BY <1>2, <2>a, <3>1 DEF PlatformHeld, ReasonKept
    <3>3. ~stale' => ClosureKept' /\ Served'
      BY <1>2, <2>a, <2>b, <3>1 DEF ClosureKept, Served, Restored, Reopening
    <3> QED
      BY <1>1, <3>2, <3>3
  <2>11. CASE PublishStore(k)
    <3>1. /\ UNCHANGED << sub, tenant, drops, stale >> /\ call[k].pc = "publish"
          /\ call'[k].pc = "idle"
          /\ store' = "PUBLISHED" \/ UNCHANGED << store, withheld >>
      BY <2>11, <2>c DEF PublishStore, Ends, Idle
    <3>2. ~stale' => PlatformHeld' /\ ReasonKept'
      BY <1>2, <2>a, <3>1 DEF PlatformHeld, ReasonKept
    <3>3. ~stale' => ClosureKept' /\ Served'
      BY <1>2, <2>a, <2>b, <3>1 DEF ClosureKept, Served, Restored, Reopening
    <3> QED
      BY <1>1, <3>2, <3>3
  <2> QED
    BY <1>6, <2>1, <2>2, <2>3, <2>4, <2>5, <2>6, <2>7, <2>8, <2>9, <2>10, <2>11
       DEF Request
<1> QED
  BY <1>4, <1>5, <1>6 DEF Next

LEMMA ServiceHolds == Spec => [](Running /\ Service)
<1>1. Init => Service
  BY DEF Init, Service, PlatformHeld, ReasonKept, ClosureKept, Served, At, Idle
<1>2. Running /\ Service /\ [Next]_vars => Service'
  BY ServiceStep
<1> QED
  BY RunningHolds, <1>1, <1>2, PTL DEF Spec

(* A merchant whose payment bought a period that has not ended is served, as
   PaidIsServed says: the restorations of any number of payments, the sweeps,
   the operators and the merchant's own requests notwithstanding. *)
THEOREM PaymentIsServed == Spec => []PaidIsServed
<1>1. Service => PaidIsServed
  BY DEF Service, Served, PaidIsServed, Restoring, Reopening, Restored, At
<1> QED
  BY ServiceHolds, <1>1, PTL

LEMMA StaleStays == [Next]_vars => (stale => stale')
<1> SUFFICES ASSUME [Next]_vars, stale PROVE stale'
  OBVIOUS
<1> USE DEF bounds, notices
<1>1. ASSUME NEW w \in Workers, Job(w) PROVE stale'
  BY <1>1 DEF Job, RunStep, Acquire, Sweep, Row, Counts, Remind, Check, Notify, Record,
     Retain, Reread, Scrub, Release, Fails, Crash
<1>2. ASSUME NEW k \in Calls, Request(k) PROVE stale'
  BY <1>2 DEF Request, Activate, ReadTenant, RestoreTenant, ReopenStore,
     RestoreFails, Cancel, FlagPeriodEnd, Quit, Operate, Suspend, Reactivate,
     Publish, PublishStore, Drop, Counts
<1> QED
  BY <1>1, <1>2 DEF Next, Lapse, Prompt, Declined, Tick, vars

(* Only an operator lifts the platform's suspension. *)
THEOREM PlatformIsObeyed == Spec => PlatformStands
<1> DEFINE Stands ==
      (tenant.reason = "PLATFORM" /\ ~tenant.deleted /\ ~stale')
      => \/ \E k \in Calls : At(k, "reactivate") /\ At(k, "idle")'
         \/ tenant.reason' = "PLATFORM" /\ ~Public'
<1>1. ASSUME Running, Service, [Next]_vars, Service' PROVE [Stands]_vars
  <2> SUFFICES ASSUME tenant.reason = "PLATFORM", ~tenant.deleted, ~stale', Next,
                      ~ \E k \in Calls : At(k, "reactivate") /\ At(k, "idle")'
               PROVE  tenant.reason' = "PLATFORM" /\ ~Public'
    BY <1>1
  <2> USE DEF shop, notices, bounds
  <2>1. PlatformHeld /\ PlatformHeld'
    BY <1>1, StaleStays DEF Service
  <2>2. CASE tenant'.reason = "PLATFORM" /\ ~tenant'.deleted
    BY <2>1, <2>2 DEF PlatformHeld, Public, PublicStatus
  <2>3. ASSUME NEW w \in Workers, Job(w)
        PROVE  tenant.reason' = "PLATFORM" /\ ~Public'
    <3>1. CASE Row(w)
      BY <1>1, <2>2, <3>1, RowServed
    <3>2. CASE Scrub(w)
      BY <1>1, <3>2 DEF Scrub, Public, PublicStatus, Running, TypeOK, RowsOK
    <3>3. CASE ~Row(w) /\ ~Scrub(w)
      BY <2>2, <2>3, <3>3 DEF Job, RunStep, Acquire, Sweep, Remind, Check, Notify, Record,
         Retain, Reread, Release, Fails, Crash
    <3> QED
      BY <3>1, <3>2, <3>3
  <2>4. ASSUME NEW k \in Calls, Request(k)
        PROVE  tenant.reason' = "PLATFORM" /\ ~Public'
    <3>1. CASE UNCHANGED tenant
      BY <2>2, <3>1
    <3>2. CASE RestoreTenant(k)
      BY <2>1, <3>2 DEF RestoreTenant, Counts, Outdated, PlatformHeld
    <3>3. CASE Quit(k) \/ Suspend(k)
      BY <1>1, <2>2, <3>3 DEF Quit, Suspend, Running, TypeOK, RowsOK
    <3>4. CASE Reactivate(k)
      BY <1>1, <3>4 DEF Reactivate, Ends, Idle, At, Running, TypeOK, RequestsOK
    <3> QED
      BY <2>4, <3>1, <3>2, <3>3, <3>4 DEF Request, Activate, ReadTenant, ReopenStore,
         RestoreFails, Cancel, FlagPeriodEnd, Operate, Publish, PublishStore, Drop
  <2>5. CASE Lapse \/ Prompt \/ Declined \/ Tick
    BY <2>2, <2>5 DEF Lapse, Prompt, Declined, Tick
  <2> QED
    BY <2>3, <2>4, <2>5 DEF Next
<1> QED
  BY ServiceHolds, <1>1, PTL DEF Spec, PlatformStands

-----------------------------------------------------------------------------
(* Deletion.  A run is about to delete what was due when it read the tenant
   again: until then only a cancellation moves the date, or a run that overlaps
   with it. *)
Dooming ==
  \/ lapses > 0 \/ stale
  \/ sub.status = "CANCELLED" \/ Past(tenant.due, now)

Doomed ==
  /\ \A w \in Workers : job[w].at <= now
  /\ \A w \in Workers : Runs(w, "scrub") => Dooming

(* Without a lapse there is one run at a time. *)
LEMMA LoneRun ==
  ASSUME Running, lapses = 0, NEW v \in Workers, NEW w \in Workers,
         ~Runs(v, "idle"), ~Runs(w, "idle")
  PROVE  v = w
<1>1. Late = {}
  <2>1. IsFiniteSet(Late)
    BY TenancyAssumption, FS_Subset DEF Late
  <2> QED BY <2>1, FS_CardinalityType, FS_EmptySet DEF Running, Numbered
<1>2. ~job[v].late /\ ~job[w].late
  <2>1. job[v].late \in BOOLEAN /\ job[w].late \in BOOLEAN
    BY DEF Running, TypeOK, RunsOK, Run
  <2> QED BY <1>1, <2>1 DEF Late
<1> QED BY <1>2 DEF Running, Leased

(* A step that leaves the two rows' dates and statuses, and makes no run delete,
   changes nothing about it. *)
LEMMA DoomedKept ==
  ASSUME Running, Doomed, TypeOK', lapses' >= lapses, stale => stale',
         sub'.status = sub.status \/ stale', tenant'.due = tenant.due, now' >= now,
         \A w \in Workers : /\ job'[w].at = job[w].at \/ job'[w].at <= now
                            /\ job'[w].pc = "scrub" => job[w].pc = "scrub"
  PROVE  Doomed'
<1>1. /\ now \in Nat /\ lapses \in Nat /\ tenant.due \in Nat
      /\ now' \in Nat /\ lapses' \in Nat
      /\ \A w \in Workers : job[w].at \in Nat /\ job'[w].at \in Nat
  BY TenancyAssumption DEF Running, TypeOK, RunsOK, RowsOK, CountsOK, Run, Dates, Unset
<1>2. ASSUME NEW w \in Workers  PROVE  job'[w].at <= now'
  <2>1. job[w].at <= now
    BY DEF Doomed
  <2> QED BY <1>1, <2>1
<1>3. ASSUME NEW w \in Workers, Runs(w, "scrub")'  PROVE  Dooming'
  <2>1. Dooming
    BY <1>3 DEF Doomed, Runs
  <2> QED BY <1>1, <2>1 DEF Dooming, Past
<1> QED BY <1>2, <1>3 DEF Doomed

(* A run decides to delete on a date it has just read. *)
LEMMA DoomedStep ==
  ASSUME Running, Doomed, [Next]_vars, TypeOK'
  PROVE  Doomed'
<1> USE DEF At, Runs, notices, bounds
<1>1. /\ now \in Nat /\ lapses \in Nat /\ now' \in Nat /\ lapses' \in Nat
      /\ tenant.due \in Nat
      /\ \A w \in Workers : job[w] \in Run /\ job[w].at \in Nat
  BY TenancyAssumption DEF Running, TypeOK, RunsOK, RowsOK, CountsOK, Run, Dates, Unset
<1>2. job = [ w \in Workers |-> job[w] ]
  BY DEF Running, TypeOK, RunsOK
<1>3. ASSUME NEW w \in Workers, Job(w)  PROVE  Doomed'
  <2>1. CASE Row(w)
    <3>1. /\ now' = now /\ lapses' = lapses
          /\ job' = [job EXCEPT ![w].pc = "remind", ![w].row = NoRow]
      BY <2>1 DEF Row
    <3>2. \A v \in Workers : /\ job'[v].at = job[v].at
                             /\ job'[v].pc = "scrub" => v # w /\ job[v].pc = "scrub"
      BY <1>1, <1>2, <3>1 DEF Run
    <3>3. ASSUME NEW v \in Workers, Runs(v, "scrub")'  PROVE  Dooming'
      <4>1. v # w /\ ~Runs(v, "idle") /\ ~Runs(w, "idle")
        BY <2>1, <3>2, <3>3 DEF Row
      <4>2. lapses # 0
        BY <4>1, LoneRun
      <4> QED BY <1>1, <3>1, <4>2 DEF Dooming
    <3> QED BY <3>1, <3>2, <3>3 DEF Doomed
  <2>2. CASE Reread(w)
    <3>1. /\ now' = now /\ tenant' = tenant
          /\ job' = [job EXCEPT ![w].pc = IF DueAt(job[w].at) THEN "scrub" ELSE "release"]
          /\ sub' = sub /\ lapses' = lapses /\ stale' = stale
      BY <2>2 DEF Reread, Steps
    <3>2. \A v \in Workers :
            /\ job'[v].at = job[v].at
            /\ job'[v].pc = "scrub" => job[v].pc = "scrub" \/ (v = w /\ DueAt(job[w].at))
      BY <1>1, <1>2, <3>1 DEF Run
    <3>3. ASSUME NEW v \in Workers, Runs(v, "scrub")'  PROVE  Dooming'
      <4>1. Dooming \/ Past(tenant.due, job[w].at)
        BY <3>2, <3>3 DEF Doomed, DueAt
      <4>2. job[w].at <= now
        BY DEF Doomed
      <4> QED BY <1>1, <3>1, <4>1, <4>2 DEF Dooming, Past
    <3> QED BY <3>1, <3>2, <3>3 DEF Doomed
  <2>3. CASE ~Row(w) /\ ~Reread(w)
    <3>1. /\ now' = now /\ lapses' = lapses /\ stale' = stale /\ sub' = sub
          /\ tenant'.due = tenant.due
      BY <1>3, <2>3 DEF Job, RunStep, Acquire, Sweep, Remind, Check, Notify, Record,
         Retain, Scrub, Release, Fails, Crash, Running, TypeOK, RowsOK
    <3>2. \A v \in Workers : v # w => job'[v] = job[v]
      BY <1>2, <1>3, <2>3 DEF Job, RunStep, Acquire, Sweep, Remind, Check, Notify, Record,
         Retain, Scrub, Release, Fails, Crash, Steps
    <3>3. /\ job'[w].at = job[w].at \/ job'[w].at <= now
          /\ job'[w].pc # "scrub"
      <4>1. CASE Fails(w)
        BY <1>1, <1>2, <4>1, RunSteps DEF Fails, Run
      <4>2. CASE Acquire(w)
        <5>1. job'[w] = [ Asleep EXCEPT !.pc = "sweep", !.at = now ]
          BY <1>2, <4>2 DEF Acquire
        <5> QED BY <1>1, <5>1 DEF Asleep
      <4>3. CASE Release(w) \/ Crash(w)
        <5>1. job'[w] = Asleep
          BY <1>2, <4>3 DEF Release, Crash
        <5> QED BY <1>1, <5>1 DEF Asleep, Unset
      <4>4. CASE Sweep(w) \/ Remind(w)
        <5> PICK row : row = [ sub |-> sub, was |-> tenant.status, shop |-> store # "GONE" ]
          OBVIOUS
        <5>1. \/ job' = [job EXCEPT ![w].pc = "row", ![w].row = row]
              \/ job' = [job EXCEPT ![w].pc = "remind"]
              \/ job' = [job EXCEPT ![w].pc = "retain"]
              \/ \E s \in Stages : job' = [job EXCEPT ![w].pc = "check", ![w].stage = s]
          BY <4>4 DEF Sweep, Remind, Steps, Reminded
        <5>2. CASE job' = [job EXCEPT ![w].pc = "row", ![w].row = row]
          BY <1>1, <1>2, <5>2 DEF Run
        <5>3. CASE \/ job' = [job EXCEPT ![w].pc = "remind"]
                   \/ job' = [job EXCEPT ![w].pc = "retain"]
          BY <1>1, <1>2, <5>3 DEF Run
        <5>4. ASSUME NEW s \in Stages, job' = [job EXCEPT ![w].pc = "check", ![w].stage = s]
              PROVE  job'[w].at = job[w].at /\ job'[w].pc = "check"
          BY <1>1, <1>2, <5>4 DEF Run
        <5> QED BY <5>1, <5>2, <5>3, <5>4
      <4>5. CASE Check(w) \/ Notify(w) \/ Record(w) \/ Retain(w) \/ Scrub(w)
        BY <1>1, <1>2, <4>5 DEF Check, Notify, Record, Retain, Scrub, Steps, Run
      <4> QED BY <1>3, <2>3, <4>1, <4>2, <4>3, <4>4, <4>5 DEF Job, RunStep
    <3> QED BY <1>1, <3>1, <3>2, <3>3, DoomedKept
  <2> QED BY <2>1, <2>2, <2>3
<1>4. ASSUME NEW k \in Calls, Request(k)  PROVE  Doomed'
  <2>1. now' = now /\ lapses' = lapses /\ job' = job
    BY <1>4 DEF Request, Activate, ReadTenant, RestoreTenant, ReopenStore,
       RestoreFails, Cancel, FlagPeriodEnd, Quit, Operate, Suspend, Reactivate,
       Publish, PublishStore, Drop, Counts
  <2>2. CASE Quit(k)
    <3>1. sub'.status = "CANCELLED"
      BY <2>2 DEF Quit, Running, TypeOK, RowsOK, Subscription
    <3> QED BY <2>1, <3>1 DEF Doomed, Dooming
  <2>3. CASE Activate(k)
    <3>1. /\ tenant' = tenant /\ stale' = (stale \/ sub.status \notin Billable)
      BY <2>3 DEF Activate, Counts
    <3>2. ASSUME NEW w \in Workers, Runs(w, "scrub")'  PROVE  Dooming'
      <4>1. Dooming
        BY <2>1, <3>2 DEF Doomed
      <4>2. sub.status = "CANCELLED" => stale'
        BY <3>1 DEF Billable, Paid
      <4> QED BY <2>1, <3>1, <4>1, <4>2 DEF Dooming
    <3> QED BY <2>1, <3>2 DEF Doomed
  <2>4. CASE ~Quit(k) /\ ~Activate(k)
    <3>1. stale => stale'
      BY StaleStays
    <3>2. sub'.status = sub.status
      BY <1>4, <2>4 DEF Request, ReadTenant, RestoreTenant, ReopenStore,
         RestoreFails, Cancel, FlagPeriodEnd, Operate, Suspend, Reactivate,
         Publish, PublishStore, Drop, Running, TypeOK, RowsOK, Subscription
    <3>3. tenant'.due = tenant.due
      BY <1>4, <2>4 DEF Request, ReadTenant, RestoreTenant, ReopenStore,
         RestoreFails, Cancel, FlagPeriodEnd, Operate, Suspend, Reactivate,
         Publish, PublishStore, Drop, Running, TypeOK, RowsOK
    <3> QED BY <1>1, <2>1, <3>1, <3>2, <3>3, DoomedKept
  <2> QED BY <2>2, <2>3, <2>4
<1>5. CASE Lapse
  <2>1. /\ now' = now /\ sub' = sub /\ tenant' = tenant /\ stale' = stale
        /\ lapses' >= lapses
    BY <1>1, <1>5 DEF Lapse
  <2>2. \A w \in Workers : job'[w].at = job[w].at /\ job'[w].pc = job[w].pc
    <3> PICK l : l = lock.owner
      OBVIOUS
    <3>1. job' = job \/ job' = [job EXCEPT ![l].late = TRUE]
      BY <1>5 DEF Lapse
    <3>2. \A w \in Workers : job'[w] = job[w] \/ job'[w] = [ job[w] EXCEPT !.late = TRUE ]
      BY <1>2, <3>1
    <3>3. ASSUME NEW w \in Workers
          PROVE  LET r == [ job[w] EXCEPT !.late = TRUE ]
                 IN r.at = job[w].at /\ r.pc = job[w].pc
      BY <1>1 DEF Run
    <3> QED BY <3>2, <3>3
  <2> QED BY <1>1, <2>1, <2>2, DoomedKept
<1>6. CASE Prompt \/ Declined \/ Tick \/ UNCHANGED vars
  <2>1. /\ job' = job /\ sub' = sub /\ tenant' = tenant /\ lapses' = lapses
        /\ stale' = stale /\ now' >= now
    BY <1>1, <1>6 DEF Prompt, Declined, Tick, vars
  <2> QED BY <1>1, <2>1, DoomedKept
<1> QED BY <1>3, <1>4, <1>5, <1>6 DEF Next

(* retention.ts: data is deleted when their date has come, and at no other time,
   unless the merchant has cancelled and so moved the date while the run was about to
   delete.  Excepted are runs that overlap and stale writes. *)
DeletedWhenDue ==
  [][ (~tenant.deleted /\ tenant.deleted' /\ lapses = 0 /\ ~stale)
      => Past(tenant.due, now) \/ sub.status = "CANCELLED" ]_vars

(* The data of a tenant is deleted when it is due, or of one that has cancelled. *)
THEOREM DeletionIsDue == Spec => DeletedWhenDue
<1> DEFINE Due == (~tenant.deleted /\ tenant.deleted' /\ lapses = 0 /\ ~stale)
                  => Past(tenant.due, now) \/ sub.status = "CANCELLED"
<1>1. Init => Doomed
  BY DEF Init, Doomed, Asleep, Runs, Unset
<1>2. ASSUME Running, Doomed, [Next]_vars  PROVE  [Due]_vars
  <2> SUFFICES ASSUME ~tenant.deleted, tenant.deleted', lapses = 0, ~stale, Next
               PROVE  Past(tenant.due, now) \/ sub.status = "CANCELLED"
    BY <1>2
  <2> USE DEF bounds, notices
  <2>1. PICK w \in Workers : Scrub(w)
    <3>1. ASSUME NEW w \in Workers, Job(w), ~Scrub(w)  PROVE  tenant'.deleted = tenant.deleted
      BY <1>2, <3>1 DEF Job, RunStep, Acquire, Sweep, Row, Remind, Check, Notify, Record,
         Retain, Reread, Release, Fails, Crash, Running, TypeOK, RowsOK
    <3>2. ASSUME NEW k \in Calls, Request(k)  PROVE  tenant'.deleted = tenant.deleted
      BY <1>2, <3>2 DEF Request, Activate, ReadTenant, RestoreTenant, ReopenStore,
         RestoreFails, Cancel, FlagPeriodEnd, Quit, Operate, Suspend, Reactivate,
         Publish, PublishStore, Drop, Running, TypeOK, RowsOK
    <3> QED BY <3>1, <3>2 DEF Next, Lapse, Prompt, Declined, Tick
  <2>2. Dooming
    BY <1>2, <2>1 DEF Doomed, Scrub
  <2> QED BY <2>2 DEF Dooming
<1>3. Running /\ Doomed /\ [Next]_vars /\ Running' => Doomed'
  BY DoomedStep DEF Running
<1> QED
  BY RunningHolds, <1>1, <1>2, <1>3, PTL DEF Spec, DeletedWhenDue
=============================================================================
