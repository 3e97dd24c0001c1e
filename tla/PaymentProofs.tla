---------------------------- MODULE PaymentProofs ---------------------------
(***************************************************************************)
(* Proofs about the payments of Settlement, for any number of orders,      *)
(* payments and requests and whatever edits overtake each other: a         *)
(* completed payment is settled and a completed prompt was paid, a         *)
(* reviewed receipt stays as it was reviewed, and an order has at most one *)
(* manual payment open.  In calm behaviours the revenue that Analytics     *)
(* reports is then what the store keeps, and its reports add up.           *)
(***************************************************************************)
EXTENDS SettlementProofs, Analytics, FoldFacts

(* What a request in progress has learnt of its payment, and nobody undoes *)
Informed(r) ==
  /\ r.pc = "record" => /\ pay[r.on] = "NONE" /\ push[r.on] # "NONE"
                        /\ r.want \in {"PENDING", "FAILED"}
  /\ r.pc \in PayPCs \ {"record"} => pay[r.on] # "NONE"
  /\ r.pc \in {"query", "write", "cancel"} => r.on \in Pushes
  /\ r.pc = "query" => /\ r.mark # "NONE" <=> r.seen = "COMPLETED"
                       /\ r.seen = "COMPLETED" => push[r.on] = "PAID"
  /\ r.pc = "write" => r.mark = "NONE" /\ r.want \in {"PENDING", "FAILED"}
  /\ r.pc = "submit" => r.on \in Transfers
  /\ r.pc \in {"settle", "reread", "verdict"} =>
       IF r.by = "review" THEN r.on \in Transfers
                          ELSE r.on \in Pushes /\ push[r.on] = "PAID"
  /\ r.pc \in {"reread", "verdict"} /\ r.by = "review" =>
       pay[r.on] = "PROCESSING"

RequestsInformed == \A k \in Calls : Informed(call[k])

(* Two requests never insert the row of one prompt, nor do two approvals hold
   the row of one receipt. *)
Exclusive ==
  \A j, k \in Calls : j # k /\ call[j].on = call[k].on =>
    /\ ~ (call[j].pc = "record" /\ call[k].pc = "record")
    /\ ~ /\ call[j].pc \in {"reread", "verdict"} /\ call[k].pc \in {"reread", "verdict"}
         /\ call[j].on \in Transfers

(* A prompt has a row only once the provider has handed it out, and the newest
   prompt of an order has one. *)
RowsKnown ==
  /\ \A c \in Pushes : push[c] = "NONE" => pay[c] = "NONE"
  /\ \A o \in Orders : newest[o] # None => pay[newest[o]] # "NONE"

(* OneOpenTransfer without counting *)
OneOpen ==
  \A s, t \in Transfers :
    /\ pay[s] \in {"PENDING", "PROCESSING"} /\ pay[t] \in {"PENDING", "PROCESSING"}
    /\ payOrder[s] = payOrder[t]
    => s = t

(* The inductive invariant of the payments, beside Shape *)
Paid == /\ RequestsInformed /\ Exclusive /\ RowsKnown
        /\ CompletedIsSettled /\ OneOpen

(* Nothing is paid and nobody asks at first. *)
LEMMA PaidInit == Init => Paid
BY SettlementAssumption
   DEF Init, Paid, RequestsInformed, Informed, Exclusive, RowsKnown,
       CompletedIsSettled, OneOpen, Idle, PayPCs, Payments

(* One step per action, one under it for each part of the invariant *)
LEMMA PaidStep == Shape /\ Paid /\ [Next]_vars => Paid'
<1> SUFFICES ASSUME Shape, Paid, [Next]_vars PROVE Paid'
  OBVIOUS
<1> USE SettlementAssumption
    DEF Shape, TypeOK, RequestsSound, Sound, LedgerSound, Requests, PayPCs, Idle,
        At, PayStatus, Verdicts, Payments, ledger, world, others,
        Paid, RequestsInformed, Informed, Exclusive, RowsKnown,
        CompletedIsSettled, OneOpen

<1>1. ASSUME NEW o \in Orders, PlaceOrder(o)
      PROVE  Paid'
  <2>1. RequestsInformed'
    BY <1>1 DEF PlaceOrder, Place
  <2>2. Exclusive'
    BY <1>1 DEF PlaceOrder, Place
  <2>3. RowsKnown'
    BY <1>1 DEF PlaceOrder, Place
  <2>4. CompletedIsSettled'
    BY <1>1 DEF PlaceOrder, Place
  <2>5. OneOpen'
    BY <1>1 DEF PlaceOrder, Place
  <2> QED
    BY <2>1, <2>2, <2>3, <2>4, <2>5
<1>2. ASSUME NEW k \in Calls, NEW o \in Orders, NEW s \in OrderStatus, EditRead(k, o, s)
      PROVE  Paid'
  <2>1. RequestsInformed'
    BY <1>2 DEF EditRead, Goes
  <2>2. Exclusive'
    BY <1>2 DEF EditRead, Goes
  <2>3. RowsKnown'
    BY <1>2 DEF EditRead, Goes
  <2>4. CompletedIsSettled'
    BY <1>2 DEF EditRead, Goes
  <2>5. OneOpen'
    BY <1>2 DEF EditRead, Goes
  <2> QED
    BY <2>1, <2>2, <2>3, <2>4, <2>5
<1>3. ASSUME NEW k \in Calls, EditStore(k)
      PROVE  Paid'
  <2>1. RequestsInformed'
    BY <1>3 DEF EditStore, Ends, Overtaken
  <2>2. Exclusive'
    BY <1>3 DEF EditStore, Ends, Overtaken
  <2>3. RowsKnown'
    BY <1>3 DEF EditStore, Ends, Overtaken
  <2>4. CompletedIsSettled'
    BY <1>3 DEF EditStore, Ends, Overtaken
  <2>5. OneOpen'
    BY <1>3 DEF EditStore, Ends, Overtaken
  <2> QED
    BY <2>1, <2>2, <2>3, <2>4, <2>5
<1>4. ASSUME NEW k \in Calls, EditCancel(k)
      PROVE  Paid'
  <2>1. RequestsInformed'
    BY <1>4 DEF EditCancel, CancelFrom, Ends
  <2>2. Exclusive'
    BY <1>4 DEF EditCancel, CancelFrom, Ends
  <2>3. RowsKnown'
    BY <1>4 DEF EditCancel, CancelFrom, Ends
  <2>4. CompletedIsSettled'
    BY <1>4 DEF EditCancel, CancelFrom, Ends
  <2>5. OneOpen'
    BY <1>4 DEF EditCancel, CancelFrom, Ends
  <2> QED
    BY <2>1, <2>2, <2>3, <2>4, <2>5
<1>5. ASSUME NEW k \in Calls, CancelPending(k)
      PROVE  Paid'
  <2>1. RequestsInformed'
    BY <1>5 DEF CancelPending, CancelFrom, Answers, Ends
  <2>2. Exclusive'
    BY <1>5 DEF CancelPending, CancelFrom, Answers, Ends
  <2>3. RowsKnown'
    BY <1>5 DEF CancelPending, CancelFrom, Answers, Ends
  <2>4. CompletedIsSettled'
    BY <1>5 DEF CancelPending, CancelFrom, Answers, Ends
  <2>5. OneOpen'
    BY <1>5 DEF CancelPending, CancelFrom, Answers, Ends
  <2> QED
    BY <2>1, <2>2, <2>3, <2>4, <2>5
<1>6. ASSUME NEW k \in Calls, NEW o \in Orders, InitiateCheck(k, o)
      PROVE  Paid'
  <2>1. RequestsInformed'
    BY <1>6 DEF InitiateCheck, Goes
  <2>2. Exclusive'
    BY <1>6 DEF InitiateCheck, Goes
  <2>3. RowsKnown'
    BY <1>6 DEF InitiateCheck, Goes
  <2>4. CompletedIsSettled'
    BY <1>6 DEF InitiateCheck, Goes
  <2>5. OneOpen'
    BY <1>6 DEF InitiateCheck, Goes
  <2> QED
    BY <2>1, <2>2, <2>3, <2>4, <2>5
<1>7. ASSUME NEW k \in Calls, NEW c \in Pushes, NEW a \in {"PROMPTED", "REJECTED"}, StkPush(k, c, a)
      PROVE  Paid'
  <2>1. RequestsInformed'
    BY <1>7 DEF StkPush, Goes
  <2>2. Exclusive'
    BY <1>7 DEF StkPush, Goes
  <2>3. RowsKnown'
    BY <1>7 DEF StkPush, Goes
  <2>4. CompletedIsSettled'
    BY <1>7 DEF StkPush, Goes
  <2>5. OneOpen'
    BY <1>7 DEF StkPush, Goes
  <2> QED
    BY <2>1, <2>2, <2>3, <2>4, <2>5
<1>8. ASSUME NEW k \in Calls, RecordPush(k)
      PROVE  Paid'
  <2>1. RequestsInformed'
    BY <1>8 DEF RecordPush, Ends
  <2>2. Exclusive'
    BY <1>8 DEF RecordPush, Ends
  <2>3. RowsKnown'
    BY <1>8 DEF RecordPush, Ends
  <2>4. CompletedIsSettled'
    BY <1>8 DEF RecordPush, Ends
  <2>5. OneOpen'
    BY <1>8 DEF RecordPush, Ends
  <2> QED
    BY <2>1, <2>2, <2>3, <2>4, <2>5
<1>9. ASSUME NEW c \in Pushes, NEW a \in {"PAID", "DECLINED"}, Resolve(c, a)
      PROVE  Paid'
  <2>1. RequestsInformed'
    BY <1>9 DEF Resolve
  <2>2. Exclusive'
    BY <1>9 DEF Resolve
  <2>3. RowsKnown'
    BY <1>9 DEF Resolve
  <2>4. CompletedIsSettled'
    BY <1>9 DEF Resolve
  <2>5. OneOpen'
    BY <1>9 DEF Resolve
  <2> QED
    BY <2>1, <2>2, <2>3, <2>4, <2>5
<1>10. ASSUME NEW k \in Calls, NEW o \in Orders, VerifyRead(k, o)
      PROVE  Paid'
  <2>1. RequestsInformed'
    BY <1>10 DEF VerifyRead, Goes
  <2>2. Exclusive'
    BY <1>10 DEF VerifyRead, Goes
  <2>3. RowsKnown'
    BY <1>10 DEF VerifyRead, Goes
  <2>4. CompletedIsSettled'
    BY <1>10 DEF VerifyRead, Goes
  <2>5. OneOpen'
    BY <1>10 DEF VerifyRead, Goes
  <2> QED
    BY <2>1, <2>2, <2>3, <2>4, <2>5
<1>11. ASSUME NEW k \in Calls, VerifyQuery(k)
      PROVE  Paid'
  <2>1. RequestsInformed'
    BY <1>11 DEF VerifyQuery, Queried, Goes
  <2>2. Exclusive'
    BY <1>11 DEF VerifyQuery, Queried, Goes
  <2>3. RowsKnown'
    BY <1>11 DEF VerifyQuery, Queried, Goes
  <2>4. CompletedIsSettled'
    BY <1>11 DEF VerifyQuery, Queried, Goes
  <2>5. OneOpen'
    BY <1>11 DEF VerifyQuery, Queried, Goes
  <2> QED
    BY <2>1, <2>2, <2>3, <2>4, <2>5
<1>12. ASSUME NEW k \in Calls, NEW c \in Pushes, CallbackRead(k, c)
      PROVE  Paid'
  <2>1. RequestsInformed'
    BY <1>12 DEF CallbackRead, CallbackResult, Goes
  <2>2. Exclusive'
    BY <1>12 DEF CallbackRead, CallbackResult, Goes
  <2>3. RowsKnown'
    BY <1>12 DEF CallbackRead, CallbackResult, Goes
  <2>4. CompletedIsSettled'
    BY <1>12 DEF CallbackRead, CallbackResult, Goes
  <2>5. OneOpen'
    BY <1>12 DEF CallbackRead, CallbackResult, Goes
  <2> QED
    BY <2>1, <2>2, <2>3, <2>4, <2>5
<1>13. ASSUME NEW k \in Calls, WriteStatus(k)
      PROVE  Paid'
  <2>1. RequestsInformed'
    BY <1>13 DEF WriteStatus, Goes, Ends
  <2>2. Exclusive'
    BY <1>13 DEF WriteStatus, Goes, Ends
  <2>3. RowsKnown'
    BY <1>13 DEF WriteStatus, Goes, Ends
  <2>4. CompletedIsSettled'
    BY <1>13 DEF WriteStatus, Goes, Ends
  <2>5. OneOpen'
    BY <1>13 DEF WriteStatus, Goes, Ends
  <2> QED
    BY <2>1, <2>2, <2>3, <2>4, <2>5
<1>14. ASSUME NEW k \in Calls, NEW o \in Orders, TransferCheck(k, o)
      PROVE  Paid'
  <2>1. RequestsInformed'
    BY <1>14 DEF TransferCheck, Goes
  <2>2. Exclusive'
    BY <1>14 DEF TransferCheck, Goes
  <2>3. RowsKnown'
    BY <1>14 DEF TransferCheck, Goes
  <2>4. CompletedIsSettled'
    BY <1>14 DEF TransferCheck, Goes
  <2>5. OneOpen'
    BY <1>14 DEF TransferCheck, Goes
  <2> QED
    BY <2>1, <2>2, <2>3, <2>4, <2>5
<1>34. ASSUME NEW k \in Calls, TransferLock(k)
      PROVE  Paid'
  <2>1. RequestsInformed'
    BY <1>34 DEF TransferLock, Goes, Ends
  <2>2. Exclusive'
    BY <1>34 DEF TransferLock, Goes, Ends
  <2>3. RowsKnown'
    BY <1>34 DEF TransferLock, Goes, Ends
  <2>4. CompletedIsSettled'
    BY <1>34 DEF TransferLock, Goes, Ends
  <2>5. OneOpen'
    BY <1>34 DEF TransferLock, Goes, Ends
  <2> QED
    BY <2>1, <2>2, <2>3, <2>4, <2>5
<1>15. ASSUME NEW k \in Calls, TransferCreate(k)
      PROVE  Paid'
  <2>1. RequestsInformed'
    BY <1>15 DEF TransferCreate, OpenTransfers, Ends
  <2>2. Exclusive'
    BY <1>15 DEF TransferCreate, OpenTransfers, Ends
  <2>3. RowsKnown'
    BY <1>15 DEF TransferCreate, OpenTransfers, Ends
  <2>4. CompletedIsSettled'
    BY <1>15 DEF TransferCreate, OpenTransfers, Ends
  <2>5. OneOpen'
    BY <1>15 DEF TransferCreate, OpenTransfers, Ends
  <2> QED
    BY <2>1, <2>2, <2>3, <2>4, <2>5
<1>16. ASSUME NEW k \in Calls, NEW t \in Transfers, SubmitCheck(k, t)
      PROVE  Paid'
  <2>1. RequestsInformed'
    BY <1>16 DEF SubmitCheck, Goes
  <2>2. Exclusive'
    BY <1>16 DEF SubmitCheck, Goes
  <2>3. RowsKnown'
    BY <1>16 DEF SubmitCheck, Goes
  <2>4. CompletedIsSettled'
    BY <1>16 DEF SubmitCheck, Goes
  <2>5. OneOpen'
    BY <1>16 DEF SubmitCheck, Goes
  <2> QED
    BY <2>1, <2>2, <2>3, <2>4, <2>5
<1>17. ASSUME NEW k \in Calls, SubmitStore(k)
      PROVE  Paid'
  <2>1. RequestsInformed'
    BY <1>17 DEF SubmitStore, Ends
  <2>2. Exclusive'
    BY <1>17 DEF SubmitStore, Ends
  <2>3. RowsKnown'
    BY <1>17 DEF SubmitStore, Ends
  <2>4. CompletedIsSettled'
    BY <1>17 DEF SubmitStore, Ends
  <2>5. OneOpen'
    BY <1>17 DEF SubmitStore, Ends
  <2> QED
    BY <2>1, <2>2, <2>3, <2>4, <2>5
<1>18. ASSUME NEW k \in Calls, NEW t \in Transfers, ReviewApprove(k, t)
      PROVE  Paid'
  <2>1. RequestsInformed'
    BY <1>18 DEF ReviewApprove, Goes
  <2>2. Exclusive'
    BY <1>18 DEF ReviewApprove, Goes
  <2>3. RowsKnown'
    BY <1>18 DEF ReviewApprove, Goes
  <2>4. CompletedIsSettled'
    BY <1>18 DEF ReviewApprove, Goes
  <2>5. OneOpen'
    BY <1>18 DEF ReviewApprove, Goes
  <2> QED
    BY <2>1, <2>2, <2>3, <2>4, <2>5
<1>19. ASSUME NEW t \in Transfers, ReviewReject(t)
      PROVE  Paid'
  <2>1. RequestsInformed'
    BY <1>19 DEF ReviewReject, RowLocked
  <2>2. Exclusive'
    BY <1>19 DEF ReviewReject, RowLocked
  <2>3. RowsKnown'
    BY <1>19 DEF ReviewReject, RowLocked
  <2>4. CompletedIsSettled'
    BY <1>19 DEF ReviewReject, RowLocked
  <2>5. OneOpen'
    BY <1>19 DEF ReviewReject, RowLocked
  <2> QED
    BY <2>1, <2>2, <2>3, <2>4, <2>5
<1>20. ASSUME NEW k \in Calls, SettleRefuse(k)
      PROVE  Paid'
  <2>1. RequestsInformed'
    BY <1>20 DEF SettleRefuse, Ends
  <2>2. Exclusive'
    BY <1>20 DEF SettleRefuse, Ends
  <2>3. RowsKnown'
    BY <1>20 DEF SettleRefuse, Ends
  <2>4. CompletedIsSettled'
    BY <1>20 DEF SettleRefuse, Ends
  <2>5. OneOpen'
    BY <1>20 DEF SettleRefuse, Ends
  <2> QED
    BY <2>1, <2>2, <2>3, <2>4, <2>5
<1>21. ASSUME NEW k \in Calls, SettleClaim(k)
      PROVE  Paid'
  <2>1. RequestsInformed'
    BY <1>21 DEF SettleClaim, Claims, ReviewLost, RowLocked, Settle, Answers, Ends, Goes
  <2>2. Exclusive'
    BY <1>21 DEF SettleClaim, Claims, ReviewLost, RowLocked, Settle, Answers, Ends, Goes
  <2>3. RowsKnown'
    BY <1>21 DEF SettleClaim, Claims, ReviewLost, RowLocked, Settle, Answers, Ends, Goes
  <2>4. CompletedIsSettled'
    BY <1>21 DEF SettleClaim, Claims, ReviewLost, RowLocked, Settle, Answers, Ends, Goes
  <2>5. OneOpen'
    BY <1>21 DEF SettleClaim, Claims, ReviewLost, RowLocked, Settle, Answers, Ends, Goes
  <2> QED
    BY <2>1, <2>2, <2>3, <2>4, <2>5
<1>22. ASSUME NEW k \in Calls, SettleMiss(k)
      PROVE  Paid'
  <2>1. RequestsInformed'
    BY <1>22 DEF SettleMiss, Claims, ReviewLost, RowLocked, Goes
  <2>2. Exclusive'
    BY <1>22 DEF SettleMiss, Claims, ReviewLost, RowLocked, Goes
  <2>3. RowsKnown'
    BY <1>22 DEF SettleMiss, Claims, ReviewLost, RowLocked, Goes
  <2>4. CompletedIsSettled'
    BY <1>22 DEF SettleMiss, Claims, ReviewLost, RowLocked, Goes
  <2>5. OneOpen'
    BY <1>22 DEF SettleMiss, Claims, ReviewLost, RowLocked, Goes
  <2> QED
    BY <2>1, <2>2, <2>3, <2>4, <2>5
<1>23. ASSUME NEW k \in Calls, SettleReread(k)
      PROVE  Paid'
  <2>1. RequestsInformed'
    BY <1>23 DEF SettleReread, Goes
  <2>2. Exclusive'
    BY <1>23 DEF SettleReread, Goes
  <2>3. RowsKnown'
    BY <1>23 DEF SettleReread, Goes
  <2>4. CompletedIsSettled'
    BY <1>23 DEF SettleReread, Goes
  <2>5. OneOpen'
    BY <1>23 DEF SettleReread, Goes
  <2> QED
    BY <2>1, <2>2, <2>3, <2>4, <2>5
<1>24. ASSUME NEW k \in Calls, SettleStore(k)
      PROVE  Paid'
  <2>1. RequestsInformed'
    BY <1>24 DEF SettleStore, VerdictFor, Settle, Answers, Ends, Goes
  <2>2. Exclusive'
    BY <1>24 DEF SettleStore, VerdictFor, Settle, Answers, Ends, Goes
  <2>3. RowsKnown'
    BY <1>24 DEF SettleStore, VerdictFor, Settle, Answers, Ends, Goes
  <2>4. CompletedIsSettled'
    BY <1>24 DEF SettleStore, VerdictFor, Settle, Answers, Ends, Goes
  <2>5. OneOpen'
    BY <1>24 DEF SettleStore, VerdictFor, Settle, Answers, Ends, Goes
  <2> QED
    BY <2>1, <2>2, <2>3, <2>4, <2>5
<1>25. ASSUME NEW k \in Calls, Audit(k)
      PROVE  Paid'
  <2>1. RequestsInformed'
    BY <1>25 DEF Audit, Answers, Ends
  <2>2. Exclusive'
    BY <1>25 DEF Audit, Answers, Ends
  <2>3. RowsKnown'
    BY <1>25 DEF Audit, Answers, Ends
  <2>4. CompletedIsSettled'
    BY <1>25 DEF Audit, Answers, Ends
  <2>5. OneOpen'
    BY <1>25 DEF Audit, Answers, Ends
  <2> QED
    BY <2>1, <2>2, <2>3, <2>4, <2>5
<1>26. ASSUME NEW k \in Calls, Throws(k)
      PROVE  Paid'
  <2>1. RequestsInformed'
    BY <1>26 DEF Throws, Ends
  <2>2. Exclusive'
    BY <1>26 DEF Throws, Ends
  <2>3. RowsKnown'
    BY <1>26 DEF Throws, Ends
  <2>4. CompletedIsSettled'
    BY <1>26 DEF Throws, Ends
  <2>5. OneOpen'
    BY <1>26 DEF Throws, Ends
  <2> QED
    BY <2>1, <2>2, <2>3, <2>4, <2>5
<1>27. ASSUME NEW k \in Calls, Drop(k)
      PROVE  Paid'
  <2>1. RequestsInformed'
    BY <1>27 DEF Drop, Ends
  <2>2. Exclusive'
    BY <1>27 DEF Drop, Ends
  <2>3. RowsKnown'
    BY <1>27 DEF Drop, Ends
  <2>4. CompletedIsSettled'
    BY <1>27 DEF Drop, Ends
  <2>5. OneOpen'
    BY <1>27 DEF Drop, Ends
  <2> QED
    BY <2>1, <2>2, <2>3, <2>4, <2>5
<1>28. ASSUME SwitchRoute
      PROVE  Paid'
  <2>1. RequestsInformed'
    BY <1>28 DEF SwitchRoute
  <2>2. Exclusive'
    BY <1>28 DEF SwitchRoute
  <2>3. RowsKnown'
    BY <1>28 DEF SwitchRoute
  <2>4. CompletedIsSettled'
    BY <1>28 DEF SwitchRoute
  <2>5. OneOpen'
    BY <1>28 DEF SwitchRoute
  <2> QED
    BY <2>1, <2>2, <2>3, <2>4, <2>5
<1>29. CASE UNCHANGED vars
  BY <1>29 DEF vars
<1> HIDE SettlementAssumption
         DEF Shape, TypeOK, RequestsSound, Sound, LedgerSound, Requests, PayPCs, Idle,
             At, PayStatus, Verdicts, Payments, ledger, world, others,
             Paid, RequestsInformed, Informed, Exclusive, RowsKnown,
             CompletedIsSettled, OneOpen
<1>30. ASSUME NEW k \in Calls, Begin(k)
      PROVE  Paid'
  BY <1>30, <1>2, <1>6, <1>10, <1>12, <1>14, <1>16, <1>18 DEF Begin
<1>31. ASSUME NEW k \in Calls, Progress(k)
      PROVE  Paid'
  BY <1>31, <1>4, <1>5, <1>7, <1>8, <1>11, <1>13, <1>34, <1>15, <1>17, <1>20,
     <1>21, <1>22, <1>23, <1>24, <1>25 DEF Progress
<1>32. CASE Outside
  BY <1>32, <1>1, <1>9, <1>19, <1>28 DEF Outside
<1> QED
  BY <1>3, <1>26, <1>27, <1>29, <1>30, <1>31, <1>32 DEF Next

(* A reviewed receipt has no step left: only the approval that holds its row
   and the rejection change it, and both want it in PROCESSING. *)
LEMMA ReviewStep ==
  ASSUME Shape, Paid, [Next]_vars, NEW t \in Transfers,
         pay[t] \in {"COMPLETED", "FAILED"}
  PROVE  pay'[t] = pay[t] /\ verdict'[t] = verdict[t]
<1> DEFINE Kept == pay'[t] = pay[t] /\ verdict'[t] = verdict[t]
<1> USE SettlementAssumption
    DEF Shape, TypeOK, RequestsSound, Sound, PayPCs, At, Payments, ledger,
        Paid, RequestsInformed, Informed
<1>1. ASSUME NEW k \in Calls, RecordPush(k) PROVE Kept
  BY <1>1 DEF RecordPush
<1>2. ASSUME NEW k \in Calls, WriteStatus(k) PROVE Kept
  BY <1>2 DEF WriteStatus
<1>3. ASSUME NEW k \in Calls, TransferCreate(k) PROVE Kept
  BY <1>3 DEF TransferCreate
<1>4. ASSUME NEW k \in Calls, SubmitStore(k) PROVE Kept
  BY <1>4 DEF SubmitStore
<1>5. ASSUME NEW u \in Transfers, ReviewReject(u) PROVE Kept
  BY <1>5 DEF ReviewReject
<1>6. ASSUME NEW k \in Calls, SettleClaim(k) PROVE Kept
  BY <1>6 DEF SettleClaim, Claims, ReviewLost, Settle
<1>7. ASSUME NEW k \in Calls, SettleStore(k) PROVE Kept
  BY <1>7 DEF SettleStore, Settle
<1>8. ASSUME NEW k \in Calls, Begin(k) PROVE Kept
  BY <1>8 DEF Begin, EditRead, InitiateCheck, TransferCheck, VerifyRead,
              CallbackRead, SubmitCheck, ReviewApprove
<1>9. ASSUME NEW k \in Calls,
             \/ EditStore(k) \/ EditCancel(k) \/ CancelPending(k)
             \/ \E c \in Pushes : StkPush(k, c, "PROMPTED") \/ StkPush(k, c, "REJECTED")
             \/ TransferLock(k) \/ VerifyQuery(k) \/ SettleRefuse(k) \/ SettleMiss(k)
             \/ SettleReread(k) \/ Audit(k) \/ Throws(k) \/ Drop(k)
      PROVE  Kept
  BY <1>9 DEF EditStore, EditCancel, CancelPending, StkPush, TransferLock,
              VerifyQuery,
              SettleRefuse, SettleMiss, SettleReread, Audit, Throws, Drop
<1>10. ASSUME NEW o \in Orders, PlaceOrder(o) PROVE Kept
  BY <1>10 DEF PlaceOrder
<1>11. ASSUME NEW c \in Pushes, NEW a \in {"PAID", "DECLINED"}, Resolve(c, a)
       PROVE  Kept
  BY <1>11 DEF Resolve
<1>12. CASE SwitchRoute
  BY <1>12 DEF SwitchRoute
<1>13. CASE UNCHANGED vars
  BY <1>13 DEF vars
<1> HIDE SettlementAssumption
         DEF Shape, TypeOK, RequestsSound, Sound, PayPCs, At, Payments, ledger,
             Paid, RequestsInformed, Informed
<1>14. CASE Outside
  BY <1>14, <1>5, <1>10, <1>11, <1>12 DEF Outside
<1>15. ASSUME NEW k \in Calls, Progress(k) PROVE Kept
  BY <1>15, <1>1, <1>2, <1>3, <1>4, <1>6, <1>7, <1>9 DEF Progress
<1> QED
  BY <1>8, <1>9, <1>13, <1>14, <1>15 DEF Next
-----------------------------------------------------------------------------
(* Both invariants hold in every behaviour, the edits that overtake others
   included. *)
LEMMA PaidHolds == Spec => [](Shape /\ Paid)
<1>1. Init => Shape /\ Paid
  BY ShapeInit, PaidInit
<1>2. (Shape /\ Paid) /\ [Next]_vars => (Shape /\ Paid)'
  BY ShapeStep, PaidStep
<1> QED
  BY <1>1, <1>2, PTL DEF Spec

(* finalizePendingOrderPayment and the callbacks, polls and stale writes it
   races never leave a payment completed without the record of what became of
   its order, nor complete a prompt nobody paid. *)
THEOREM PaymentsAreSettled == Spec => []CompletedIsSettled
<1>1. Shape /\ Paid => CompletedIsSettled
  BY DEF Paid
<1> QED
  BY <1>1, PaidHolds, PTL

(* The advisory lock in createManualShopperPayment leaves an order one open
   manual payment, however many requests try to create one. *)
THEOREM OneTransferIsOpen == Spec => []OneOpenTransfer
<1>1. ASSUME Paid, NEW o \in Orders PROVE Cardinality(OpenTransfers(o)) <= 1
  <2>1. \A s, t \in OpenTransfers(o) : s = t
    BY <1>1 DEF Paid, OneOpen, OpenTransfers
  <2>2. CASE OpenTransfers(o) = {}
    BY <2>2, FS_EmptySet
  <2>3. CASE OpenTransfers(o) # {}
    <3>1. PICK t \in OpenTransfers(o) : OpenTransfers(o) = {t}
      BY <2>1, <2>3
    <3> QED
      BY <3>1, FS_Singleton
  <2> QED
    BY <2>2, <2>3
<1>2. Shape /\ Paid => OneOpenTransfer
  BY <1>1 DEF OneOpenTransfer
<1> QED
  BY <1>2, PaidHolds, PTL

(* reviewManualShopperReceipt is final: of two reviewers who answer
   differently, the one who lost changes nothing. *)
THEOREM ReviewsAreFinal == Spec => ReviewIsFinal
<1>1. Shape /\ Paid /\ [Next]_vars =>
        [ \A t \in Transfers : pay[t] \in {"COMPLETED", "FAILED"} =>
            pay'[t] = pay[t] /\ verdict'[t] = verdict[t] ]_vars
  BY ReviewStep
<1> QED
  BY <1>1, PaidHolds, PTL DEF Spec, ReviewIsFinal
-----------------------------------------------------------------------------
(* What the reports make of the payments *)

(* A paid order that is not cancelled is one whose payment confirmed it. *)
LEMMA PaidIsEarned ==
  ASSUME Shape, VerdictMatchesOrder, CompletedIsSettled
  PROVE  Earned = { o \in Spent : order[o] # "CANCELLED" }
<1>1. ASSUME NEW o \in Earned  PROVE  o \in Spent /\ order[o] # "CANCELLED"
  BY DEF Earned, Spent, Placed, HasCompleted, CompletedIsSettled
<1>2. ASSUME NEW o \in Spent, order[o] # "CANCELLED"  PROVE  o \in Earned
  <2>1. PICK p \in Payments : payOrder[p] = o /\ pay[p] = "COMPLETED"
    BY DEF Spent, HasCompleted
  <2>2. verdict[p] # "NONE" /\ Fits(verdict[p], o)
    BY <2>1 DEF CompletedIsSettled, VerdictMatchesOrder
  <2>3. verdict[p] \in Verdicts \cup {"NONE"}
    BY DEF Shape, TypeOK
  <2>4. verdict[p] = "ORDER_CONFIRMED" /\ order[o] # "PENDING"
    BY <1>2, <2>2, <2>3 DEF Fits, Verdicts
  <2> QED BY <1>2, <2>1, <2>4 DEF Earned, Spent, Placed
<1> QED BY <1>1, <1>2 DEF Spent, Placed

(* The revenue of a period is what settlement let the store keep. *)
LEMMA RevenueKept ==
  ASSUME Shape, VerdictMatchesOrder, CompletedIsSettled
  PROVE  RevenueIsKept
<1>1. ASSUME NEW range
      PROVE  Overview(range).revenue = EarnedIn(range)
  <2>1. Settled(range) = { o \in Earned : Created[o] \in range.start .. range.end }
    BY PaidIsEarned DEF Settled, Eligible, Spent
  <2>2. Overview(range).revenue = SumFunctionOnSet(Total, Settled(range))
    BY DEF Overview, Revenue
  <2> QED BY <2>1, <2>2 DEF EarnedIn
<1>2. Settled(CurrentRange) \cap Settled(PreviousRange) = {}
  <2> SUFFICES ASSUME NEW o \in Orders,
                      Created[o] \in CurrentRange.start .. CurrentRange.end,
                      Created[o] \in PreviousRange.start .. PreviousRange.end
               PROVE  FALSE
    BY DEF Settled, Eligible, Placed
  <2>1. Now \in Nat /\ Span \in Nat /\ Created[o] \in Nat
    BY AnalyticsAssumption
  <2>2. CurrentRange.start = Now - Span /\ PreviousRange.end = Now - Span - 1
    BY DEF CurrentRange, PreviousRange
  <2> QED BY <2>1, <2>2
<1>3. Spent = Earned \cup { o \in Spent : order[o] = "CANCELLED" }
  BY PaidIsEarned
<1>4. CustomerRevenue =
        SumFunctionOnSet(Total, Earned \cup { o \in Spent : order[o] = "CANCELLED" })
  BY <1>3 DEF CustomerRevenue, Revenue
<1> QED BY <1>1, <1>2, <1>4 DEF RevenueIsKept

-----------------------------------------------------------------------------
(* Reports *)

(* What orders cost can be added up, over any of them. *)
LEMMA TotalsSummable ==
  ASSUME NEW S \in SUBSET Orders
  PROVE  Summable(Total, S) /\ Revenue(S) \in Nat
<1>1. Summable(Total, S)
  BY AnalyticsAssumption, FS_Subset DEF Summable
<1> QED BY <1>1, SumType DEF Revenue

(* A period's orders are orders. *)
LEMMA SettledAreOrders ==
  ASSUME NEW range
  PROVE  Settled(range) \in SUBSET Orders
BY DEF Settled, Eligible, Placed

(* The keys of a finite set are finitely many. *)
LEMMA KeysFinite ==
  ASSUME NEW S, IsFiniteSet(S), NEW key
  PROVE  IsFiniteSet({ key[x] : x \in S })
<1> DEFINE K == { key[x] : x \in S }
           f == [ x \in S |-> key[x] ]
<1>1. f \in Surjection(S, K)
  BY DEF Surjection
<1> QED BY <1>1, FS_Surjection

(* A report that groups orders says no more and no less than all of them. *)
LEMMA GroupsAddUp ==
  ASSUME NEW S \in SUBSET Orders, NEW key
  PROVE  /\ TotalOf(GroupedBy(S, key), "revenue") = Revenue(S)
         /\ TotalOf(GroupedBy(S, key), "orders") = Cardinality(S)
<1> DEFINE K == { key[o] : o \in S }
           lines == GroupedBy(S, key)
           one == [ o \in S |-> 1 ]
<1>1. IsFiniteSet(S) /\ Summable(Total, S) /\ IsFiniteSet(K)
  BY TotalsSummable, KeysFinite DEF Summable
<1>2. Summable(one, S)
  BY <1>1 DEF Summable
<1>3. /\ DOMAIN lines = K
      /\ \A g \in K :
           /\ lines[g].revenue = SumFunctionOnSet(Total, Group(S, key, g))
           /\ lines[g].orders = Cardinality(Group(S, key, g))
  BY DEF GroupedBy, Revenue, Group
<1>4. \A o \in S : key[o] \in K
  OBVIOUS
<1> HIDE DEF lines, K
<1>5. TotalOf(lines, "revenue") = Revenue(S)
  <2> DEFINE h == [ g \in K |-> lines[g].revenue ]
  <2>1. TotalOf(lines, "revenue") = SumFunctionOnSet(h, K)
    BY <1>3 DEF TotalOf, SumFunction
  <2>2. \A g \in K : h[g] = SumFunctionOnSet(Total, Group(S, key, g))
    BY <1>3
  <2> HIDE DEF h
  <2> QED BY <1>1, <1>4, <2>1, <2>2, SumByKey DEF Revenue
<1>6. TotalOf(lines, "orders") = Cardinality(S)
  <2> DEFINE h == [ g \in K |-> lines[g].orders ]
  <2>1. TotalOf(lines, "orders") = SumFunctionOnSet(h, K)
    BY <1>3 DEF TotalOf, SumFunction
  <2>2. ASSUME NEW g \in K  PROVE  h[g] = SumFunctionOnSet(one, Group(S, key, g))
    <3>1. Group(S, key, g) \in SUBSET S
      BY DEF Group
    <3>2. IsFiniteSet(Group(S, key, g)) /\ \A o \in Group(S, key, g) : one[o] = 1
      BY <1>1, <3>1, FS_Subset
    <3> HIDE DEF one
    <3> QED BY <1>3, <3>2, CountIsSum
  <2>3. SumFunctionOnSet(one, S) = Cardinality(S)
    BY <1>1, CountIsSum
  <2> HIDE DEF h, one
  <2> QED BY <1>1, <1>2, <1>4, <2>1, <2>2, <2>3, SumByKey
<1> QED BY <1>5, <1>6 DEF lines

(* The chart of sales, the counties and the payment methods add up to the overview. *)
LEMMA TablesAddUp ==
  /\ TotalOf(SalesData, "revenue") = Overview(CurrentRange).revenue
  /\ TotalOf(SalesData, "orders") = Overview(CurrentRange).orders
  /\ TotalOf(RegionSales, "revenue") = Overview(CurrentRange).revenue
  /\ TotalOf(RegionSales, "orders") = Overview(CurrentRange).orders
  /\ TotalOf(PaymentMethodStats, "amount") = Overview(CurrentRange).revenue
<1> DEFINE S == Settled(CurrentRange)
           method == [ o \in Orders |-> IF o \in MpesaOrders THEN "MPESA" ELSE "CASH" ]
           lines == GroupedBy(S, method)
           total == SumFunction([ m \in DOMAIN lines |-> lines[m].revenue ])
           stats == [ m \in DOMAIN lines |->
                        [ amount |-> lines[m].revenue, orders |-> lines[m].orders,
                          percentage |-> Percent(lines[m].revenue, total) ] ]
<1>1. S \in SUBSET Orders
  BY SettledAreOrders
<1>2. Overview(CurrentRange).revenue = Revenue(S)
  BY DEF Overview
<1>3. Overview(CurrentRange).orders = Cardinality(S)
  BY DEF Overview
<1>4. ASSUME NEW key
      PROVE  /\ TotalOf(GroupedBy(S, key), "revenue") = Revenue(S)
             /\ TotalOf(GroupedBy(S, key), "orders") = Cardinality(S)
  BY <1>1, GroupsAddUp
<1>5. stats = PaymentMethodStats
  BY DEF PaymentMethodStats
<1> HIDE DEF lines
<1>6. TotalOf(stats, "amount") = TotalOf(lines, "revenue")
  <2>1. DOMAIN stats = DOMAIN lines /\ \A m \in DOMAIN lines : stats[m].amount = lines[m].revenue
    OBVIOUS
  <2> HIDE DEF stats
  <2>2. [ m \in DOMAIN stats |-> stats[m].amount ] = [ m \in DOMAIN lines |-> lines[m].revenue ]
    BY <2>1
  <2> QED BY <2>2 DEF TotalOf
<1>7. TotalOf(lines, "revenue") = Revenue(S)
  BY <1>4 DEF lines
<1> HIDE DEF S, stats
<1> QED BY <1>2, <1>3, <1>4, <1>5, <1>6, <1>7 DEF SalesData, RegionSales, S

(* What was sold of each row, and for how much. *)
Worth(S) == [ r \in Rows |-> Price[r] * Sold(r, S) ]

(* Units sold and what they brought in are naturals, and nothing where nothing
   was sold; a report adds them up over its rows. *)
LEMMA WorthIs ==
  ASSUME NEW S \in SUBSET Orders
  PROVE  /\ \A r \in Rows : Sold(r, S) \in Nat
         /\ \A rows \in SUBSET Rows :
              /\ Summable(Worth(S), rows)
              /\ ItemSales(rows, S) = SumFunctionOnSet(Worth(S), rows)
         /\ \A r \in Rows \ SoldRows(S) : Worth(S)[r] = 0
<1>1. ASSUME NEW r \in Rows  PROVE  Sold(r, S) \in Nat
  <2> DEFINE f == [ o \in S |-> Qty[o][r] ]
  <2>1. Summable(f, S)
    BY BookAssumption, AnalyticsAssumption, FS_Subset DEF Summable
  <2>2. Sold(r, S) = SumFunctionOnSet(f, S)
    BY DEF Sold, SumFunction
  <2> HIDE DEF f
  <2> QED BY <2>1, <2>2, SumType
<1>2. ASSUME NEW r \in Rows  PROVE  Worth(S)[r] = Price[r] * Sold(r, S)
  BY DEF Worth
<1>3. ASSUME NEW r \in Rows  PROVE  Worth(S)[r] \in Nat
  <2>1. Price[r] \in Nat /\ Sold(r, S) \in Nat
    BY <1>1, AnalyticsAssumption
  <2> QED BY <1>2, <2>1
<1>4. ASSUME NEW rows \in SUBSET Rows
      PROVE  /\ Summable(Worth(S), rows)
             /\ ItemSales(rows, S) = SumFunctionOnSet(Worth(S), rows)
  <2>1. Summable(Worth(S), rows)
    <3>1. IsFiniteSet(rows)
      BY AnalyticsAssumption, FS_Subset
    <3> QED BY <1>3, <3>1 DEF Summable
  <2> DEFINE g == [ r \in rows |-> Price[r] * Sold(r, S) ]
  <2>2. ItemSales(rows, S) = SumFunctionOnSet(g, rows)
    BY DEF ItemSales, SumFunction
  <2>3. \A r \in rows : Worth(S)[r] = g[r]
    BY <1>2
  <2> HIDE DEF g
  <2> QED BY <2>1, <2>2, <2>3, SumSame
<1>5. ASSUME NEW r \in Rows \ SoldRows(S)  PROVE  Worth(S)[r] = 0
  <2>1. Sold(r, S) = 0 /\ Price[r] \in Nat
    BY <1>1, AnalyticsAssumption DEF SoldRows
  <2> QED BY <1>2, <2>1
<1> QED BY <1>1, <1>4, <1>5

(* The categories add up to what was sold. *)
LEMMA CategoriesAddUp ==
  LET S == Settled(CurrentRange)
  IN  TotalOf(CategorySales, "sales") = SumFunctionOnSet(Worth(S), SoldRows(S))
<1> DEFINE S == Settled(CurrentRange)
           rows == SoldRows(S)
           key == [ r \in Rows |-> Category[Product[r]] ]
           K == { key[r] : r \in rows }
           h == [ c \in K |-> CategorySales[c].sales ]
<1>1. S \in SUBSET Orders
  BY SettledAreOrders
<1>2. rows \in SUBSET Rows /\ IsFiniteSet(rows)
  BY AnalyticsAssumption, FS_Subset DEF SoldRows
<1>3. IsFiniteSet(K)
  <2> HIDE DEF rows, key
  <2> QED BY <1>2, KeysFinite
<1>4. K = { Category[Product[r]] : r \in rows }
  BY <1>2
<1>5. DOMAIN CategorySales = K
  BY <1>4 DEF CategorySales
<1>6. ASSUME NEW c \in K
      PROVE  h[c] = SumFunctionOnSet(Worth(S), Group(rows, key, c))
  <2>1. h[c] = ItemSales({ r \in rows : Category[Product[r]] = c }, S)
    BY <1>4 DEF CategorySales
  <2>2. { r \in rows : Category[Product[r]] = c } = Group(rows, key, c)
    BY <1>2 DEF Group
  <2>3. Group(rows, key, c) \in SUBSET Rows
    BY <1>2 DEF Group
  <2> HIDE DEF rows, key, h, K, S
  <2> QED BY <1>1, <2>1, <2>2, <2>3, WorthIs
<1>7. TotalOf(CategorySales, "sales") = SumFunctionOnSet(h, K)
  BY <1>5 DEF TotalOf, SumFunction
<1>8. Summable(Worth(S), rows)
  <2> HIDE DEF rows, S
  <2> QED BY <1>1, <1>2, WorthIs
<1>9. \A r \in rows : key[r] \in K
  OBVIOUS
<1>10. SumFunctionOnSet(h, K) = SumFunctionOnSet(Worth(S), rows)
  <2> HIDE DEF rows, S, h, K, key
  <2> QED BY <1>3, <1>6, <1>8, <1>9, SumByKey
<1> QED BY <1>7, <1>10

(* There is a list of the best products; each says no more than was sold, and all of it when
   it is not full. *)
LEMMA ProductsAddUp ==
  LET S == Settled(CurrentRange)
  IN  /\ TopProducts(10) # {}
      /\ \A best \in TopProducts(10) :
           LET sold == SumFunction([ x \in best |-> x.revenue ])
           IN  /\ sold <= SumFunctionOnSet(Worth(S), SoldRows(S))
               /\ Cardinality(best) < 10 => sold = SumFunctionOnSet(Worth(S), SoldRows(S))
<1> DEFINE S == Settled(CurrentRange)
           before == Settled(PreviousRange)
           rows(d) == { r \in Rows : Product[r] = d }
           rev(d) == ItemSales(rows(d), S)
           line(d) == [ id |-> d, category |-> Category[d], revenue |-> rev(d),
                        sales |-> SumFunction([ r \in rows(d) |-> Sold(r, S) ]),
                        growth |-> Growth(rev(d), ItemSales(rows(d), before)) ]
           D == { Product[r] : r \in SoldRows(S) }
           lines == { line(Product[r]) : r \in SoldRows(S) }
           name == [ d \in D |-> line(d) ]
           revenue == [ d \in D |-> rev(d) ]
           h == [ x \in lines |-> x.revenue ]
<1>1. S \in SUBSET Orders
  BY SettledAreOrders
<1>2. SoldRows(S) \in SUBSET Rows /\ IsFiniteSet(SoldRows(S))
  BY AnalyticsAssumption, FS_Subset DEF SoldRows
<1>3. Summable(Worth(S), SoldRows(S))
  <2> HIDE DEF S
  <2> QED BY <1>1, <1>2, WorthIs
<1>4. IsFiniteSet(D)
  BY <1>2, KeysFinite
<1>5. ASSUME NEW d \in D
      PROVE  revenue[d] = SumFunctionOnSet(Worth(S), Group(SoldRows(S), Product, d))
  <2>1. rows(d) \in SUBSET Rows /\ Group(SoldRows(S), Product, d) \in SUBSET rows(d)
    BY <1>2 DEF Group
  <2>2. \A r \in rows(d) \ Group(SoldRows(S), Product, d) : r \in Rows \ SoldRows(S)
    BY DEF Group
  <2>3. revenue[d] = ItemSales(rows(d), S)
    OBVIOUS
  <2> HIDE DEF rows, S, revenue, D
  <2>4. Summable(Worth(S), rows(d)) /\ revenue[d] = SumFunctionOnSet(Worth(S), rows(d))
    BY <1>1, <2>1, <2>3, WorthIs
  <2>5. \A r \in rows(d) \ Group(SoldRows(S), Product, d) : Worth(S)[r] = 0
    BY <1>1, <2>2, WorthIs
  <2> QED BY <2>1, <2>4, <2>5, SumPart
<1>6. Summable(revenue, D) /\ SumFunctionOnSet(revenue, D) = SumFunctionOnSet(Worth(S), SoldRows(S))
  <2>1. \A r \in SoldRows(S) : Product[r] \in D
    OBVIOUS
  <2> HIDE DEF S, D, revenue
  <2> QED BY <1>3, <1>4, <1>5, <2>1, SumByKey
<1>7. lines = { name[d] : d \in D }
  OBVIOUS
<1>8. \A d \in D : name[d].id = d /\ name[d].revenue = revenue[d]
  OBVIOUS
<1>9. \A d \in D : h[name[d]] = revenue[d]
  BY <1>7, <1>8
<1>10. IsFiniteSet(lines)
  <2> HIDE DEF lines, name, D
  <2> QED BY <1>4, <1>7, KeysFinite
<1>11. Summable(h, lines) /\ SumFunctionOnSet(h, lines) = SumFunctionOnSet(revenue, D)
  <2> HIDE DEF lines, name, D, revenue, h
  <2>1. \A x, y \in D : name[x] = name[y] => x = y
    BY <1>8
  <2> QED BY <1>6, <1>7, <1>9, <1>10, <2>1, SumRenamed
<1>12. TopProducts(10) =
         { b \in SUBSET lines :
             /\ Cardinality(b) = IF Cardinality(lines) < 10 THEN Cardinality(lines) ELSE 10
             /\ \A x \in b, y \in lines \ b : x.revenue >= y.revenue }
  <2> DEFINE limit == IF 10 > 100 THEN 100 ELSE IF 10 < 0 THEN 0 ELSE 10
  <2>1. TopProducts(10) =
          { b \in SUBSET lines :
              /\ Cardinality(b) =
                   IF Cardinality(lines) < limit THEN Cardinality(lines) ELSE limit
              /\ \A x \in b, y \in lines \ b : x.revenue >= y.revenue }
    BY DEF TopProducts
  <2>2. limit = 10
    OBVIOUS
  <2> HIDE DEF lines, limit
  <2> QED BY <2>1, <2>2
<1>13. TopProducts(10) # {}
  <2> PICK n : n = IF Cardinality(lines) < 10 THEN Cardinality(lines) ELSE 10
    OBVIOUS
  <2>1. n \in Nat /\ n <= Cardinality(lines)
    <3> HIDE DEF lines
    <3> QED BY <1>10, FS_CardinalityType
  <2>2. PICK b \in SUBSET lines :
          Cardinality(b) = n /\ \A x \in b, y \in lines \ b : h[x] >= h[y]
    <3> HIDE DEF lines, h
    <3> QED BY <1>11, <2>1, BestExist
  <2>3. \A x \in b, y \in lines \ b : x.revenue >= y.revenue
    <3>1. \A x \in lines : h[x] = x.revenue
      OBVIOUS
    <3> HIDE DEF lines, h
    <3> QED BY <2>2, <3>1
  <2> HIDE DEF lines, h
  <2> QED BY <1>12, <2>2, <2>3
<1> SUFFICES ASSUME NEW best \in TopProducts(10)
             PROVE  LET sold == SumFunction([ x \in best |-> x.revenue ])
                    IN  /\ sold <= SumFunctionOnSet(h, lines)
                        /\ Cardinality(best) < 10 => sold = SumFunctionOnSet(h, lines)
  BY <1>6, <1>11, <1>13
<1>14. /\ best \in SUBSET lines
       /\ Cardinality(best) = IF Cardinality(lines) < 10 THEN Cardinality(lines) ELSE 10
  <2> HIDE DEF lines
  <2> QED BY <1>12
<1> DEFINE mine == [ x \in best |-> x.revenue ]
<1>15. SumFunction(mine) = SumFunctionOnSet(h, best)
  <2>1. Summable(h, best)
    <3> HIDE DEF lines, h
    <3> QED BY <1>11, <1>14, SummablePart
  <2>2. \A x \in best : h[x] = mine[x]
    BY <1>14
  <2>3. SumFunction(mine) = SumFunctionOnSet(mine, best)
    BY DEF SumFunction
  <2> HIDE DEF lines, h, mine
  <2> QED BY <2>1, <2>2, <2>3, SumSame
<1>16. SumFunctionOnSet(h, best) <= SumFunctionOnSet(h, lines)
  <2> HIDE DEF lines, h
  <2> QED BY <1>11, <1>14, SumPart
<1>17. ASSUME Cardinality(best) < 10  PROVE  best = lines
  <2> HIDE DEF lines
  <2>1. Cardinality(lines) \in Nat
    BY <1>10, FS_CardinalityType
  <2>2. Cardinality(best) = Cardinality(lines)
    BY <1>14, <1>17, <2>1
  <2> QED BY <1>10, <1>14, <2>2, FS_Subset
<1> HIDE DEF lines, h
<1> QED BY <1>15, <1>16, <1>17

(* Revenue is said to shrink when it did. *)
LEMMA GrowthSign ==
  ASSUME NEW c \in Nat, NEW p \in Nat
  PROVE  Growth(c, p) < 0 <=> c < p
<1>1. CASE p = 0
  BY <1>1 DEF Growth
<1>2. CASE p # 0
  <2> DEFINE q == ((c - p) * 100) \div p
  <2>1. q \in Int /\ (c - p) * 100 \in Int /\ p > 0
    BY <1>2
  <2>2. Growth(c, p) = q
    BY <1>2 DEF Growth
  <2>3. (c - p) * 100 < 0 <=> c < p
    OBVIOUS
  <2>4. q < 0 <=> (c - p) * 100 < 0
    <3> DEFINE a == (c - p) * 100
    <3>1. a \in Int
      OBVIOUS
    <3> HIDE DEF a
    <3>2. a \div p < 0 <=> a < 0
      BY <2>1, <3>1
    <3> QED BY <3>2 DEF a
  <2> HIDE DEF q
  <2> QED BY <2>2, <2>3, <2>4
<1> QED BY <1>1, <1>2

(* The customers page calls inactive those who paid nothing. *)
LEMMA InactivePaidNothing ==
  ASSUME NEW u \in Accounts
  PROVE  /\ CustomerStats.status[u] = "inactive" => CustomerStats.spent[u] = 0
         /\ CustomerStats.spent[u] = 0 /\ (\A o \in Spent : Total[o] > 0)
              => CustomerStats.status[u] = "inactive"
<1> DEFINE mine == { o \in Spent : Buyer[o] = u }
<1>1. mine \in SUBSET Orders /\ IsFiniteSet(mine)
  BY AnalyticsAssumption, FS_Subset DEF Spent, Placed
<1>2. Cardinality(mine) \in Nat /\ (Cardinality(mine) = 0 <=> mine = {})
  BY <1>1, FS_CardinalityType, FS_EmptySet
<1>3. CustomerStats.spent[u] = Revenue(mine)
  BY DEF CustomerStats
<1>4. CustomerStats.status[u] = "inactive" <=> Cardinality(mine) = 0
  <2>1. CustomerStats.status[u] = CustomerStatus(u)
    BY DEF CustomerStats
  <2>2. CustomerStatus(u) = IF Cardinality(mine) >= 10 THEN "vip"
                            ELSE IF Cardinality(mine) > 0 THEN "active" ELSE "inactive"
    BY DEF CustomerStatus
  <2> HIDE DEF mine
  <2> QED BY <1>2, <2>1, <2>2
<1>5. Revenue({}) = 0
  BY SumEmpty DEF Revenue
<1>6. ASSUME Revenue(mine) = 0, \A o \in Spent : Total[o] > 0  PROVE  mine = {}
  <2>1. \A o \in mine : Total[o] = 0
    <3> HIDE DEF mine
    <3> QED BY <1>1, <1>6, TotalsSummable, SumZero DEF Revenue
  <2>2. \A o \in mine : Total[o] > 0 /\ Total[o] \in Nat
    BY <1>1, <1>6, AnalyticsAssumption
  <2> QED BY <2>1, <2>2
<1> HIDE DEF mine
<1> QED BY <1>2, <1>3, <1>4, <1>5, <1>6

(* Where revenue counts what is kept, the reports add up. *)
LEMMA KeptAddsUp ==
  ASSUME RevenueIsKept
  PROVE  ReportsAddUp
<1>1. GrowthComparison.revenue < 0 <=> EarnedIn(CurrentRange) < EarnedIn(PreviousRange)
  <2> DEFINE c == Overview(CurrentRange).revenue
             p == Overview(PreviousRange).revenue
  <2>1. c \in Nat /\ p \in Nat
    <3>1. c = Revenue(Settled(CurrentRange)) /\ p = Revenue(Settled(PreviousRange))
      BY DEF Overview
    <3> QED BY <3>1, SettledAreOrders, TotalsSummable
  <2>2. GrowthComparison.revenue = Growth(c, p)
    BY DEF GrowthComparison
  <2>3. c = EarnedIn(CurrentRange) /\ p = EarnedIn(PreviousRange)
    BY RevenueIsKept DEF RevenueIsKept
  <2> HIDE DEF c, p
  <2> QED BY <2>1, <2>2, <2>3, GrowthSign
<1>2. /\ TopProducts(10) # {}
      /\ \A best \in TopProducts(10) :
           LET sold == SumFunction([ x \in best |-> x.revenue ])
           IN  /\ sold <= TotalOf(CategorySales, "sales")
               /\ Cardinality(best) < 10 => sold = TotalOf(CategorySales, "sales")
  BY ProductsAddUp, CategoriesAddUp
<1>3. \A u \in Accounts :
        /\ CustomerStats.status[u] = "inactive" => CustomerStats.spent[u] = 0
        /\ CustomerStats.spent[u] = 0 /\ (\A o \in Spent : Total[o] > 0)
             => CustomerStats.status[u] = "inactive"
  BY InactivePaidNothing
<1>4. ASSUME NEW f \in { "revenue", "orders" }
      PROVE  /\ TotalOf(SalesData, f) = Overview(CurrentRange)[f]
             /\ TotalOf(RegionSales, f) = Overview(CurrentRange)[f]
  <2>1. CASE f = "revenue"
    BY <2>1, TablesAddUp
  <2>2. CASE f = "orders"
    BY <2>2, TablesAddUp
  <2> QED BY <2>1, <2>2
<1> QED BY <1>1, <1>2, <1>3, <1>4, TablesAddUp DEF ReportsAddUp

(* In any calm behaviour, while requests are under way as well: the revenue in
   the analytics of the current and the previous period is the money that
   settlement let the store keep, counted once and in one of them; the customers
   page adds what is to be refunded; and the charts, the tables, the growth and
   the customers' standing agree with it, for any orders, rows, totals, prices,
   products and categories. *)
THEOREM RevenueCountsWhatIsKept == CalmSpec => [](RevenueIsEarned /\ ReportsAddUp)
<1>1. ASSUME Shape, VerdictMatchesOrder, CompletedIsSettled
      PROVE  RevenueIsEarned /\ ReportsAddUp
  BY <1>1, RevenueKept, KeptAddsUp DEF RevenueIsEarned
<1>2. Init /\ [][CalmNext]_vars => Init /\ [][Next]_vars
  <2>1. [CalmNext]_vars => [Next]_vars
    BY DEF CalmNext, Next
  <2> QED BY <2>1, PTL
<1>3. CalmSpec => []Shape
  <2>1. CalmInv => Shape
    BY DEF CalmInv
  <2> QED BY <2>1, CalmInit, CalmStep, PTL DEF CalmSpec
<1>4. CalmSpec => []CompletedIsSettled
  BY <1>2, PaymentsAreSettled, PTL DEF CalmSpec, Spec
<1>5. CalmSpec => []VerdictMatchesOrder
  BY VerdictsHold
<1> QED BY <1>1, <1>3, <1>4, <1>5, PTL
=============================================================================
