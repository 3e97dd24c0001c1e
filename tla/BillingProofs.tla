---------------------------- MODULE BillingProofs ---------------------------
(***************************************************************************)
(* Proofs about Billing, for any number of requests, invoices, payments,   *)
(* deliveries, stops and errors: its types; that one payment of a kind is  *)
(* waited for and one invoice paid; that a paid fee stays paid; and, where *)
(* nothing is decided on what has changed, that a paid invoice has what    *)
(* paid it and that the account's credit is conserved.                     *)
(***************************************************************************)
EXTENDS Billing, SequenceTheorems, FiniteSetTheorems, TLAPS

Asking    == { "find", "claim", "push", "store", "unpay", "close" }
Reviewing == { "verdict", "settled", "reopen" }
Marking   == { "invoice", "credits", "apply", "fee", "activate" }
Results   == { "COMPLETED", "FAILED" }

(* What a request in progress has, for its next statement to make sense *)
RequestHolds(k) ==
  LET c == call[k] p == pay[On(k)] IN
  /\ c.on = 0 <=> c.pc \in { "idle", "reserve" }
  /\ c.pc = "reserve" => c.kind \in Kinds /\ c.by \in {Manual, Prompts}
  /\ c.pc \in Asking => c.via = "checkout" /\ p.by = Prompts
  /\ c.pc = "store" => c.want \in {"PENDING", "FAILED"}
  /\ c.pc \in {"unpay", "close"} => c.want = "FAILED"
  /\ c.pc = "update" => c.via = "callback" /\ p.by = Prompts /\ p.ref /\ c.want \in Results
  /\ c.pc \in Reviewing => c.via = "review" /\ p.by = Manual /\ p.ref /\ c.want \in Results
  /\ c.pc \in {"settled", "reopen"} => c.want = "COMPLETED"
  /\ c.pc \in Marking =>
       /\ c.want \in Results
       /\ \/ c.via = "callback" /\ p.by = Prompts
          \/ c.via = "review" /\ p.by = Manual /\ p.ref
          \/ c.via = "checkout" /\ p.by = IF c.want = "FAILED" THEN Prompts ELSE Credited
  /\ c.pc \in {"fee", "reopen"} => Kind(k) = "SETUP_FEE"

Requests == \A k \in Calls : RequestHolds(k)

(* Every invoice has a payment, so that it has a last one *)
LastOf(p, i) == pay[p].inv = i /\ \A q \in DOMAIN pay : pay[q].inv = i => q <= p

Billed == \A i \in DOMAIN inv : \E p \in DOMAIN pay : LastOf(p, i)

Typed ==
  /\ AccountOK /\ inv \in Seq(InvoiceRow) /\ PaymentsOK /\ OutsideOK
  /\ call \in [Calls -> CallState] /\ BoundsOK
  /\ Requests /\ Billed
-----------------------------------------------------------------------------
(* Sequences, read as functions *)

LEMMA Written ==
  ASSUME NEW S, NEW s \in Seq(S), NEW i \in DOMAIN s, NEW e \in S
  PROVE  /\ [s EXCEPT ![i] = e] \in Seq(S)
         /\ Len([s EXCEPT ![i] = e]) = Len(s)
         /\ DOMAIN [s EXCEPT ![i] = e] = DOMAIN s
         /\ [s EXCEPT ![i] = e][i] = e
         /\ \A j \in DOMAIN s : j # i => [s EXCEPT ![i] = e][j] = s[j]
BY ExceptSeq, LenProperties

LEMMA Appended ==
  ASSUME NEW S, NEW s \in Seq(S), NEW e \in S
  PROVE  /\ Append(s, e) \in Seq(S)
         /\ Len(Append(s, e)) = Len(s) + 1
         /\ DOMAIN Append(s, e) = DOMAIN s \cup {Len(s) + 1}
         /\ Len(s) + 1 \notin DOMAIN s
         /\ Append(s, e)[Len(s) + 1] = e
         /\ \A j \in DOMAIN s : Append(s, e)[j] = s[j]
<1>1. /\ Append(s, e) \in Seq(S) /\ Len(Append(s, e)) = Len(s) + 1
      /\ Append(s, e)[Len(s) + 1] = e
      /\ \A j \in 1 .. Len(s) : Append(s, e)[j] = s[j]
  BY AppendProperties
<1>2. /\ Len(s) \in Nat /\ DOMAIN s = 1 .. Len(s)
      /\ DOMAIN Append(s, e) = 1 .. Len(Append(s, e))
  BY <1>1, LenProperties
<1> QED BY <1>1, <1>2

(* What the types say of the rows *)
LEMMA Rows ==
  ASSUME Typed
  PROVE  /\ Len(inv) \in Nat /\ DOMAIN inv = 1 .. Len(inv)
         /\ Len(pay) \in Nat /\ DOMAIN pay = 1 .. Len(pay)
         /\ DOMAIN answer = DOMAIN pay /\ DOMAIN sent = DOMAIN pay
         /\ \A i \in DOMAIN inv : inv[i] \in InvoiceRow
         /\ \A p \in DOMAIN pay : /\ pay[p] \in PaymentRow
                                  /\ answer[p] \in {"none", "asked", "COMPLETED", "FAILED"}
                                  /\ sent[p] \in 0 .. MaxDeliveries
                                  /\ pay[p].inv \in DOMAIN inv
         /\ \A k \in Calls : call[k] \in CallState
<1>1. /\ inv \in Seq(InvoiceRow) /\ pay \in Seq(PaymentRow)
      /\ answer \in Seq({"none", "asked", "COMPLETED", "FAILED"}) /\ Len(answer) = Len(pay)
      /\ sent \in Seq(0 .. MaxDeliveries) /\ Len(sent) = Len(pay)
      /\ call \in [Calls -> CallState]
  BY DEF Typed, PaymentsOK, OutsideOK
<1>2. /\ Len(inv) \in Nat /\ DOMAIN inv = 1 .. Len(inv) /\ inv \in [1 .. Len(inv) -> InvoiceRow]
      /\ Len(pay) \in Nat /\ DOMAIN pay = 1 .. Len(pay) /\ pay \in [1 .. Len(pay) -> PaymentRow]
  BY <1>1, LenProperties
<1>3. /\ DOMAIN answer = 1 .. Len(pay)
      /\ answer \in [1 .. Len(pay) -> {"none", "asked", "COMPLETED", "FAILED"}]
      /\ DOMAIN sent = 1 .. Len(pay) /\ sent \in [1 .. Len(pay) -> 0 .. MaxDeliveries]
  BY <1>1, LenProperties
<1>4. \A p \in DOMAIN pay : pay[p] \in PaymentRow
  BY <1>2
<1>5. \A p \in DOMAIN pay : pay[p].inv \in DOMAIN inv
  BY <1>2, <1>4 DEF PaymentRow
<1> QED BY <1>1, <1>2, <1>3, <1>4, <1>5

(* A request that is beyond its reservation is about a payment *)
LEMMA OnPayment ==
  ASSUME Typed, NEW k \in Calls, call[k].pc \notin { "idle", "reserve" }
  PROVE  /\ On(k) \in DOMAIN pay /\ Invoice(k) \in DOMAIN inv /\ Kind(k) \in Kinds
         /\ pay[On(k)] \in PaymentRow /\ inv[Invoice(k)] \in InvoiceRow
<1>1. call[k] \in CallState /\ RequestHolds(k)
  BY Rows DEF Typed, Requests
<1>2. On(k) \in DOMAIN pay
  BY <1>1, Rows DEF RequestHolds, CallState, On
<1> QED BY <1>2, Rows DEF Invoice, Kind, InvoiceRow

(* The payment that is used again exists *)
LEMMA LatestExists ==
  ASSUME Typed, NEW i \in DOMAIN inv
  PROVE  Latest(i) \in DOMAIN pay /\ LastOf(Latest(i), i)
BY DEF Typed, Billed, LastOf, Latest
-----------------------------------------------------------------------------
(* The books: invoices and payments, which grow and keep what they are about *)
Books == inv \in Seq(InvoiceRow) /\ PaymentsOK /\ OutsideOK /\ Billed

Grown ==
  /\ Len(inv) <= Len(inv') /\ \A i \in DOMAIN inv : i \in DOMAIN inv' /\ inv'[i].kind = inv[i].kind
  /\ Len(pay) <= Len(pay')
  /\ \A p \in DOMAIN pay :
       /\ p \in DOMAIN pay'
       /\ pay'[p].inv = pay[p].inv /\ pay'[p].by = pay[p].by
       /\ pay[p].ref => pay'[p].ref

LEMMA BooksStay ==
  ASSUME Typed, UNCHANGED << inv, pay >>, OutsideOK'
  PROVE  Books' /\ Grown
<1>1. Len(inv) \in Nat /\ Len(pay) \in Nat
  BY Rows
<1>2. InvoiceRow' = InvoiceRow /\ PaymentRow' = PaymentRow
  BY DEF InvoiceRow, PaymentRow
<1> QED BY <1>1, <1>2 DEF Typed, Books, Grown, Billed, LastOf, PaymentsOK

LEMMA PaymentWritten ==
  ASSUME Typed, NEW p \in DOMAIN pay, NEW r \in PaymentRow,
         r.inv = pay[p].inv, r.by = pay[p].by, pay[p].ref => r.ref,
         pay' = [pay EXCEPT ![p] = r], inv' = inv, OutsideOK'
  PROVE  /\ Books' /\ Grown
         /\ DOMAIN pay' = DOMAIN pay /\ Len(pay') = Len(pay) /\ pay'[p] = r
         /\ \A q \in DOMAIN pay : q # p => pay'[q] = pay[q]
<1>1. /\ pay' \in Seq(PaymentRow) /\ Len(pay') = Len(pay) /\ DOMAIN pay' = DOMAIN pay
      /\ pay'[p] = r /\ \A q \in DOMAIN pay : q # p => pay'[q] = pay[q]
  BY Written DEF Typed, PaymentsOK
<1>2. InvoiceRow' = InvoiceRow /\ PaymentRow' = PaymentRow
  BY DEF InvoiceRow, PaymentRow
<1>3. Len(inv) \in Nat /\ Len(pay) \in Nat
  BY Rows
<1>4. \A q \in DOMAIN pay : /\ pay'[q].inv = pay[q].inv /\ pay'[q].by = pay[q].by
                            /\ pay[q].ref => pay'[q].ref
  BY <1>1
<1>5. Billed'
  BY <1>1, <1>4 DEF Typed, Billed, LastOf
<1> QED BY <1>1, <1>2, <1>3, <1>4, <1>5 DEF Typed, Books, Grown, PaymentsOK

LEMMA InvoiceWritten ==
  ASSUME Typed, NEW i \in DOMAIN inv, NEW r \in InvoiceRow, r.kind = inv[i].kind,
         inv' = [inv EXCEPT ![i] = r], pay' = pay, OutsideOK'
  PROVE  /\ Books' /\ Grown
         /\ DOMAIN inv' = DOMAIN inv /\ inv'[i] = r
         /\ \A j \in DOMAIN inv : j # i => inv'[j] = inv[j]
<1>1. /\ inv' \in Seq(InvoiceRow) /\ Len(inv') = Len(inv) /\ DOMAIN inv' = DOMAIN inv
      /\ inv'[i] = r /\ \A j \in DOMAIN inv : j # i => inv'[j] = inv[j]
  BY Written DEF Typed
<1>2. InvoiceRow' = InvoiceRow /\ PaymentRow' = PaymentRow
  BY <1>1 DEF InvoiceRow, PaymentRow
<1>3. Len(inv) \in Nat /\ Len(pay) \in Nat
  BY Rows
<1>4. Billed'
  BY <1>1 DEF Typed, Billed, LastOf
<1> QED BY <1>1, <1>2, <1>3, <1>4 DEF Typed, Books, Grown, PaymentsOK

OnlyCall(k) == \A j \in Calls : j # k => call'[j] = call[j]

LEMMA CallWritten ==
  ASSUME Typed, Grown, NEW k \in Calls, NEW c \in CallState',
         Len(pay) \in Nat, Len(pay') \in Nat,
         call' = [call EXCEPT ![k] = c]
  PROVE  call' \in [Calls -> CallState'] /\ OnlyCall(k) /\ call'[k] = c
<1>1. \A d \in CallState : d \in CallState'
  BY DEF CallState, Grown
<1> QED BY <1>1 DEF Typed, OnlyCall

(* What the others hold, they still hold when the books have grown *)
LEMMA Assembled ==
  ASSUME Typed, AccountOK', BoundsOK', Books', Grown, NEW k \in Calls,
         call' \in [Calls -> CallState'], OnlyCall(k), RequestHolds(k)'
  PROVE  Typed'
<1>1. ASSUME NEW j \in Calls, j # k  PROVE  RequestHolds(j)'
  <2>1. call'[j] = call[j] /\ RequestHolds(j) /\ call[j] \in CallState
    BY <1>1, Rows DEF OnlyCall, Typed, Requests
  <2>2. CASE call[j].pc \in {"idle", "reserve"}
    BY <2>1, <2>2 DEF RequestHolds, Asking, Reviewing, Marking
  <2>3. CASE call[j].pc \notin {"idle", "reserve"}
    <3>1. /\ On(j)' = On(j) /\ Kind(j)' = Kind(j) /\ On(j) \in DOMAIN pay
          /\ pay'[On(j)].by = pay[On(j)].by /\ (pay[On(j)].ref => pay'[On(j)].ref)
      BY <2>1, <2>3, OnPayment DEF Grown, On, Kind, Invoice
    <3> QED BY <2>1, <3>1, <2>3 DEF RequestHolds
  <2> QED BY <2>2, <2>3
<1> QED BY <1>1 DEF Typed, Books, Requests
-----------------------------------------------------------------------------
(* Where a request goes: its statement, its payment, what it wants and for whom *)
Becomes(k, pc, on, want, via) ==
  /\ call' \in [Calls -> CallState'] /\ OnlyCall(k)
  /\ call'[k].pc = pc /\ call'[k].on = on
  /\ call'[k].want = want /\ call'[k].via = via

LEMMA IdleTyped == Len(pay) \in Nat => Idle \in CallState
BY DEF Idle, CallState, CallPC, Kinds, Live

LEMMA Lengths ==
  ASSUME Typed, Books'
  PROVE  /\ Len(pay) \in Nat /\ Len(pay') \in Nat
         /\ DOMAIN pay' = 1 .. Len(pay') /\ DOMAIN inv' = 1 .. Len(inv')
         /\ \A p \in DOMAIN pay' : pay'[p] \in PaymentRow'
         /\ \A i \in DOMAIN inv' : inv'[i] \in InvoiceRow
<1>1. /\ pay' \in Seq(PaymentRow') /\ inv' \in Seq(InvoiceRow)
  BY DEF Books, PaymentsOK, InvoiceRow
<1>2. /\ Len(pay') \in Nat /\ DOMAIN pay' = 1 .. Len(pay') /\ pay' \in [1 .. Len(pay') -> PaymentRow']
      /\ Len(inv') \in Nat /\ DOMAIN inv' = 1 .. Len(inv') /\ inv' \in [1 .. Len(inv') -> InvoiceRow]
  BY <1>1, LenProperties
<1> QED BY <1>2, Rows

LEMMA Goes1 ==
  ASSUME Typed, Books', Grown, NEW k \in Calls, NEW pc \in CallPC, Goes(k, pc)
  PROVE  Becomes(k, pc, On(k), call[k].want, call[k].via) /\ call'[k].seen = call[k].seen
<1> DEFINE c == [call[k] EXCEPT !.pc = pc]
<1>1. call' = [call EXCEPT ![k] = c]
  BY DEF Goes
<1>2. call[k] \in CallState
  BY Rows
<1>3. c \in CallState' /\ c.pc = pc /\ c.on = On(k) /\ c.want = call[k].want
      /\ c.via = call[k].via /\ c.seen = call[k].seen
  BY <1>2, Lengths DEF CallState, Grown, On
<1>4. call' \in [Calls -> CallState'] /\ OnlyCall(k) /\ call'[k] = c
  BY <1>1, <1>3, CallWritten, Lengths
<1> QED BY <1>3, <1>4 DEF Becomes

LEMMA Ends1 ==
  ASSUME Typed, Books', Grown, NEW k \in Calls, Ends(k)
  PROVE  /\ Becomes(k, "idle", 0, "none", "none") /\ call'[k] = Idle
         /\ RequestHolds(k)'
<1>1. Idle \in CallState'
  BY Lengths DEF Idle, CallState, CallPC, Kinds, Live
<1>2. call' \in [Calls -> CallState'] /\ OnlyCall(k) /\ call'[k] = Idle
  BY <1>1, CallWritten, Lengths DEF Ends
<1>3. Idle.pc = "idle" /\ Idle.on = 0 /\ Idle.want = "none" /\ Idle.via = "none"
  BY DEF Idle
<1> QED BY <1>2, <1>3 DEF Becomes, RequestHolds, Asking, Reviewing, Marking

LEMMA GivesUp1 ==
  ASSUME Typed, Books', Grown, NEW k \in Calls, NEW s, GivesUp(k, s)
  PROVE  \E pc \in {"credits", "unpay"} : /\ Becomes(k, pc, On(k), "FAILED", call[k].via)
                                          /\ (s = "thrown" => pc = "unpay")
<1> DEFINE pc == IF Kind(k) = "RENEWAL" /\ s # "thrown" THEN "credits" ELSE "unpay"
           c == [call[k] EXCEPT !.want = "FAILED", !.pc = pc]
<1>1. call' = [call EXCEPT ![k] = c]
  BY DEF GivesUp
<1>2. call[k] \in CallState /\ pc \in {"credits", "unpay"} /\ (s = "thrown" => pc = "unpay")
  BY Rows
<1> HIDE DEF pc
<1>3. call[k] \in CallState' /\ pc \in CallPC
  BY <1>2, Lengths DEF CallState, Grown, CallPC
<1>4. c \in CallState' /\ c.pc = pc /\ c.on = On(k) /\ c.want = "FAILED" /\ c.via = call[k].via
  BY <1>3 DEF CallState, On
<1>5. call' \in [Calls -> CallState'] /\ OnlyCall(k) /\ call'[k] = c
  BY <1>1, <1>4, CallWritten, Lengths
<1> QED BY <1>2, <1>4, <1>5 DEF Becomes

(* A new request that is about a payment *)
LEMMA Takes1 ==
  ASSUME Typed, Books', Grown, NEW k \in Calls, NEW p \in DOMAIN pay, NEW pc \in CallPC,
         NEW want \in Results, NEW via \in {"callback", "review"},
         call' = [call EXCEPT ![k] =
           [ Idle EXCEPT !.pc = pc, !.on = p, !.want = want, !.via = via ]]
  PROVE  Becomes(k, pc, p, want, via)
<1> DEFINE c == [ Idle EXCEPT !.pc = pc, !.on = p, !.want = want, !.via = via ]
<1>1. Idle \in CallState' /\ p \in 0 .. Len(pay')
  BY Lengths DEF Idle, CallState, CallPC, Kinds, Live, Grown
<1>2. c \in CallState' /\ c.pc = pc /\ c.on = p /\ c.want = want /\ c.via = via
  BY <1>1 DEF CallState, Results
<1>3. call' \in [Calls -> CallState'] /\ OnlyCall(k) /\ call'[k] = c
  BY <1>2, CallWritten, Lengths
<1> QED BY <1>2, <1>3 DEF Becomes
-----------------------------------------------------------------------------
(* What the operations do, row by row *)

(* One payment is written *)
Sets(p, status, ref, review) ==
  /\ DOMAIN pay' = DOMAIN pay
  /\ pay'[p].inv = pay[p].inv /\ pay'[p].by = pay[p].by
  /\ pay'[p].status = status /\ pay'[p].ref = ref /\ pay'[p].review = review
  /\ \A q \in DOMAIN pay : q # p => pay'[q] = pay[q]

(* One invoice is written *)
Bills(i, status, app) ==
  /\ DOMAIN inv' = DOMAIN inv
  /\ inv'[i].kind = inv[i].kind /\ inv'[i].reserved = inv[i].reserved
  /\ inv'[i].status = status /\ inv'[i].app = app
  /\ \A j \in DOMAIN inv : j # i => inv'[j] = inv[j]

LEMMA OutsideStays ==
  ASSUME Typed, UNCHANGED answer, UNCHANGED sent, Len(pay') = Len(pay)
  PROVE  OutsideOK'
BY DEF Typed, OutsideOK

LEMMA BoundsStay ==
  ASSUME Typed, UNCHANGED bounds
  PROVE  BoundsOK'
BY DEF Typed, BoundsOK, bounds

LEMMA AccountStays ==
  ASSUME Typed, UNCHANGED << account, credit >>
  PROVE  AccountOK'
BY DEF Typed, AccountOK, account

LEMMA StartDoes ==
  ASSUME Typed, NEW k \in Calls, Start(k)
  PROVE  Typed' /\ OnlyCall(k) /\ call'[k].on = 0 /\ call'[k].pc = "reserve"
<1>1. Books' /\ Grown
  <2>1. OutsideOK'
    BY OutsideStays DEF Start, outside
  <2> QED BY <2>1, BooksStay DEF Start
<1>2. PICK kind \in Kinds, by \in {Manual, Prompts} :
        call' = [call EXCEPT ![k] = [ Idle EXCEPT !.pc = "reserve", !.kind = kind, !.by = by ]]
  BY DEF Start
<1> DEFINE c == [ Idle EXCEPT !.pc = "reserve", !.kind = kind, !.by = by ]
<1>3. Idle \in CallState' /\ "reserve" \in CallPC /\ Idle.on = 0
  BY <1>1, Lengths DEF Idle, CallState, CallPC, Kinds, Live
<1>4. c \in CallState' /\ c.pc = "reserve" /\ c.on = 0 /\ c.kind = kind /\ c.by = by
  BY <1>3 DEF CallState
<1>5. call' \in [Calls -> CallState'] /\ OnlyCall(k) /\ call'[k] = c
  BY <1>1, <1>2, <1>4, CallWritten, Lengths
<1>6. RequestHolds(k)'
  BY <1>4, <1>5 DEF RequestHolds, Asking, Reviewing, Marking
<1>7. AccountOK' /\ BoundsOK'
  BY AccountStays, BoundsStay DEF Start
<1> QED BY <1>1, <1>4, <1>5, <1>6, <1>7, Assembled

LEMMA FindDoes ==
  ASSUME Typed, NEW k \in Calls, Find(k)
  PROVE  /\ Typed' /\ OnlyCall(k) /\ On(k) \in DOMAIN pay
         /\ \/ /\ ~pay[On(k)].ref
               /\ call'[k].pc = "claim" /\ call'[k].on = On(k)
               /\ call'[k].seen = pay[On(k)].status
            \/ /\ pay[On(k)].ref /\ pay[On(k)].status = "FAILED"
               /\ \E pc \in {"credits", "unpay"} : Becomes(k, pc, On(k), "FAILED", "checkout")
            \/ call'[k] = Idle
<1>1. /\ On(k) \in DOMAIN pay /\ pay[On(k)] \in PaymentRow /\ call[k] \in CallState
      /\ call[k].via = "checkout" /\ pay[On(k)].by = Prompts
  BY OnPayment, Rows DEF Find, At, Typed, Requests, RequestHolds, Asking
<1>2. Books' /\ Grown
  <2>1. OutsideOK'
    BY OutsideStays DEF Find, outside
  <2> QED BY <2>1, BooksStay DEF Find
<1>3. AccountOK' /\ BoundsOK'
  BY AccountStays, BoundsStay DEF Find
<1>4. pay' = pay
  BY DEF Find
<1>5. CASE ~pay[On(k)].ref
  <2> DEFINE c == [call[k] EXCEPT !.pc = "claim", !.seen = pay[On(k)].status]
  <2>1. call' = [call EXCEPT ![k] = c]
    BY <1>5 DEF Find
  <2>2. call[k] \in CallState' /\ "claim" \in CallPC /\ pay[On(k)].status \in Live \cup Results
    BY <1>1, <1>4 DEF CallState, CallPC, PaymentRow, Results
  <2>3. c \in CallState' /\ c.pc = "claim" /\ c.on = On(k) /\ c.via = "checkout"
        /\ c.seen = pay[On(k)].status
    BY <1>1, <2>2 DEF CallState, On, Results
  <2>4. call' \in [Calls -> CallState'] /\ OnlyCall(k) /\ call'[k] = c
    BY <1>2, <2>1, <2>3, CallWritten, Lengths
  <2>5. RequestHolds(k)'
    BY <1>1, <1>4, <2>3, <2>4, Rows DEF RequestHolds, Asking, Reviewing, Marking, On
  <2> QED BY <1>1, <1>2, <1>3, <1>5, <2>3, <2>4, <2>5, Assembled
<1>6. CASE pay[On(k)].ref /\ pay[On(k)].status = "FAILED"
  <2>1. PICK pc \in {"credits", "unpay"} : Becomes(k, pc, On(k), "FAILED", "checkout")
    BY <1>1, <1>2, <1>6, GivesUp1 DEF Find
  <2>2. RequestHolds(k)'
    BY <1>1, <1>4, <2>1, Rows DEF RequestHolds, Asking, Reviewing, Marking, On, Becomes, Results
  <2> QED BY <1>1, <1>2, <1>3, <1>6, <2>1, <2>2, Assembled DEF Becomes
<1>7. CASE pay[On(k)].ref /\ pay[On(k)].status # "FAILED"
  <2>1. call'[k] = Idle /\ RequestHolds(k)' /\ OnlyCall(k) /\ call' \in [Calls -> CallState']
    BY <1>2, <1>7, Ends1 DEF Find, Becomes
  <2> QED BY <1>1, <1>2, <1>3, <2>1, Assembled
<1> QED BY <1>5, <1>6, <1>7
LEMMA RowWritten ==
  ASSUME Typed, NEW p \in DOMAIN pay, NEW r \in PaymentRow,
         r.inv = pay[p].inv, r.by = pay[p].by, pay[p].ref => r.ref,
         pay' = [pay EXCEPT ![p] = r], inv' = inv, UNCHANGED outside
  PROVE  /\ Books' /\ Grown
         /\ Sets(p, r.status, r.ref, r.review) /\ pay'[p] = r
<1>1. Len(pay') = Len(pay)
  BY Written DEF Typed, PaymentsOK
<1>2. OutsideOK'
  BY <1>1, OutsideStays DEF outside
<1> QED BY <1>2, PaymentWritten DEF Sets

LEMMA StatusWritten ==
  ASSUME Typed, NEW p \in DOMAIN pay, NEW s \in Live \cup Results,
         Status(p, s), inv' = inv, UNCHANGED outside
  PROVE  Books' /\ Grown /\ Sets(p, s, pay[p].ref, pay[p].review)
<1> DEFINE r == [pay[p] EXCEPT !.status = s]
<1>1. pay[p] \in PaymentRow /\ pay' = [pay EXCEPT ![p] = r]
  BY Rows DEF Status
<1>2. r \in PaymentRow /\ r.inv = pay[p].inv /\ r.by = pay[p].by /\ r.status = s
      /\ r.ref = pay[p].ref /\ r.review = pay[p].review
  BY <1>1 DEF PaymentRow, Results
<1> HIDE DEF r
<1>3. Books' /\ Grown /\ Sets(p, r.status, r.ref, r.review)
  BY <1>1, <1>2, RowWritten
<1> QED BY <1>2, <1>3

(* A request that is about a prompt, at its caller *)
LEMMA AtCaller ==
  ASSUME Typed, NEW k \in Calls, call[k].pc \in Asking
  PROVE  /\ On(k) \in DOMAIN pay /\ pay[On(k)] \in PaymentRow /\ call[k] \in CallState
         /\ call[k].via = "checkout" /\ pay[On(k)].by = Prompts
         /\ Invoice(k) \in DOMAIN inv /\ Kind(k) \in Kinds
BY OnPayment, Rows DEF Typed, Requests, RequestHolds, Asking

(* After a refusal it gives up *)
LEMMA GivesUpHolds ==
  ASSUME Typed, Books', Grown, NEW k \in Calls, call[k].pc \in Asking, NEW s, GivesUp(k, s)
  PROVE  /\ RequestHolds(k)' /\ OnlyCall(k) /\ call' \in [Calls -> CallState']
         /\ \E pc \in {"credits", "unpay"} : /\ Becomes(k, pc, On(k), "FAILED", "checkout")
                                             /\ (s = "thrown" => pc = "unpay")
<1>1. PICK pc \in {"credits", "unpay"} : /\ Becomes(k, pc, On(k), "FAILED", "checkout")
                                         /\ (s = "thrown" => pc = "unpay")
  BY AtCaller, GivesUp1
<1>2. RequestHolds(k)'
  BY <1>1, AtCaller, Rows DEF RequestHolds, Asking, Reviewing, Marking, On, Becomes, Results, Grown
<1> QED BY <1>1, <1>2 DEF Becomes

LEMMA ClaimDoes ==
  ASSUME Typed, NEW k \in Calls, Claim(k)
  PROVE  /\ Typed' /\ OnlyCall(k) /\ On(k) \in DOMAIN pay /\ pay[On(k)].by = Prompts
         /\ \/ /\ pay[On(k)].status = "PENDING" /\ ~pay[On(k)].ref
               /\ Sets(On(k), "PROCESSING", pay[On(k)].ref, pay[On(k)].review)
               /\ Becomes(k, "push", On(k), call[k].want, "checkout")
            \/ /\ pay' = pay /\ call[k].seen = "FAILED"
               /\ \E pc \in {"credits", "unpay"} : Becomes(k, pc, On(k), "FAILED", "checkout")
            \/ pay' = pay /\ call'[k] = Idle
<1>1. call[k].pc = "claim" /\ call[k].pc \in Asking
  BY DEF Claim, At, Asking
<1>2. AccountOK' /\ BoundsOK'
  BY AccountStays, BoundsStay DEF Claim
<1>3. CASE pay[On(k)].status = "PENDING" /\ ~pay[On(k)].ref
  <2>1. Books' /\ Grown /\ Sets(On(k), "PROCESSING", pay[On(k)].ref, pay[On(k)].review)
    BY <1>1, <1>3, AtCaller, StatusWritten DEF Claim, Live, Results
  <2>2. Becomes(k, "push", On(k), call[k].want, "checkout")
    BY <1>1, <1>3, <2>1, AtCaller, Goes1 DEF Claim, CallPC
  <2>3. RequestHolds(k)'
    BY <1>1, <2>1, <2>2, AtCaller, Rows DEF RequestHolds, Asking, Reviewing, Marking, On, Becomes, Grown
  <2> QED BY <1>1, <1>2, <1>3, <2>1, <2>2, <2>3, AtCaller, Assembled DEF Becomes
<1>4. CASE ~(pay[On(k)].status = "PENDING" /\ ~pay[On(k)].ref)
  <2>1. Books' /\ Grown /\ pay' = pay
    <3>1. OutsideOK'
      BY <1>4, OutsideStays DEF Claim, outside
    <3> QED BY <1>4, <3>1, BooksStay DEF Claim
  <2>2. CASE call[k].seen = "FAILED"
    BY <1>1, <1>2, <1>4, <2>1, <2>2, AtCaller, GivesUpHolds, Assembled DEF Claim
  <2>3. CASE call[k].seen # "FAILED"
    <3>1. call'[k] = Idle /\ RequestHolds(k)' /\ OnlyCall(k) /\ call' \in [Calls -> CallState']
      BY <1>4, <2>1, <2>3, Ends1 DEF Claim, Becomes
    <3> QED BY <1>1, <1>2, <2>1, <3>1, AtCaller, Assembled
  <2> QED BY <2>2, <2>3
<1> QED BY <1>3, <1>4

LEMMA PushDoes ==
  ASSUME Typed, NEW k \in Calls, Push(k)
  PROVE  /\ Typed' /\ OnlyCall(k) /\ On(k) \in DOMAIN pay /\ pay[On(k)].by = Prompts
         /\ \/ /\ answer'[On(k)] = "asked" /\ Becomes(k, "store", On(k), "PENDING", "checkout")
               /\ \A q \in DOMAIN pay : q # On(k) => answer'[q] = answer[q]
            \/ answer' = answer /\ Becomes(k, "store", On(k), "FAILED", "checkout")
            \/ answer' = answer /\ Becomes(k, "unpay", On(k), "FAILED", "checkout")
<1>1. call[k].pc = "push" /\ call[k].pc \in Asking
  BY DEF Push, At, Asking
<1>2. AccountOK' /\ BoundsOK'
  BY AccountStays, BoundsStay DEF Push
<1>3. pay' = pay /\ inv' = inv /\ sent' = sent
  BY DEF Push
<1>4. ASSUME NEW want \in {"PENDING", "FAILED"}, Books', Grown,
             call' = [call EXCEPT ![k].pc = "store", ![k].want = want]
      PROVE  Becomes(k, "store", On(k), want, "checkout") /\ RequestHolds(k)'
  <2> DEFINE c == [call[k] EXCEPT !.pc = "store", !.want = want]
  <2>1. call' = [call EXCEPT ![k] = c]
    BY <1>4
  <2>2. call[k] \in CallState' /\ "store" \in CallPC
    BY <1>1, <1>3, AtCaller DEF CallState, CallPC
  <2>3. c \in CallState' /\ c.pc = "store" /\ c.on = On(k) /\ c.want = want /\ c.via = "checkout"
    BY <1>1, <1>4, <2>2, AtCaller DEF CallState, On
  <2>4. call' \in [Calls -> CallState'] /\ OnlyCall(k) /\ call'[k] = c
    BY <1>4, <2>1, <2>3, CallWritten, Lengths
  <2>5. Becomes(k, "store", On(k), want, "checkout")
    BY <2>3, <2>4 DEF Becomes
  <2> HIDE DEF c
  <2>6. RequestHolds(k)'
    BY <1>1, <1>3, <1>4, <2>5, AtCaller, Rows
    DEF RequestHolds, Asking, Reviewing, Marking, On, Becomes
  <2> QED BY <2>5, <2>6
<1>5. CASE /\ answer' = [answer EXCEPT ![On(k)] = "asked"]
           /\ call' = [call EXCEPT ![k].pc = "store", ![k].want = "PENDING"]
  <2>1. /\ OutsideOK' /\ answer'[On(k)] = "asked"
        /\ \A q \in DOMAIN pay : q # On(k) => answer'[q] = answer[q]
    BY <1>1, <1>3, <1>5, Written, AtCaller, Rows DEF OutsideOK, Typed
  <2>2. Books' /\ Grown
    BY <1>3, <2>1, BooksStay
  <2>3. Becomes(k, "store", On(k), "PENDING", "checkout") /\ RequestHolds(k)'
    BY <1>4, <1>5, <2>2
  <2> QED BY <1>1, <1>2, <2>1, <2>2, <2>3, AtCaller, Assembled DEF Becomes
<1>6. CASE answer' = answer
  <2>1. Books' /\ Grown
    <3>1. OutsideOK'
      BY <1>3, <1>6, OutsideStays
    <3> QED BY <1>3, <3>1, BooksStay
  <2>2. CASE call' = [call EXCEPT ![k].pc = "store", ![k].want = "FAILED"]
    <3>1. Becomes(k, "store", On(k), "FAILED", "checkout") /\ RequestHolds(k)'
      BY <1>4, <2>1, <2>2
    <3> QED BY <1>1, <1>2, <1>6, <2>1, <3>1, AtCaller, Assembled DEF Becomes
  <2>3. CASE GivesUp(k, "thrown")
    <3>1. /\ RequestHolds(k)' /\ OnlyCall(k) /\ call' \in [Calls -> CallState']
          /\ Becomes(k, "unpay", On(k), "FAILED", "checkout")
      BY <1>1, <2>1, <2>3, GivesUpHolds
    <3> QED BY <1>1, <1>2, <1>6, <2>1, <3>1, AtCaller, Assembled
  <2>4. \/ call' = [call EXCEPT ![k].pc = "store", ![k].want = "FAILED"]
        \/ GivesUp(k, "thrown")
        \/ call' = [call EXCEPT ![k].pc = "store", ![k].want = "PENDING"]
           /\ answer' = [answer EXCEPT ![On(k)] = "asked"]
    BY DEF Push
  <2> QED BY <1>5, <2>2, <2>3, <2>4
<1> QED BY <1>5, <1>6 DEF Push

LEMMA StoreDoes ==
  ASSUME Typed, NEW k \in Calls, Store(k)
  PROVE  /\ Typed' /\ OnlyCall(k) /\ On(k) \in DOMAIN pay /\ pay[On(k)].by = Prompts
         /\ call[k].want \in {"PENDING", "FAILED"}
         /\ Sets(On(k), call[k].want, TRUE, pay[On(k)].review)
         /\ IF call[k].want = "FAILED"
            THEN \E pc \in {"credits", "unpay"} : Becomes(k, pc, On(k), "FAILED", "checkout")
            ELSE call'[k] = Idle
<1> DEFINE r == [pay[On(k)] EXCEPT !.status = call[k].want, !.ref = TRUE]
<1>1. call[k].pc = "store" /\ call[k].pc \in Asking
  BY DEF Store, At, Asking
<1>2. call[k].want \in {"PENDING", "FAILED"}
  BY <1>1 DEF Typed, Requests, RequestHolds
<1>3. AccountOK' /\ BoundsOK'
  BY AccountStays, BoundsStay DEF Store
<1>4. /\ r \in PaymentRow /\ r.inv = pay[On(k)].inv /\ r.by = pay[On(k)].by
      /\ r.status = call[k].want /\ r.ref = TRUE /\ r.review = pay[On(k)].review
  BY <1>1, <1>2, AtCaller DEF PaymentRow, Live
<1>5. pay' = [pay EXCEPT ![On(k)] = r] /\ inv' = inv /\ UNCHANGED outside
  BY DEF Store
<1> HIDE DEF r
<1>6. Books' /\ Grown /\ Sets(On(k), call[k].want, TRUE, pay[On(k)].review)
  <2>1. Books' /\ Grown /\ Sets(On(k), r.status, r.ref, r.review)
    BY <1>1, <1>4, <1>5, AtCaller, RowWritten
  <2> QED BY <1>4, <2>1
<1>7. CASE call[k].want = "FAILED"
  BY <1>1, <1>2, <1>3, <1>6, <1>7, AtCaller, GivesUpHolds, Assembled DEF Store
<1>8. CASE call[k].want # "FAILED"
  <2>1. call'[k] = Idle /\ RequestHolds(k)' /\ OnlyCall(k) /\ call' \in [Calls -> CallState']
    BY <1>6, <1>8, Ends1 DEF Store, Becomes
  <2> QED BY <1>1, <1>2, <1>3, <1>6, <1>8, <2>1, AtCaller, Assembled
<1> QED BY <1>7, <1>8

LEMMA UnpayDoes ==
  ASSUME Typed, NEW k \in Calls, Unpay(k)
  PROVE  /\ Typed' /\ OnlyCall(k) /\ On(k) \in DOMAIN pay /\ pay[On(k)].by = Prompts
         /\ Sets(On(k), "FAILED", pay[On(k)].ref, pay[On(k)].review)
         /\ \E pc \in {"credits", "close"} : Becomes(k, pc, On(k), "FAILED", "checkout")
<1>1. call[k].pc = "unpay" /\ call[k].pc \in Asking
  BY DEF Unpay, At, Asking
<1>2. call[k].want = "FAILED"
  BY <1>1 DEF Typed, Requests, RequestHolds
<1>3. AccountOK' /\ BoundsOK'
  BY AccountStays, BoundsStay DEF Unpay
<1>4. Books' /\ Grown /\ Sets(On(k), "FAILED", pay[On(k)].ref, pay[On(k)].review)
  BY <1>1, AtCaller, StatusWritten DEF Unpay, Results
<1>5. \E pc \in {"credits", "close"} : Goes(k, pc)
  BY DEF Unpay
<1>6. PICK pc \in {"credits", "close"} : Becomes(k, pc, On(k), "FAILED", "checkout")
  BY <1>1, <1>2, <1>4, <1>5, AtCaller, Goes1 DEF CallPC
<1>7. RequestHolds(k)'
  BY <1>1, <1>4, <1>6, AtCaller, Rows
  DEF RequestHolds, Asking, Reviewing, Marking, On, Becomes, Grown, Results
<1> QED BY <1>1, <1>3, <1>4, <1>6, <1>7, AtCaller, Assembled DEF Becomes

LEMMA BillWritten ==
  ASSUME Typed, NEW i \in DOMAIN inv, NEW r \in InvoiceRow, r.kind = inv[i].kind,
         r.reserved = inv[i].reserved, inv' = [inv EXCEPT ![i] = r], pay' = pay,
         UNCHANGED outside
  PROVE  Books' /\ Grown /\ Bills(i, r.status, r.app)
<1>1. OutsideOK'
  BY OutsideStays DEF outside
<1> QED BY <1>1, InvoiceWritten DEF Bills

LEMMA CloseDoes ==
  ASSUME Typed, NEW k \in Calls, Close(k)
  PROVE  /\ Typed' /\ OnlyCall(k) /\ On(k) \in DOMAIN pay /\ Invoice(k) \in DOMAIN inv
         /\ Bills(Invoice(k), "FAILED", inv[Invoice(k)].app) /\ call'[k] = Idle
<1> DEFINE r == [inv[Invoice(k)] EXCEPT !.status = "FAILED"]
<1>1. call[k].pc = "close" /\ call[k].pc \in Asking /\ inv[Invoice(k)] \in InvoiceRow
  BY AtCaller, Rows DEF Close, At, Asking
<1>2. AccountOK' /\ BoundsOK'
  BY AccountStays, BoundsStay DEF Close
<1>3. /\ r \in InvoiceRow /\ r.kind = inv[Invoice(k)].kind /\ r.status = "FAILED"
      /\ r.reserved = inv[Invoice(k)].reserved /\ r.app = inv[Invoice(k)].app
  BY <1>1 DEF InvoiceRow
<1>4. inv' = [inv EXCEPT ![Invoice(k)] = r] /\ pay' = pay /\ UNCHANGED outside
  BY DEF Close
<1> HIDE DEF r
<1>5. Books' /\ Grown /\ Bills(Invoice(k), "FAILED", inv[Invoice(k)].app)
  <2>1. Books' /\ Grown /\ Bills(Invoice(k), r.status, r.app)
    BY <1>1, <1>3, <1>4, AtCaller, BillWritten
  <2> QED BY <1>3, <2>1
<1>6. call'[k] = Idle /\ RequestHolds(k)' /\ OnlyCall(k) /\ call' \in [Calls -> CallState']
  BY <1>5, Ends1 DEF Close, Becomes
<1> QED BY <1>1, <1>2, <1>5, <1>6, AtCaller, Assembled

(* A step of nobody's request *)
LEMMA Unasked ==
  ASSUME Typed, Books', Grown, AccountOK', BoundsOK', call' = call, Len(pay') = Len(pay)
  PROVE  Typed'
<1>1. \A k \in Calls : RequestHolds(k)'
  <2> TAKE k \in Calls
  <2>1. call[k] \in CallState /\ RequestHolds(k)
    BY Rows DEF Typed, Requests
  <2>2. CASE call[k].pc \in {"idle", "reserve"}
    BY <2>1, <2>2 DEF RequestHolds, Asking, Reviewing, Marking
  <2>3. CASE call[k].pc \notin {"idle", "reserve"}
    <3>1. /\ On(k)' = On(k) /\ Kind(k)' = Kind(k) /\ On(k) \in DOMAIN pay
          /\ pay'[On(k)].by = pay[On(k)].by /\ (pay[On(k)].ref => pay'[On(k)].ref)
      BY <2>1, <2>3, OnPayment DEF Grown, On, Kind, Invoice
    <3> QED BY <2>1, <3>1, <2>3 DEF RequestHolds
  <2> QED BY <2>2, <2>3
<1>2. call' \in [Calls -> CallState']
  BY DEF Typed, CallState
<1> QED BY <1>1, <1>2 DEF Typed, Books, Requests

LEMMA AnswerDoes ==
  ASSUME Typed, NEW p \in DOMAIN pay, Answer(p)
  PROVE  /\ Typed' /\ answer[p] = "asked"
         /\ answer'[p] \in Results /\ \A q \in DOMAIN pay : q # p => answer'[q] = answer[q]
<1>1. PICK a \in Results : answer' = [answer EXCEPT ![p] = a]
  BY DEF Answer, Results
<1>2. /\ OutsideOK' /\ answer'[p] = a
      /\ \A q \in DOMAIN pay : q # p => answer'[q] = answer[q]
  BY <1>1, Written, Rows DEF OutsideOK, Typed, Answer, Results
<1>3. Books' /\ Grown
  BY <1>2, BooksStay DEF Answer
<1>4. AccountOK' /\ BoundsOK'
  BY AccountStays, BoundsStay DEF Answer
<1> QED BY <1>1, <1>2, <1>3, <1>4, Unasked DEF Answer

LEMMA SubmitDoes ==
  ASSUME Typed, NEW p \in DOMAIN pay, Submit(p)
  PROVE  /\ Typed' /\ pay[p].by = Manual /\ pay[p].status = "PENDING"
         /\ Sets(p, "PROCESSING", TRUE, pay[p].review)
<1> DEFINE r == [pay[p] EXCEPT !.status = "PROCESSING", !.ref = TRUE]
<1>1. AccountOK' /\ BoundsOK'
  BY AccountStays, BoundsStay DEF Submit
<1>2. /\ r \in PaymentRow /\ r.inv = pay[p].inv /\ r.by = pay[p].by
      /\ r.status = "PROCESSING" /\ r.ref = TRUE /\ r.review = pay[p].review
  BY Rows DEF PaymentRow, Live
<1>3. pay' = [pay EXCEPT ![p] = r] /\ inv' = inv /\ UNCHANGED outside
  BY DEF Submit
<1> HIDE DEF r
<1>4. Books' /\ Grown /\ Sets(p, "PROCESSING", TRUE, pay[p].review)
  <2>1. Books' /\ Grown /\ Sets(p, r.status, r.ref, r.review)
    BY <1>2, <1>3, RowWritten
  <2> QED BY <1>2, <2>1
<1>5. Len(pay') = Len(pay)
  BY <1>3, <1>2, Written DEF Typed, PaymentsOK
<1> QED BY <1>1, <1>4, <1>5, Unasked DEF Submit

(* A request that begins with a payment that is there *)
LEMMA TakesHolds ==
  ASSUME Typed, NEW k \in Calls, NEW p \in DOMAIN pay, NEW pc \in {"update", "verdict", "invoice"},
         NEW want \in Results, NEW via \in {"callback", "review"},
         call' = [call EXCEPT ![k] =
           [ Idle EXCEPT !.pc = pc, !.on = p, !.want = want, !.via = via ]],
         pc = "update" => via = "callback", pay[p].ref,
         pc = "verdict" => via = "review",
         pay[p].by = IF via = "callback" THEN Prompts ELSE Manual,
         Books', Grown, pay' = pay, AccountOK', BoundsOK'
  PROVE  Typed' /\ OnlyCall(k) /\ Becomes(k, pc, p, want, via)
<1>1. Becomes(k, pc, p, want, via)
  BY Takes1 DEF CallPC
<1>2. RequestHolds(k)'
  BY <1>1, Rows DEF RequestHolds, Asking, Reviewing, Marking, On, Becomes
<1> QED BY <1>1, <1>2, Assembled DEF Becomes

(* Statements that leave invoices and payments alone *)
LEMMA BooksSame ==
  ASSUME Typed, UNCHANGED << inv, pay >>, UNCHANGED answer, sent' \in Seq(0 .. MaxDeliveries),
         Len(sent') = Len(sent)
  PROVE  Books' /\ Grown
<1>1. OutsideOK'
  BY DEF Typed, OutsideOK
<1> QED BY <1>1, BooksStay

LEMMA BooksUntouched ==
  ASSUME Typed, UNCHANGED << inv, pay, outside >>
  PROVE  Books' /\ Grown
BY BooksSame DEF outside, Typed, OutsideOK

LEMMA DeliverDoes ==
  ASSUME Typed, NEW k \in Calls, NEW p \in DOMAIN pay, Deliver(k, p),
         answer[p] # "none" => pay[p].by = Prompts
  PROVE  /\ Typed' /\ OnlyCall(k) /\ At(k, "idle")
         /\ \/ call'[k] = Idle
            \/ call'[k] = call[k]
            \/ /\ pay[p].status \notin {answer[p], "COMPLETED"}
               /\ answer[p] \in Results /\ pay[p].ref
               /\ Becomes(k, "update", p, answer[p], "callback")
<1>1. /\ inv' = inv /\ pay' = pay /\ answer' = answer /\ At(k, "idle")
      /\ answer[p] \in Results /\ sent' = [sent EXCEPT ![p] = @ + 1] /\ sent[p] < MaxDeliveries
  BY DEF Deliver, Delivers, Results
<1>2. AccountOK' /\ BoundsOK'
  BY AccountStays, BoundsStay DEF Deliver, Delivers
<1>3. Books' /\ Grown
  <2>1. sent[p] + 1 \in 0 .. MaxDeliveries
    BY <1>1, Rows, BillingAssumption
  <2>2. sent' \in Seq(0 .. MaxDeliveries) /\ Len(sent') = Len(sent)
    BY <1>1, <2>1, Rows, Written DEF Typed, OutsideOK
  <2> QED BY <1>1, <2>2, BooksSame
<1>4. CASE ~pay[p].ref
  <2>1. call' = call
    BY <1>4 DEF Deliver
  <2> QED BY <1>1, <1>2, <1>3, <2>1, Unasked DEF OnlyCall
<1>5. CASE pay[p].ref /\ pay[p].status \in {answer[p], "COMPLETED"}
  <2>1. call'[k] = Idle /\ RequestHolds(k)' /\ OnlyCall(k) /\ call' \in [Calls -> CallState']
    BY <1>3, <1>5, Ends1 DEF Deliver, Handles, Ends, Becomes
  <2> QED BY <1>1, <1>2, <1>3, <2>1, Assembled
<1>6. CASE pay[p].ref /\ pay[p].status \notin {answer[p], "COMPLETED"}
  <2>1. call' = [call EXCEPT ![k] = [ Idle EXCEPT !.pc = "update", !.on = p, !.want = answer[p],
                                                  !.via = "callback" ]]
    BY <1>6 DEF Deliver, Handles
  <2>2. pay[p].by = Prompts
    BY <1>1 DEF Results
  <2> DEFINE a == answer[p]
  <2>3. a \in Results
    BY <1>1
  <2> HIDE DEF a
  <2>4. call' = [call EXCEPT ![k] = [ Idle EXCEPT !.pc = "update", !.on = p, !.want = a,
                                                  !.via = "callback" ]]
    BY <2>1 DEF a
  <2>5. Typed' /\ OnlyCall(k) /\ Becomes(k, "update", p, a, "callback")
    BY <1>1, <1>2, <1>3, <1>6, <2>2, <2>3, <2>4, TakesHolds
  <2> QED BY <1>1, <1>6, <2>5 DEF a
<1> QED BY <1>4, <1>5, <1>6

LEMMA ExamineDoes ==
  ASSUME Typed, NEW k \in Calls, NEW p \in DOMAIN pay, Examine(k, p), pay[p].ref
  PROVE  /\ Typed' /\ OnlyCall(k) /\ At(k, "idle") /\ pay[p].status = "PROCESSING"
         /\ \E want \in Results : Becomes(k, "verdict", p, want, "review")
<1>1. PICK want \in Results :
        call' = [call EXCEPT ![k] = [ Idle EXCEPT !.pc = "verdict", !.on = p, !.want = want,
                                                  !.via = "review" ]]
  BY DEF Examine, Results
<1>2. AccountOK' /\ BoundsOK'
  BY AccountStays, BoundsStay DEF Examine
<1>3. Books' /\ Grown
  BY BooksUntouched DEF Examine
<1>4. pay[p].by = Manual /\ pay[p].status = "PROCESSING" /\ At(k, "idle") /\ pay' = pay
  BY DEF Examine
<1>5. Typed' /\ OnlyCall(k) /\ Becomes(k, "verdict", p, want, "review")
  BY <1>1, <1>2, <1>3, <1>4, TakesHolds DEF Manual, Prompts
<1> QED BY <1>4, <1>5

LEMMA ResumeDoes ==
  ASSUME Typed, NEW k \in Calls, NEW p \in DOMAIN pay, Resume(k, p), pay[p].by = Manual,
         pay[p].ref
  PROVE  /\ Typed' /\ OnlyCall(k) /\ At(k, "idle") /\ pay[p].review = "APPROVED"
         /\ \/ pay[p].status = "COMPLETED" /\ Becomes(k, "invoice", p, "COMPLETED", "review")
            \/ pay[p].status # "COMPLETED" /\ Becomes(k, "verdict", p, "COMPLETED", "review")
<1> DEFINE pc == IF pay[p].status = "COMPLETED" THEN "invoice" ELSE "verdict"
<1>1. call' = [call EXCEPT ![k] = [ Idle EXCEPT !.pc = pc, !.on = p, !.want = "COMPLETED",
                                                !.via = "review" ]]
  BY DEF Resume
<1>2. AccountOK' /\ BoundsOK'
  BY AccountStays, BoundsStay DEF Resume
<1>3. Books' /\ Grown
  BY BooksUntouched DEF Resume
<1>4. pay[p].review = "APPROVED" /\ At(k, "idle") /\ pay' = pay
  BY DEF Resume, Unfinished
<1>5. /\ pc \in {"invoice", "verdict"} /\ "COMPLETED" \in Results
      /\ pc = "invoice" <=> pay[p].status = "COMPLETED"
  BY DEF Results
<1> HIDE DEF pc
<1>6. Typed' /\ OnlyCall(k) /\ Becomes(k, pc, p, "COMPLETED", "review")
  BY <1>1, <1>2, <1>3, <1>4, <1>5, TakesHolds DEF Manual, Prompts
<1> QED BY <1>4, <1>5, <1>6

LEMMA UpdateDoes ==
  ASSUME Typed, NEW k \in Calls, Update(k)
  PROVE  /\ Typed' /\ OnlyCall(k) /\ On(k) \in DOMAIN pay /\ pay[On(k)].by = Prompts
         /\ call[k].want \in Results /\ pay[On(k)].ref
         /\ Sets(On(k), call[k].want, TRUE, pay[On(k)].review)
         /\ Becomes(k, "invoice", On(k), call[k].want, "callback")
<1>1. /\ call[k].pc = "update" /\ On(k) \in DOMAIN pay /\ pay[On(k)].by = Prompts
      /\ pay[On(k)].ref /\ call[k].want \in Results /\ call[k].via = "callback"
  BY OnPayment DEF Update, At, Typed, Requests, RequestHolds
<1>2. AccountOK' /\ BoundsOK'
  BY AccountStays, BoundsStay DEF Update
<1>3. Books' /\ Grown /\ Sets(On(k), call[k].want, pay[On(k)].ref, pay[On(k)].review)
  BY <1>1, StatusWritten DEF Update
<1>4. pay[On(k)].ref = TRUE
  BY <1>1, Rows DEF PaymentRow
<1>5. Becomes(k, "invoice", On(k), call[k].want, "callback")
  BY <1>1, <1>3, Goes1 DEF Update, CallPC
<1>6. RequestHolds(k)'
  BY <1>1, <1>3, <1>5, Rows DEF RequestHolds, Asking, Reviewing, Marking, On, Becomes, Grown
<1> QED BY <1>1, <1>2, <1>3, <1>4, <1>5, <1>6, Assembled DEF Becomes

(* A request that reviews a receipt *)
LEMMA AtReview ==
  ASSUME Typed, NEW k \in Calls, call[k].pc \in Reviewing
  PROVE  /\ On(k) \in DOMAIN pay /\ pay[On(k)] \in PaymentRow /\ call[k] \in CallState
         /\ call[k].via = "review" /\ pay[On(k)].by = Manual /\ pay[On(k)].ref
         /\ call[k].want \in Results
         /\ call[k].pc # "verdict" => call[k].want = "COMPLETED"
         /\ Invoice(k) \in DOMAIN inv /\ Kind(k) \in Kinds
BY OnPayment, Rows DEF Typed, Requests, RequestHolds, Reviewing

ReviewOf(want) == IF want = "COMPLETED" THEN "APPROVED" ELSE "REJECTED"

LEMMA VerdictDoes ==
  ASSUME Typed, NEW k \in Calls, Verdict(k)
  PROVE  /\ Typed' /\ OnlyCall(k) /\ On(k) \in DOMAIN pay /\ pay[On(k)].by = Manual
         /\ call[k].want \in Results
         /\ \/ /\ pay[On(k)].status = "PROCESSING"
               /\ Sets(On(k), call[k].want, pay[On(k)].ref, ReviewOf(call[k].want))
               /\ Becomes(k, "invoice", On(k), call[k].want, "review")
               /\ stale' = (stale \/ (call[k].want = "FAILED" /\ pay[On(k)].review = "APPROVED"))
            \/ call'[k] = Idle /\ pay' = pay /\ stale' = stale
<1> DEFINE r == [pay[On(k)] EXCEPT !.status = call[k].want, !.review = ReviewOf(call[k].want)]
<1>1. call[k].pc = "verdict" /\ call[k].pc \in Reviewing
  BY DEF Verdict, At, Reviewing
<1>2. AccountOK'
  BY AccountStays DEF Verdict
<1>3. BoundsOK'
  BY DEF Verdict, Counts, BoundsOK, Typed
<1>4. CASE pay[On(k)].status = "PROCESSING"
  <2>1. /\ r \in PaymentRow /\ r.inv = pay[On(k)].inv /\ r.by = pay[On(k)].by
        /\ r.status = call[k].want /\ r.ref = pay[On(k)].ref
        /\ r.review = ReviewOf(call[k].want)
    BY <1>1, AtReview DEF PaymentRow, Live, ReviewOf, Results
  <2>2. pay' = [pay EXCEPT ![On(k)] = r] /\ inv' = inv /\ UNCHANGED outside
    BY <1>4 DEF Verdict, ReviewOf
  <2> HIDE DEF r
  <2>3. Books' /\ Grown /\ Sets(On(k), call[k].want, pay[On(k)].ref, ReviewOf(call[k].want))
    <3>1. Books' /\ Grown /\ Sets(On(k), r.status, r.ref, r.review)
      BY <1>1, <2>1, <2>2, AtReview, RowWritten
    <3> QED BY <2>1, <3>1
  <2>4. Becomes(k, "invoice", On(k), call[k].want, "review")
    BY <1>1, <1>4, <2>3, AtReview, Goes1 DEF Verdict, CallPC
  <2>5. RequestHolds(k)'
    BY <1>1, <2>3, <2>4, AtReview, Rows
    DEF RequestHolds, Asking, Reviewing, Marking, On, Becomes, Grown
  <2>6. stale' = (stale \/ (call[k].want = "FAILED" /\ pay[On(k)].review = "APPROVED"))
    BY <1>4 DEF Verdict, Counts
  <2> QED BY <1>1, <1>2, <1>3, <1>4, <2>3, <2>4, <2>5, <2>6, AtReview, Assembled DEF Becomes
<1>5. CASE pay[On(k)].status # "PROCESSING"
  <2>1. Books' /\ Grown /\ pay' = pay /\ stale' = stale
    BY <1>5, BooksUntouched DEF Verdict
  <2>2. call'[k] = Idle /\ RequestHolds(k)' /\ OnlyCall(k) /\ call' \in [Calls -> CallState']
    BY <1>5, <2>1, Ends1 DEF Verdict, Becomes
  <2> QED BY <1>1, <1>2, <1>3, <2>1, <2>2, AtReview, Assembled
<1> QED BY <1>4, <1>5

LEMMA SettledDoes ==
  ASSUME Typed, NEW k \in Calls, Settled(k)
  PROVE  /\ Typed' /\ OnlyCall(k) /\ On(k) \in DOMAIN pay /\ call'[k] = Idle
         /\ Sets(On(k), pay[On(k)].status, pay[On(k)].ref, pay[On(k)].review)
<1> DEFINE r == [pay[On(k)] EXCEPT !.settled = TRUE]
<1>1. call[k].pc = "settled" /\ call[k].pc \in Reviewing
  BY DEF Settled, At, Reviewing
<1>2. AccountOK' /\ BoundsOK'
  BY AccountStays, BoundsStay DEF Settled
<1>3. /\ r \in PaymentRow /\ r.inv = pay[On(k)].inv /\ r.by = pay[On(k)].by
      /\ r.status = pay[On(k)].status /\ r.ref = pay[On(k)].ref /\ r.review = pay[On(k)].review
  BY <1>1, AtReview DEF PaymentRow
<1>4. pay' = [pay EXCEPT ![On(k)] = r] /\ inv' = inv /\ UNCHANGED outside
  BY DEF Settled
<1> HIDE DEF r
<1>5. Books' /\ Grown /\ Sets(On(k), pay[On(k)].status, pay[On(k)].ref, pay[On(k)].review)
  <2>1. Books' /\ Grown /\ Sets(On(k), r.status, r.ref, r.review)
    BY <1>1, <1>3, <1>4, AtReview, RowWritten
  <2> QED BY <1>3, <2>1
<1>6. call'[k] = Idle /\ RequestHolds(k)' /\ OnlyCall(k) /\ call' \in [Calls -> CallState']
  BY <1>5, Ends1 DEF Settled, Becomes
<1> QED BY <1>1, <1>2, <1>5, <1>6, AtReview, Assembled

LEMMA ReopenDoes ==
  ASSUME Typed, NEW k \in Calls, Reopen(k)
  PROVE  /\ Typed' /\ OnlyCall(k) /\ On(k) \in DOMAIN pay /\ call'[k] = Idle
         /\ pay[On(k)].by = Manual /\ call[k].via = "review" /\ call[k].want = "COMPLETED"
         /\ Kind(k) = "SETUP_FEE"
         /\ Sets(On(k), "PROCESSING", pay[On(k)].ref, "APPROVED")
<1> DEFINE r == [pay[On(k)] EXCEPT !.status = "PROCESSING", !.review = "APPROVED"]
<1>1. call[k].pc = "reopen" /\ call[k].pc \in Reviewing /\ Kind(k) = "SETUP_FEE"
  BY DEF Reopen, At, Reviewing, Typed, Requests, RequestHolds
<1>2. AccountOK' /\ BoundsOK'
  BY AccountStays, BoundsStay DEF Reopen
<1>3. /\ r \in PaymentRow /\ r.inv = pay[On(k)].inv /\ r.by = pay[On(k)].by
      /\ r.status = "PROCESSING" /\ r.ref = pay[On(k)].ref /\ r.review = "APPROVED"
  BY <1>1, AtReview DEF PaymentRow, Live
<1>4. pay' = [pay EXCEPT ![On(k)] = r] /\ inv' = inv /\ UNCHANGED outside
  BY DEF Reopen
<1> HIDE DEF r
<1>5. Books' /\ Grown /\ Sets(On(k), "PROCESSING", pay[On(k)].ref, "APPROVED")
  <2>1. Books' /\ Grown /\ Sets(On(k), r.status, r.ref, r.review)
    BY <1>1, <1>3, <1>4, AtReview, RowWritten
  <2> QED BY <1>3, <2>1
<1>6. call'[k] = Idle /\ RequestHolds(k)' /\ OnlyCall(k) /\ call' \in [Calls -> CallState']
  BY <1>5, Ends1 DEF Reopen, Becomes
<1> QED BY <1>1, <1>2, <1>5, <1>6, AtReview, Assembled

(* A request that records a result *)
LEMMA AtMark ==
  ASSUME Typed, NEW k \in Calls, call[k].pc \in Marking
  PROVE  /\ On(k) \in DOMAIN pay /\ pay[On(k)] \in PaymentRow /\ call[k] \in CallState
         /\ call[k].want \in Results
         /\ \/ call[k].via = "callback" /\ pay[On(k)].by = Prompts
            \/ call[k].via = "review" /\ pay[On(k)].by = Manual /\ pay[On(k)].ref
            \/ /\ call[k].via = "checkout"
               /\ pay[On(k)].by = IF call[k].want = "FAILED" THEN Prompts ELSE Credited
         /\ Invoice(k) \in DOMAIN inv /\ Kind(k) \in Kinds /\ inv[Invoice(k)] \in InvoiceRow
BY OnPayment, Rows DEF Typed, Requests, RequestHolds, Marking

(* Where it goes from there *)
Continues(k, to) ==
  \/ call'[k] = Idle
  \/ \E pc \in to : Becomes(k, pc, On(k), call[k].want, call[k].via)

LEMMA GoesOn ==
  ASSUME Typed, Books', Grown, NEW k \in Calls, call[k].pc \in Marking,
         NEW pc \in {"credits", "apply", "fee", "activate", "settled", "reopen", "close"},
         Goes(k, pc),
         pc \in {"settled", "reopen"} => call[k].via = "review" /\ call[k].want = "COMPLETED",
         pc = "close" => call[k].via = "checkout" /\ call[k].want = "FAILED",
         pc \in {"fee", "reopen"} => Kind(k) = "SETUP_FEE"
  PROVE  /\ Becomes(k, pc, On(k), call[k].want, call[k].via)
         /\ RequestHolds(k)' /\ OnlyCall(k) /\ call' \in [Calls -> CallState']
<1>1. Becomes(k, pc, On(k), call[k].want, call[k].via)
  BY Goes1 DEF CallPC
<1>2. /\ Kind(k)' = Kind(k) /\ pay'[On(k)].by = pay[On(k)].by /\ On(k) # 0
      /\ (pay[On(k)].ref => pay'[On(k)].ref)
  BY <1>1, AtMark, Rows DEF Kind, Invoice, On, Becomes, Grown
<1>3. RequestHolds(k)'
  BY <1>1, <1>2, AtMark DEF RequestHolds, Asking, Reviewing, Marking, On, Becomes
<1> QED BY <1>1, <1>3 DEF Becomes

LEMMA MarkedHolds ==
  ASSUME Typed, Books', Grown, NEW k \in Calls, call[k].pc \in Marking, Marked(k)
  PROVE  /\ Continues(k, {"settled"})
         /\ RequestHolds(k)' /\ OnlyCall(k) /\ call' \in [Calls -> CallState']
<1>1. CASE call[k].via = "review" /\ call[k].want = "COMPLETED"
  <2>1. Goes(k, "settled")
    BY <1>1 DEF Marked
  <2> QED BY <1>1, <2>1, GoesOn DEF Continues
<1>2. CASE ~(call[k].via = "review" /\ call[k].want = "COMPLETED")
  BY <1>2, Ends1 DEF Marked, Continues, Becomes
<1> QED BY <1>1, <1>2

LEMMA AfterCreditsHolds ==
  ASSUME Typed, Books', Grown, NEW k \in Calls, call[k].pc \in Marking, AfterCredits(k)
  PROVE  /\ IF call[k].via = "checkout" /\ call[k].want = "FAILED"
            THEN Becomes(k, "close", On(k), call[k].want, call[k].via)
            ELSE Continues(k, {"fee", "activate", "settled"})
         /\ RequestHolds(k)' /\ OnlyCall(k) /\ call' \in [Calls -> CallState']
<1>1. CASE call[k].via = "checkout" /\ call[k].want = "FAILED"
  BY <1>1, GoesOn DEF AfterCredits
<1>2. CASE ~(call[k].via = "checkout" /\ call[k].want = "FAILED")
  <2>1. CASE Kind(k) = "SETUP_FEE"
    BY <1>2, <2>1, GoesOn DEF AfterCredits, Continues
  <2>2. CASE Kind(k) # "SETUP_FEE" /\ call[k].want = "COMPLETED"
    BY <1>2, <2>2, GoesOn DEF AfterCredits, Continues
  <2>3. CASE Kind(k) # "SETUP_FEE" /\ call[k].want # "COMPLETED"
    BY <1>2, <2>3, MarkedHolds DEF AfterCredits, Continues
  <2> QED BY <2>1, <2>2, <2>3
<1> QED BY <1>1, <1>2

LEMMA MarkInvoiceDoes ==
  ASSUME Typed, NEW k \in Calls, MarkInvoice(k)
  PROVE  /\ Typed' /\ OnlyCall(k) /\ On(k) \in DOMAIN pay /\ Invoice(k) \in DOMAIN inv
         /\ call[k].want \in Results
         /\ Bills(Invoice(k), IF call[k].want = "COMPLETED" THEN "PAID" ELSE "FAILED",
                  inv[Invoice(k)].app)
         /\ Becomes(k, "credits", On(k), call[k].want, call[k].via)
<1> DEFINE s == IF call[k].want = "COMPLETED" THEN "PAID" ELSE "FAILED"
           r == [inv[Invoice(k)] EXCEPT !.status = s]
<1>1. call[k].pc = "invoice" /\ call[k].pc \in Marking
  BY DEF MarkInvoice, At, Marking
<1>2. AccountOK' /\ BoundsOK'
  BY AccountStays, BoundsStay DEF MarkInvoice
<1>3. inv' = [inv EXCEPT ![Invoice(k)] = r] /\ pay' = pay /\ UNCHANGED outside
  BY DEF MarkInvoice
<1>4. s \in {"PAID", "FAILED"}
  OBVIOUS
<1> HIDE DEF s
<1>5. /\ r \in InvoiceRow /\ r.kind = inv[Invoice(k)].kind /\ r.status = s
      /\ r.reserved = inv[Invoice(k)].reserved /\ r.app = inv[Invoice(k)].app
  BY <1>1, <1>4, AtMark DEF InvoiceRow
<1> HIDE DEF r
<1>6. Books' /\ Grown /\ Bills(Invoice(k), s, inv[Invoice(k)].app)
  <2>1. Books' /\ Grown /\ Bills(Invoice(k), r.status, r.app)
    BY <1>1, <1>3, <1>5, AtMark, BillWritten
  <2> QED BY <1>5, <2>1
<1>7. /\ Becomes(k, "credits", On(k), call[k].want, call[k].via)
      /\ RequestHolds(k)' /\ OnlyCall(k) /\ call' \in [Calls -> CallState']
  BY <1>1, <1>6, GoesOn DEF MarkInvoice
<1>8. Typed'
  BY <1>2, <1>6, <1>7, Assembled
<1> QED BY <1>1, <1>6, <1>7, <1>8, AtMark DEF s

LEMMA ReadCreditsDoes ==
  ASSUME Typed, NEW k \in Calls, ReadCredits(k)
  PROVE  /\ Typed' /\ OnlyCall(k)
         /\ Becomes(k, "apply", On(k), call[k].want, call[k].via)
<1> DEFINE c == [call[k] EXCEPT !.pc = "apply", !.owed = inv[Invoice(k)].app = "RESERVED"]
<1>1. call[k].pc = "credits" /\ call[k].pc \in Marking
  BY DEF ReadCredits, At, Marking
<1>2. AccountOK' /\ BoundsOK'
  BY AccountStays, BoundsStay DEF ReadCredits
<1>3. Books' /\ Grown /\ pay' = pay /\ inv' = inv
  BY BooksUntouched DEF ReadCredits
<1>4. call' = [call EXCEPT ![k] = c]
  BY DEF ReadCredits
<1>5. call[k] \in CallState' /\ "apply" \in CallPC
  BY <1>1, <1>3, AtMark DEF CallState, CallPC
<1>6. c \in CallState' /\ c.pc = "apply" /\ c.on = On(k) /\ c.want = call[k].want /\ c.via = call[k].via
  BY <1>5 DEF CallState, On
<1>7. Becomes(k, "apply", On(k), call[k].want, call[k].via)
  BY <1>3, <1>4, <1>6, CallWritten, Lengths DEF Becomes
<1> HIDE DEF c
<1>8. RequestHolds(k)'
  BY <1>1, <1>3, <1>7, AtMark, Rows DEF RequestHolds, Asking, Reviewing, Marking, On, Becomes
<1> QED BY <1>2, <1>3, <1>7, <1>8, Assembled DEF Becomes

LEMMA ApplyCreditsDoes ==
  ASSUME Typed, NEW k \in Calls, ApplyCredits(k)
  PROVE  /\ Typed' /\ OnlyCall(k) /\ On(k) \in DOMAIN pay /\ Invoice(k) \in DOMAIN inv
         /\ call[k].want \in Results
         /\ \/ call[k].owed /\ call[k].want = "FAILED"
               /\ credit' = credit + inv[Invoice(k)].reserved
               /\ Bills(Invoice(k), inv[Invoice(k)].status, "RELEASED")
               /\ stale' = (stale \/ inv[Invoice(k)].app # "RESERVED")
            \/ call[k].owed /\ call[k].want = "COMPLETED" /\ credit' = credit
               /\ Bills(Invoice(k), inv[Invoice(k)].status, "APPLIED")
               /\ stale' = (stale \/ inv[Invoice(k)].app # "RESERVED")
            \/ ~call[k].owed /\ UNCHANGED << credit, inv, stale >>
         /\ IF call[k].via = "checkout" /\ call[k].want = "FAILED"
            THEN Becomes(k, "close", On(k), call[k].want, call[k].via)
            ELSE Continues(k, {"fee", "activate", "settled"})
<1> DEFINE app == IF call[k].want = "FAILED" THEN "RELEASED" ELSE "APPLIED"
           r == [inv[Invoice(k)] EXCEPT !.app = app]
<1>1. call[k].pc = "apply" /\ call[k].pc \in Marking
  BY DEF ApplyCredits, At, Marking
<1>2. /\ inv[Invoice(k)] \in InvoiceRow /\ inv[Invoice(k)].reserved \in Nat /\ credit \in Nat
      /\ call[k].owed \in BOOLEAN /\ call[k].want \in Results
  BY <1>1, AtMark, BillingAssumption DEF InvoiceRow, CallState, Typed, AccountOK
<1>3. AccountOK'
  BY <1>2 DEF ApplyCredits, Typed, AccountOK, account
<1>4. BoundsOK'
  BY DEF ApplyCredits, Counts, Typed, BoundsOK
<1>5. CASE call[k].owed
  <2>1. inv' = [inv EXCEPT ![Invoice(k)] = r] /\ pay' = pay /\ UNCHANGED outside
    BY <1>5 DEF ApplyCredits
  <2>2. app \in {"RELEASED", "APPLIED"}
    OBVIOUS
  <2>3. /\ r \in InvoiceRow /\ r.kind = inv[Invoice(k)].kind /\ r.app = app
        /\ r.reserved = inv[Invoice(k)].reserved /\ r.status = inv[Invoice(k)].status
    BY <1>2 DEF InvoiceRow
  <2> HIDE DEF r
  <2>4. Books' /\ Grown /\ Bills(Invoice(k), inv[Invoice(k)].status, app)
    <3> HIDE DEF app
    <3>1. Books' /\ Grown /\ Bills(Invoice(k), r.status, r.app)
      BY <1>1, <2>1, <2>3, AtMark, BillWritten
    <3> QED BY <2>3, <3>1
  <2>5. AfterCredits(k) /\ stale' = (stale \/ inv[Invoice(k)].app # "RESERVED")
        /\ credit' = IF call[k].want = "FAILED" THEN credit + inv[Invoice(k)].reserved ELSE credit
    BY <1>5 DEF ApplyCredits, Counts
  <2>6. /\ IF call[k].via = "checkout" /\ call[k].want = "FAILED"
           THEN Becomes(k, "close", On(k), call[k].want, call[k].via)
           ELSE Continues(k, {"fee", "activate", "settled"})
        /\ RequestHolds(k)' /\ OnlyCall(k) /\ call' \in [Calls -> CallState']
    BY <1>1, <2>4, <2>5, AfterCreditsHolds
  <2>7. Typed'
    BY <1>3, <1>4, <2>4, <2>6, Assembled
  <2> QED BY <1>1, <1>2, <1>5, <2>4, <2>5, <2>6, <2>7, AtMark DEF Results
<1>6. CASE ~call[k].owed
  <2>1. Books' /\ Grown /\ AfterCredits(k) /\ UNCHANGED << credit, inv, stale >>
    BY <1>6, BooksUntouched DEF ApplyCredits
  <2>2. /\ IF call[k].via = "checkout" /\ call[k].want = "FAILED"
           THEN Becomes(k, "close", On(k), call[k].want, call[k].via)
           ELSE Continues(k, {"fee", "activate", "settled"})
        /\ RequestHolds(k)' /\ OnlyCall(k) /\ call' \in [Calls -> CallState']
    BY <1>1, <2>1, AfterCreditsHolds
  <2>3. Typed'
    BY <1>3, <1>4, <2>1, <2>2, Assembled
  <2> QED BY <1>1, <1>2, <1>6, <2>1, <2>2, <2>3, AtMark
<1> QED BY <1>5, <1>6

LEMMA MarkFeeDoes ==
  ASSUME Typed, NEW k \in Calls, MarkFee(k)
  PROVE  /\ Typed' /\ OnlyCall(k) /\ On(k) \in DOMAIN pay /\ Kind(k) = "SETUP_FEE"
         /\ \/ call[k].want = "FAILED" /\ fee' = "FAILED"
            \/ call[k].want = "COMPLETED" /\ fee' \in {fee, "PAID"}
         /\ Continues(k, {"settled", "reopen"})
         /\ \A pc \in {"settled", "reopen"} :
              call'[k].pc = pc => call[k].want = "COMPLETED" /\ call[k].via = "review"
<1>1. call[k].pc = "fee" /\ call[k].pc \in Marking /\ Kind(k) = "SETUP_FEE"
  BY DEF MarkFee, At, Marking, Typed, Requests, RequestHolds
<1>2. Books' /\ Grown
  BY BooksUntouched DEF MarkFee
<1>3. BoundsOK'
  BY BoundsStay DEF MarkFee
<1>4. /\ AccountOK'
      /\ \/ call[k].want = "FAILED" /\ fee' = "FAILED"
         \/ call[k].want = "COMPLETED" /\ fee' \in {fee, "PAID"}
  BY DEF MarkFee, AccountOK, Typed, account
<1>5. \/ Marked(k)
      \/ call[k].want = "COMPLETED" /\ call[k].via = "review" /\ Goes(k, "reopen")
      \/ Ends(k)
  BY DEF MarkFee
<1>6. CASE Marked(k)
  <2>1. /\ Continues(k, {"settled"})
        /\ RequestHolds(k)' /\ OnlyCall(k) /\ call' \in [Calls -> CallState']
    BY <1>1, <1>2, <1>6, MarkedHolds
  <2>2. \A pc \in {"settled", "reopen"} :
          call'[k].pc = pc => call[k].want = "COMPLETED" /\ call[k].via = "review"
    BY <2>1, <1>1, AtMark, Rows
    DEF Continues, RequestHolds, Becomes, Reviewing, On, Idle
  <2> QED BY <1>1, <1>2, <1>3, <1>4, <2>1, <2>2, AtMark, Assembled DEF Continues
<1>7. CASE call[k].want = "COMPLETED" /\ call[k].via = "review" /\ Goes(k, "reopen")
  <2>1. /\ Becomes(k, "reopen", On(k), call[k].want, call[k].via)
        /\ RequestHolds(k)' /\ OnlyCall(k) /\ call' \in [Calls -> CallState']
    BY <1>1, <1>2, <1>7, GoesOn
  <2> QED BY <1>1, <1>2, <1>3, <1>4, <1>7, <2>1, AtMark, Assembled DEF Continues
<1>8. CASE Ends(k)
  <2>1. call'[k] = Idle /\ RequestHolds(k)' /\ OnlyCall(k) /\ call' \in [Calls -> CallState']
    BY <1>2, <1>8, Ends1 DEF Becomes
  <2>2. Idle.pc = "idle"
    BY DEF Idle
  <2> QED BY <1>1, <1>2, <1>3, <1>4, <2>1, <2>2, AtMark, Assembled DEF Continues
<1> QED BY <1>5, <1>6, <1>7, <1>8

LEMMA FeeFailsDoes ==
  ASSUME Typed, NEW k \in Calls, FeeFails(k)
  PROVE  /\ Typed' /\ OnlyCall(k) /\ On(k) \in DOMAIN pay
         /\ call[k].pc = "fee" /\ call[k].want = "COMPLETED"
         /\ \/ call'[k] = Idle
            \/ call[k].via = "review" /\ Becomes(k, "reopen", On(k), call[k].want, call[k].via)
<1>1. call[k].pc = "fee" /\ call[k].pc \in Marking /\ Kind(k) = "SETUP_FEE"
      /\ call[k].want = "COMPLETED"
  BY DEF FeeFails, At, Marking, Typed, Requests, RequestHolds
<1>2. Books' /\ Grown
  BY BooksUntouched DEF FeeFails
<1>3. AccountOK'
  BY AccountStays DEF FeeFails
<1>4. BoundsOK'
  BY BillingAssumption DEF FeeFails, BoundsOK, Typed
<1>5. CASE call[k].via = "review"
  <2>1. /\ Becomes(k, "reopen", On(k), call[k].want, call[k].via)
        /\ RequestHolds(k)' /\ OnlyCall(k) /\ call' \in [Calls -> CallState']
    BY <1>1, <1>2, <1>5, GoesOn DEF FeeFails
  <2> QED BY <1>1, <1>2, <1>3, <1>4, <1>5, <2>1, AtMark, Assembled
<1>6. CASE call[k].via # "review"
  <2>1. call'[k] = Idle /\ RequestHolds(k)' /\ OnlyCall(k) /\ call' \in [Calls -> CallState']
    BY <1>2, <1>6, Ends1 DEF FeeFails, Becomes
  <2> QED BY <1>1, <1>2, <1>3, <1>4, <2>1, AtMark, Assembled
<1> QED BY <1>5, <1>6

LEMMA ActivateDoes ==
  ASSUME Typed, NEW k \in Calls, Activate(k)
  PROVE  /\ Typed' /\ OnlyCall(k) /\ Continues(k, {"settled"})
<1>1. call[k].pc = "activate" /\ call[k].pc \in Marking
  BY DEF Activate, At, Marking
<1>2. Books' /\ Grown
  BY BooksUntouched DEF Activate
<1>3. AccountOK' /\ BoundsOK'
  BY BoundsStay DEF Activate, AccountOK, Typed
<1>4. /\ Continues(k, {"settled"})
      /\ RequestHolds(k)' /\ OnlyCall(k) /\ call' \in [Calls -> CallState']
  BY <1>1, <1>2, MarkedHolds DEF Activate
<1> QED BY <1>2, <1>3, <1>4, Assembled

LEMMA SwallowedDoes ==
  ASSUME Typed, NEW k \in Calls, Swallowed(k)
  PROVE  /\ Typed' /\ OnlyCall(k) /\ call[k].pc \in Marking
         /\ IF call[k].pc = "apply" /\ call[k].via = "checkout" /\ call[k].want = "FAILED"
            THEN Becomes(k, "close", On(k), call[k].want, call[k].via)
            ELSE Continues(k, {"credits", "fee", "activate", "settled"})
<1>1. Books' /\ Grown
  BY BooksUntouched DEF Swallowed
<1>2. AccountOK'
  BY AccountStays DEF Swallowed
<1>3. BoundsOK'
  BY BillingAssumption DEF Swallowed, BoundsOK, Typed
<1>4. CASE At(k, "invoice") /\ Goes(k, "credits")
  <2>1. call[k].pc = "invoice" /\ call[k].pc \in Marking
    BY <1>4 DEF At, Marking
  <2>2. /\ Becomes(k, "credits", On(k), call[k].want, call[k].via)
        /\ RequestHolds(k)' /\ OnlyCall(k) /\ call' \in [Calls -> CallState']
    BY <1>1, <1>4, <2>1, GoesOn
  <2> QED BY <1>1, <1>2, <1>3, <2>1, <2>2, Assembled DEF Continues
<1>5. CASE At(k, "apply") /\ AfterCredits(k)
  <2>1. call[k].pc = "apply" /\ call[k].pc \in Marking
    BY <1>5 DEF At, Marking
  <2>2. /\ IF call[k].via = "checkout" /\ call[k].want = "FAILED"
           THEN Becomes(k, "close", On(k), call[k].want, call[k].via)
           ELSE Continues(k, {"fee", "activate", "settled"})
        /\ RequestHolds(k)' /\ OnlyCall(k) /\ call' \in [Calls -> CallState']
    BY <1>1, <1>5, <2>1, AfterCreditsHolds
  <2> QED BY <1>1, <1>2, <1>3, <2>1, <2>2, Assembled DEF Continues
<1>6. CASE At(k, "activate") /\ Marked(k)
  <2>1. call[k].pc = "activate" /\ call[k].pc \in Marking
    BY <1>6 DEF At, Marking
  <2>2. /\ Continues(k, {"settled"})
        /\ RequestHolds(k)' /\ OnlyCall(k) /\ call' \in [Calls -> CallState']
    BY <1>1, <1>6, <2>1, MarkedHolds
  <2> QED BY <1>1, <1>2, <1>3, <2>1, <2>2, Assembled DEF Continues
<1> QED BY <1>4, <1>5, <1>6 DEF Swallowed

LEMMA DropDoes ==
  ASSUME Typed, NEW k \in Calls, Drop(k) \/ Beyond(k)
  PROVE  Typed' /\ OnlyCall(k) /\ call'[k] = Idle
<1>1. Books' /\ Grown
  BY BooksUntouched DEF Drop, Beyond
<1>2. AccountOK'
  BY AccountStays DEF Drop, Beyond
<1>3. BoundsOK'
  BY BillingAssumption, BoundsStay DEF Drop, Beyond, BoundsOK, Typed
<1>4. call'[k] = Idle /\ RequestHolds(k)' /\ OnlyCall(k) /\ call' \in [Calls -> CallState']
  BY <1>1, Ends1 DEF Drop, Beyond, Becomes
<1> QED BY <1>1, <1>2, <1>3, <1>4, Assembled

(* A payment is created *)
Adds(i, p) ==
  /\ p \notin DOMAIN pay /\ DOMAIN pay' = DOMAIN pay \cup {p}
  /\ \A q \in DOMAIN pay : q < p /\ pay'[q] = pay[q] /\ answer'[q] = answer[q]
  /\ pay'[p].inv = i /\ ~pay'[p].ref /\ pay'[p].review = "none" /\ answer'[p] = "none"
  /\ \/ pay'[p].by = Credited /\ pay'[p].status = "COMPLETED"
     \/ pay'[p].by \in {Manual, Prompts} /\ pay'[p].status = "PENDING"

(* And its request sends the prompt, or is at its end, or records it at once *)
Proceeds(k, p) ==
  \/ Becomes(k, "invoice", p, "COMPLETED", "checkout") /\ pay'[p].by = Credited
  \/ call'[k] = Idle
  \/ /\ call'[k].pc = "find" /\ call'[k].on = p /\ call'[k].via = "checkout"
     /\ pay'[p].by = Prompts

LEMMA OpensDoes ==
  ASSUME Typed, NEW k \in Calls, call[k].pc = "reserve",
         inv' \in Seq(InvoiceRow), NEW i \in DOMAIN inv', Len(inv) <= Len(inv'),
         \A j \in DOMAIN inv : j \in DOMAIN inv' /\ inv'[j] = inv[j],
         DOMAIN inv' \subseteq DOMAIN inv \cup {i},
         NEW total \in Nat, Opens(k, i, total, call[k].by)
  PROVE  /\ Books' /\ Grown /\ Adds(i, Len(pay) + 1) /\ Proceeds(k, Len(pay) + 1)
         /\ RequestHolds(k)' /\ OnlyCall(k) /\ call' \in [Calls -> CallState']
<1>0. PICK p \in Nat : p = Len(pay) + 1
  BY Rows
<1> DEFINE by == call[k].by
           r == [ inv |-> i, by |-> IF total = 0 THEN Credited ELSE by,
                  status |-> IF total = 0 THEN "COMPLETED" ELSE "PENDING",
                  ref |-> FALSE, review |-> "none", settled |-> FALSE ]
<1>1. /\ Len(pay) \in Nat /\ DOMAIN pay = 1 .. Len(pay) /\ Len(pay) < MaxPayments
      /\ by \in {Manual, Prompts} /\ call[k] \in CallState
      /\ Len(inv) \in Nat /\ Len(inv') \in Nat /\ DOMAIN inv' = 1 .. Len(inv')
  <2>1. Len(inv') \in Nat /\ DOMAIN inv' = 1 .. Len(inv')
    BY LenProperties
  <2> QED BY <2>1, Rows DEF Opens, Typed, Requests, RequestHolds
<1>2. r \in PaymentRow'
  BY <1>1 DEF PaymentRow, Live
<1>3. PaymentRow \subseteq PaymentRow'
  BY <1>1 DEF PaymentRow
<1>4. /\ r.inv = i /\ ~r.ref /\ r.review = "none"
      /\ \/ r.by = Credited /\ r.status = "COMPLETED" /\ total = 0
         \/ r.by = by /\ r.status = "PENDING" /\ total # 0
  OBVIOUS
<1>5. pay' = Append(pay, r) /\ answer' = Append(answer, "none") /\ sent' = Append(sent, 0)
  BY DEF Opens
<1> HIDE DEF r
<1>6. pay \in Seq(PaymentRow') /\ pay \in Seq(PaymentRow)
  <2>1. pay \in Seq(PaymentRow)
    BY DEF Typed, PaymentsOK
  <2> DEFINE rows == PaymentRow'
  <2>2. PaymentRow \subseteq rows
    BY <1>3
  <2> HIDE DEF rows
  <2>3. pay \in Seq(rows)
    BY <2>1, <2>2, SeqMonotonic
  <2> QED BY <2>1, <2>3 DEF rows
<1>7. /\ pay' \in Seq(PaymentRow') /\ Len(pay') = p /\ DOMAIN pay' = DOMAIN pay \cup {p}
      /\ p \notin DOMAIN pay /\ pay'[p] = r /\ \A q \in DOMAIN pay : pay'[q] = pay[q]
  BY <1>0, <1>2, <1>5, <1>6, Appended
<1>8. /\ OutsideOK' /\ answer'[p] = "none" /\ \A q \in DOMAIN pay : answer'[q] = answer[q]
  <2>1. /\ answer \in Seq({"none", "asked", "COMPLETED", "FAILED"}) /\ Len(answer) = Len(pay)
        /\ sent \in Seq(0 .. MaxDeliveries) /\ Len(sent) = Len(pay)
    BY DEF Typed, OutsideOK
  <2>2. /\ answer' \in Seq({"none", "asked", "COMPLETED", "FAILED"}) /\ Len(answer') = Len(pay')
        /\ answer'[p] = "none" /\ \A q \in DOMAIN pay : answer'[q] = answer[q]
    BY <1>0, <1>5, <1>7, <2>1, Appended, Rows
  <2>3. 0 \in 0 .. MaxDeliveries
    BY BillingAssumption
  <2>4. sent' \in Seq(0 .. MaxDeliveries) /\ Len(sent') = Len(pay')
    BY <1>0, <1>5, <1>7, <2>1, <2>3, Appended
  <2> QED BY <2>2, <2>4 DEF OutsideOK
<1>9. Grown
  BY <1>0, <1>1, <1>7 DEF Grown
<1>10. Billed'
  <2>1. \A j \in DOMAIN inv : \E q \in DOMAIN pay : LastOf(q, j)
    BY DEF Typed, Billed
  <2>2. LastOf(p, i)'
    BY <1>0, <1>1, <1>4, <1>7 DEF LastOf
  <2>3. ASSUME NEW j \in DOMAIN inv, j # i  PROVE  \E q \in DOMAIN pay' : LastOf(q, j)'
    <3>1. PICK q \in DOMAIN pay : LastOf(q, j)
      BY <2>1, <2>3
    <3>2. LastOf(q, j)'
      BY <1>0, <1>4, <1>7, <2>3, <3>1 DEF LastOf
    <3> QED BY <1>7, <3>1, <3>2
  <2> QED BY <1>7, <2>2, <2>3 DEF Billed
<1>11. Books'
  <2>1. Len(pay') <= MaxPayments
    BY <1>0, <1>1, <1>7, BillingAssumption
  <2> QED BY <1>7, <1>8, <1>10, <2>1 DEF Books, PaymentsOK
<1>12. Adds(i, p)
  BY <1>0, <1>1, <1>4, <1>7, <1>8 DEF Adds
<1>13. Kind(k)' = inv'[i].kind \/ call'[k].on # p
  BY <1>4, <1>7 DEF Kind, Invoice, On
<1>14. CASE total = 0
  <2> DEFINE c == [ call[k] EXCEPT !.pc = "invoice", !.on = p, !.want = "COMPLETED", !.via = "checkout" ]
  <2>1. call' = [call EXCEPT ![k] = c]
    BY <1>0, <1>14 DEF Opens
  <2>2. call[k] \in CallState' /\ "invoice" \in CallPC /\ p \in 0 .. Len(pay')
    BY <1>0, <1>1, <1>7 DEF CallState, CallPC
  <2>3. c \in CallState' /\ c.pc = "invoice" /\ c.on = p /\ c.want = "COMPLETED" /\ c.via = "checkout"
    BY <2>2 DEF CallState
  <2>4. Becomes(k, "invoice", p, "COMPLETED", "checkout") /\ pay'[p].by = Credited
    BY <1>0, <1>1, <1>4, <1>7, <1>9, <1>14, <2>1, <2>3, CallWritten DEF Becomes
  <2> HIDE DEF c
  <2>5. RequestHolds(k)'
    BY <1>0, <1>1, <2>4 DEF RequestHolds, Asking, Reviewing, Marking, On, Becomes, Results
  <2> QED BY <1>0, <1>9, <1>11, <1>12, <2>4, <2>5 DEF Proceeds, Becomes
<1>15. CASE total # 0 /\ by = Manual
  <2>1. call'[k] = Idle /\ RequestHolds(k)' /\ OnlyCall(k) /\ call' \in [Calls -> CallState']
    BY <1>9, <1>11, <1>15, Ends1 DEF Opens, Ends, Becomes
  <2> QED BY <1>0, <1>9, <1>11, <1>12, <2>1 DEF Proceeds
<1>16. CASE total # 0 /\ by = Prompts
  <2> DEFINE c == [ call[k] EXCEPT !.pc = "find", !.on = p, !.via = "checkout" ]
  <2>1. call' = [call EXCEPT ![k] = c]
    BY <1>0, <1>16 DEF Opens, Prompts, Manual
  <2>2. call[k] \in CallState' /\ "find" \in CallPC /\ p \in 0 .. Len(pay')
    BY <1>0, <1>1, <1>7 DEF CallState, CallPC
  <2>3. c \in CallState' /\ c.pc = "find" /\ c.on = p /\ c.via = "checkout"
    BY <2>2 DEF CallState
  <2>4. call' \in [Calls -> CallState'] /\ OnlyCall(k) /\ call'[k] = c
    BY <1>0, <1>1, <1>7, <1>9, <2>1, <2>3, CallWritten
  <2>5. pay'[p].by = Prompts
    BY <1>4, <1>7, <1>16
  <2>6. RequestHolds(k)'
    BY <1>0, <1>1, <2>3, <2>4, <2>5 DEF RequestHolds, Asking, Reviewing, Marking, On
  <2> QED BY <1>0, <1>9, <1>11, <1>12, <2>3, <2>4, <2>5, <2>6 DEF Proceeds
<1> QED BY <1>1, <1>14, <1>15, <1>16

(* An invoice is created, which takes of the credit *)
Invoices(kind, i) ==
  /\ i \notin DOMAIN inv /\ DOMAIN inv' = DOMAIN inv \cup {i}
  /\ \A j \in DOMAIN inv : inv'[j] = inv[j]
  /\ inv'[i].kind = kind /\ inv'[i].status = "OPEN"
  /\ inv'[i].reserved \in 0 .. credit /\ credit' = credit - inv'[i].reserved
  /\ inv'[i].app = IF inv'[i].reserved = 0 THEN "none" ELSE "RESERVED"

LEMMA ReserveDoes ==
  ASSUME Typed, NEW k \in Calls, Reserve(k)
  PROVE  /\ Typed' /\ OnlyCall(k) /\ call[k].on = 0 /\ call[k].kind \in Kinds
         /\ \/ /\ UNCHANGED << inv, pay, answer, credit, stale >>
               /\ \/ call'[k] = Idle
                  \/ \E i \in Open(call[k].kind) :
                       /\ pay[Latest(i)].status \in Live /\ pay[Latest(i)].by = Prompts
                       /\ call'[k].pc = "find" /\ call'[k].on = Latest(i)
                       /\ call'[k].via = "checkout"
            \/ /\ stale' = (stale \/ ~Payable(call[k].kind) \/ Unrecorded(k))
               /\ \E i \in DOMAIN inv' :
                    /\ Adds(i, Len(pay) + 1) /\ Proceeds(k, Len(pay) + 1)
                    /\ \/ /\ i \in Open(call[k].kind) /\ ~Usable(Latest(i))
                          /\ UNCHANGED << inv, credit >>
                       \/ Open(call[k].kind) = {} /\ Invoices(call[k].kind, i)
<1> DEFINE kind == call[k].kind
           part == IF kind = "RENEWAL" THEN Least(credit, Price) ELSE 0
<1>1. /\ call[k].pc = "reserve" /\ call[k] \in CallState
      /\ kind \in Kinds /\ call[k].by \in {Manual, Prompts} /\ call[k].on = 0
  BY Rows DEF Reserve, At, Typed, Requests, RequestHolds
<1>2. /\ part \in 0 .. credit /\ part \in 0 .. Price /\ credit - part \in Nat /\ Price - part \in Nat
      /\ credit \in Nat
  <2>1. credit \in Nat /\ Price \in Nat
    BY BillingAssumption DEF Typed, AccountOK
  <2>2. Least(credit, Price) \in Nat /\ Least(credit, Price) <= credit /\ Least(credit, Price) <= Price
    BY <2>1 DEF Least
  <2>3. part \in Nat /\ part <= credit /\ part <= Price
    BY <2>1, <2>2
  <2> HIDE DEF part
  <2> QED BY <2>1, <2>3
<1>3. CASE \E i \in Open(kind) :
             Usable(Latest(i)) /\ Reuses(k, Latest(i)) /\ UNCHANGED << credit, inv, pay, outside, stale >>
  <2>1. PICK i \in Open(kind) :
             Usable(Latest(i)) /\ Reuses(k, Latest(i)) /\ UNCHANGED << credit, inv, pay, outside, stale >>
    BY <1>3
  <2>2. Latest(i) \in DOMAIN pay
    BY LatestExists DEF Open
  <2>3. Books' /\ Grown
    BY <2>1, BooksUntouched
  <2>4. AccountOK' /\ BoundsOK'
    BY <2>1 DEF Reserve, Typed, AccountOK, BoundsOK, account
  <2> DEFINE c == [ call[k] EXCEPT !.pc = "find", !.on = Latest(i), !.via = "checkout" ]
  <2>5. \/ Ends(k)
        \/ /\ call' = [call EXCEPT ![k] = c]
           /\ pay[Latest(i)].by = call[k].by /\ pay[Latest(i)].by # Manual
           /\ pay[Latest(i)].status # "COMPLETED"
    BY <2>1 DEF Reuses, Ends
  <2>6. CASE Ends(k)
    <3>1. call'[k] = Idle /\ RequestHolds(k)' /\ OnlyCall(k) /\ call' \in [Calls -> CallState']
      BY <2>3, <2>6, Ends1 DEF Becomes
    <3> QED BY <1>1, <2>1, <2>3, <2>4, <3>1, Assembled DEF outside
  <2>7. CASE /\ call' = [call EXCEPT ![k] = c]
             /\ pay[Latest(i)].by = call[k].by /\ pay[Latest(i)].by # Manual
             /\ pay[Latest(i)].status # "COMPLETED"
    <3>1. call[k] \in CallState' /\ "find" \in CallPC /\ Latest(i) \in 0 .. Len(pay')
      BY <1>1, <2>1, <2>2, Rows DEF CallState, CallPC
    <3>2. c \in CallState' /\ c.pc = "find" /\ c.on = Latest(i) /\ c.via = "checkout"
      BY <3>1 DEF CallState
    <3>3. call' \in [Calls -> CallState'] /\ OnlyCall(k) /\ call'[k] = c
      BY <2>3, <2>7, <3>2, CallWritten, Lengths
    <3>4. pay[Latest(i)].by = Prompts /\ pay[Latest(i)].status \in Live /\ pay' = pay
      BY <1>1, <2>1, <2>7 DEF Usable
    <3> HIDE DEF c
    <3>5. call'[k].pc = "find" /\ call'[k].on = Latest(i) /\ call'[k].via = "checkout"
      BY <3>2, <3>3
    <3>6. RequestHolds(k)'
      <4> PICK p \in DOMAIN pay : p = Latest(i)
        BY <2>2
      <4>1. call'[k].pc = "find" /\ call'[k].on = p /\ call'[k].via = "checkout"
            /\ pay'[p].by = Prompts /\ p # 0
        BY <3>4, <3>5, Rows
      <4> QED BY <4>1 DEF RequestHolds, Asking, Reviewing, Marking, On
    <3> QED BY <1>1, <2>1, <2>3, <2>4, <3>3, <3>4, <3>5, <3>6, Assembled DEF outside
  <2> QED BY <2>5, <2>6, <2>7
<1>4. ASSUME NEW i, NEW total, Opens(k, i, total, call[k].by)
      PROVE  stale' = (stale \/ ~Payable(kind) \/ Unrecorded(k)) /\ BoundsOK'
  <2>1. stale' = (stale \/ ~Payable(kind) \/ Unrecorded(k)) /\ UNCHANGED << drops, errors >>
    BY <1>4 DEF Opens, Counts, Reserve
  <2> QED BY <2>1 DEF Typed, BoundsOK
<1>5. CASE \E i \in Open(kind) :
             /\ ~Usable(Latest(i)) /\ Opens(k, i, Price - inv[i].reserved, call[k].by)
             /\ UNCHANGED << credit, inv >>
  <2>1. PICK i \in Open(kind) :
             /\ ~Usable(Latest(i)) /\ Opens(k, i, Price - inv[i].reserved, call[k].by)
             /\ UNCHANGED << credit, inv >>
    BY <1>5
  <2>2. i \in DOMAIN inv /\ Price - inv[i].reserved \in Nat
    BY Rows, BillingAssumption DEF Open, InvoiceRow
  <2>3. inv' \in Seq(InvoiceRow) /\ Len(inv) <= Len(inv')
    BY <2>1, Rows DEF Typed
  <2>4. /\ Books' /\ Grown /\ Adds(i, Len(pay) + 1) /\ Proceeds(k, Len(pay) + 1)
        /\ RequestHolds(k)' /\ OnlyCall(k) /\ call' \in [Calls -> CallState']
    BY <1>1, <2>1, <2>2, <2>3, OpensDoes
  <2>5. AccountOK'
    BY <2>1 DEF Reserve, Typed, AccountOK, account
  <2>6. Typed'
    BY <1>4, <2>1, <2>4, <2>5, Assembled
  <2> QED BY <1>1, <1>4, <2>1, <2>2, <2>4, <2>6
<1>6. CASE /\ Open(kind) = {}
           /\ inv' = Append(inv, [ kind |-> kind, status |-> "OPEN", reserved |-> part,
                app |-> IF part = 0 THEN "none" ELSE "RESERVED" ])
           /\ credit' = credit - part
           /\ Opens(k, Len(inv) + 1, Price - part, call[k].by)
  <2> DEFINE row == [ kind |-> kind, status |-> "OPEN", reserved |-> part,
                      app |-> IF part = 0 THEN "none" ELSE "RESERVED" ]
  <2>1. /\ row \in InvoiceRow /\ row.kind = kind /\ row.status = "OPEN" /\ row.reserved = part
        /\ row.app = IF part = 0 THEN "none" ELSE "RESERVED"
    <3> HIDE DEF part
    <3> QED BY <1>1, <1>2 DEF InvoiceRow
  <2>2. inv' = Append(inv, row)
    BY <1>6
  <2> HIDE DEF row
  <2> PICK i \in Nat : i = Len(inv) + 1
    BY Rows
  <2>3. /\ inv' \in Seq(InvoiceRow) /\ Len(inv') = i /\ DOMAIN inv' = DOMAIN inv \cup {i}
        /\ i \notin DOMAIN inv /\ inv'[i] = row /\ \A j \in DOMAIN inv : inv'[j] = inv[j]
    BY <2>1, <2>2, Appended DEF Typed
  <2>4. Opens(k, i, Price - part, call[k].by) /\ Len(inv) <= Len(inv')
    BY <1>6, <2>3, Rows
  <2>5. /\ Books' /\ Grown /\ Adds(i, Len(pay) + 1) /\ Proceeds(k, Len(pay) + 1)
        /\ RequestHolds(k)' /\ OnlyCall(k) /\ call' \in [Calls -> CallState']
    <3> HIDE DEF part
    <3> QED BY <1>1, <1>2, <2>3, <2>4, OpensDoes
  <2>6. AccountOK'
    BY <1>2, <1>6 DEF Reserve, Typed, AccountOK, account
  <2>7. Typed'
    BY <1>4, <2>4, <2>5, <2>6, Assembled
  <2>8. Invoices(kind, i)
    <3> HIDE DEF part
    <3> QED BY <1>2, <1>6, <2>1, <2>3 DEF Invoices
  <2> QED BY <1>1, <1>4, <1>6, <2>3, <2>4, <2>5, <2>7, <2>8
<1>7. \/ \E i \in Open(kind) :
           Usable(Latest(i)) /\ Reuses(k, Latest(i)) /\ UNCHANGED << credit, inv, pay, outside, stale >>
      \/ \E i \in Open(kind) :
           /\ ~Usable(Latest(i)) /\ Opens(k, i, Price - inv[i].reserved, call[k].by)
           /\ UNCHANGED << credit, inv >>
      \/ /\ Open(kind) = {}
         /\ inv' = Append(inv, [ kind |-> kind, status |-> "OPEN", reserved |-> part,
              app |-> IF part = 0 THEN "none" ELSE "RESERVED" ])
         /\ credit' = credit - part
         /\ Opens(k, Len(inv) + 1, Price - part, call[k].by)
  <2> HIDE DEF part
  <2> QED BY DEF Reserve, part
<1> QED BY <1>3, <1>5, <1>6, <1>7
-----------------------------------------------------------------------------
(* What the books say of a payment, and what M-Pesa knows of it *)
PromptOK(p) ==
  /\ pay[p].by = Prompts /\ pay[p].review = "none"
  /\ \/ pay[p].status = "PENDING" /\ (pay[p].ref <=> answer[p] # "none")
     \/ pay[p].status = "PROCESSING" /\ ~pay[p].ref
     \/ pay[p].status = "COMPLETED" /\ pay[p].ref /\ answer[p] = "COMPLETED"
     \/ pay[p].status = "FAILED" /\ answer[p] \in {"none", "FAILED"}

ReceiptOK(p) ==
  /\ pay[p].by = Manual /\ answer[p] = "none"
  /\ \/ pay[p].status = "PENDING" /\ ~pay[p].ref /\ pay[p].review = "none"
     \/ pay[p].status = "PROCESSING" /\ pay[p].ref
     \/ pay[p].status = "COMPLETED" /\ pay[p].ref /\ pay[p].review = "APPROVED"
     \/ pay[p].status = "FAILED" /\ pay[p].ref /\ pay[p].review = "REJECTED"

CreditedOK(p) ==
  /\ pay[p].by = Credited /\ answer[p] = "none"
  /\ pay[p].status = "COMPLETED" /\ ~pay[p].ref /\ pay[p].review = "none"

RecordOK(p) == PromptOK(p) \/ ReceiptOK(p) \/ CreditedOK(p)

Recorded == \A p \in DOMAIN pay : RecordOK(p)

(* How far the payment of a request has come *)
Progress(k) ==
  LET c == call[k] status == pay[On(k)].status a == answer[On(k)] IN
  /\ c.pc = "claim" /\ c.seen = "FAILED" => status = "FAILED"
  /\ c.pc = "push" => status = "PROCESSING" /\ a = "none"
  /\ c.pc = "store" => status = "PROCESSING" /\ (c.want = "PENDING" <=> a # "none")
  /\ c.pc = "unpay" => status = "FAILED" \/ (status = "PROCESSING" /\ a = "none")
  /\ c.pc = "close" => status = "FAILED"
  /\ c.pc = "update" => status \in {"PENDING", c.want} /\ a = c.want
  /\ c.pc \in Marking /\ c.via # "review" => status = c.want

Progressing == \A k \in Calls : Progress(k)

(* At most one request has claimed a prompt and not yet stored what became of it *)
Sends(k) == call[k].pc \in {"push", "store", "unpay"} /\ pay[On(k)].status = "PROCESSING"

OneSender == \A j, k \in Calls : j # k /\ Sends(j) /\ Sends(k) => On(j) # On(k)

Sound == Typed /\ Recorded /\ Progressing /\ OneSender

LEMMA IdleProgress ==
  ASSUME NEW k \in Calls, call'[k] = Idle
  PROVE  Progress(k)' /\ ~Sends(k)'
<1>1. Idle.pc = "idle"
  BY DEF Idle
<1> QED BY <1>1 DEF Progress, Sends, Marking

(* A request whose payment is untouched is where it was *)
LEMMA ProgressStays ==
  ASSUME NEW j \in Calls, call'[j] = call[j], Progress(j),
         pay'[On(j)] = pay[On(j)], answer'[On(j)] = answer[On(j)]
  PROVE  Progress(j)' /\ (Sends(j)' <=> Sends(j)) /\ On(j)' = On(j)
BY DEF Progress, Sends, On

LEMMA RecordStays ==
  ASSUME NEW p, pay'[p] = pay[p], answer'[p] = answer[p], RecordOK(p)
  PROVE  RecordOK(p)'
BY DEF RecordOK, PromptOK, ReceiptOK, CreditedOK

(* A step that writes no payment *)
LEMMA SoundCall ==
  ASSUME Sound, NEW k \in Calls, Typed', OnlyCall(k), UNCHANGED << pay, answer >>,
         Progress(k)', Sends(k)' => Sends(k) /\ On(k)' = On(k)
  PROVE  Sound'
<1>1. \A j \in Calls : j # k => Progress(j)' /\ (Sends(j)' <=> Sends(j)) /\ On(j)' = On(j)
  BY ProgressStays DEF Sound, Progressing, OnlyCall
<1>2. Recorded'
  BY RecordStays DEF Sound, Recorded
<1>3. OneSender'
  BY <1>1 DEF Sound, OneSender
<1> QED BY <1>1, <1>2, <1>3 DEF Sound, Progressing

LEMMA SoundEnd ==
  ASSUME Sound, NEW k \in Calls, Typed', OnlyCall(k), UNCHANGED << pay, answer >>, call'[k] = Idle
  PROVE  Sound'
BY IdleProgress, SoundCall

(* A step of a request that writes one payment *)
LEMMA SoundPay ==
  ASSUME Sound, NEW k \in Calls, NEW p \in DOMAIN pay, Typed', OnlyCall(k),
         DOMAIN pay' = DOMAIN pay,
         \A q \in DOMAIN pay : q # p => pay'[q] = pay[q] /\ answer'[q] = answer[q],
         RecordOK(p)', Progress(k)',
         \A j \in Calls : j # k /\ On(j) = p => Progress(j)' /\ ~Sends(j)',
         Sends(k)' => On(k)' = p
  PROVE  Sound'
<1>1. ASSUME NEW j \in Calls, j # k
      PROVE  Progress(j)' /\ (Sends(j)' => Sends(j) /\ On(j) # p) /\ On(j)' = On(j)
  <2>1. call'[j] = call[j] /\ On(j)' = On(j) /\ Progress(j) /\ RequestHolds(j)
    BY <1>1 DEF OnlyCall, On, Sound, Progressing, Typed, Requests
  <2>2. CASE On(j) = p
    BY <1>1, <2>1, <2>2
  <2>3. CASE On(j) # p /\ On(j) \in DOMAIN pay
    BY <2>1, <2>3, ProgressStays
  <2>4. CASE On(j) \notin DOMAIN pay
    <3>1. call[j].pc \in {"idle", "reserve"}
      BY <1>1, <2>4, OnPayment DEF Sound
    <3> QED BY <2>1, <3>1 DEF Progress, Sends, Marking
  <2> QED BY <2>2, <2>3, <2>4
<1>2. Recorded'
  BY RecordStays DEF Sound, Recorded
<1>3. OneSender'
  BY <1>1 DEF Sound, OneSender
<1> QED BY <1>1, <1>2, <1>3 DEF Sound, Progressing

(* A step of nobody's request *)
LEMMA SoundUnasked ==
  ASSUME Sound, NEW p \in DOMAIN pay, Typed', call' = call, DOMAIN pay' = DOMAIN pay,
         \A q \in DOMAIN pay : q # p => pay'[q] = pay[q] /\ answer'[q] = answer[q],
         RecordOK(p)',
         \A j \in Calls : On(j) = p => Progress(j)' /\ (Sends(j)' => Sends(j))
  PROVE  Sound'
<1>1. ASSUME NEW j \in Calls
      PROVE  Progress(j)' /\ (Sends(j)' => Sends(j)) /\ On(j)' = On(j)
  <2>1. call'[j] = call[j] /\ On(j)' = On(j) /\ Progress(j) /\ RequestHolds(j)
    BY <1>1 DEF On, Sound, Progressing, Typed, Requests
  <2>2. CASE On(j) = p
    BY <1>1, <2>1, <2>2
  <2>3. CASE On(j) # p /\ On(j) \in DOMAIN pay
    BY <2>1, <2>3, ProgressStays
  <2>4. CASE On(j) \notin DOMAIN pay
    <3>1. call[j].pc \in {"idle", "reserve"}
      BY <1>1, <2>4, OnPayment DEF Sound
    <3> QED BY <2>1, <3>1 DEF Progress, Sends, Marking
  <2> QED BY <2>2, <2>3, <2>4
<1>2. Recorded'
  BY RecordStays DEF Sound, Recorded
<1>3. OneSender'
  BY <1>1 DEF Sound, OneSender
<1> QED BY <1>1, <1>2, <1>3 DEF Sound, Progressing
-----------------------------------------------------------------------------
(* Every step keeps what is recorded *)

LEMMA SoundReserve ==
  ASSUME Sound, NEW k \in Calls, Reserve(k)
  PROVE  Sound'
<1>1. Typed' /\ OnlyCall(k)
  BY ReserveDoes DEF Sound
<1>2. CASE UNCHANGED << pay, answer >> /\ (call'[k] = Idle \/ call'[k].pc = "find")
  <2>1. CASE call'[k] = Idle
    BY <1>1, <1>2, <2>1, SoundEnd
  <2>2. CASE call'[k].pc = "find"
    <3>1. Progress(k)' /\ ~Sends(k)'
      BY <2>2 DEF Progress, Sends, Marking
    <3> QED BY <1>1, <1>2, <3>1, SoundCall
  <2> QED BY <1>2, <2>1, <2>2
<1>3. ASSUME NEW i, Adds(i, Len(pay) + 1), Proceeds(k, Len(pay) + 1)
      PROVE  Sound'
  <2> PICK p \in Nat : p = Len(pay) + 1
    BY Rows DEF Sound
  <2>1. Adds(i, p) /\ Proceeds(k, p)
    BY <1>3
  <2>2. RecordOK(p)'
    BY <2>1 DEF Adds, RecordOK, PromptOK, ReceiptOK, CreditedOK, Credited, Manual, Prompts
  <2>3. Recorded'
    BY <2>1, <2>2, RecordStays DEF Adds, Sound, Recorded
  <2>4. Progress(k)' /\ ~Sends(k)'
    <3>1. CASE call'[k] = Idle
      BY <3>1, IdleProgress
    <3>2. CASE call'[k].pc = "find"
      BY <3>2 DEF Progress, Sends, Marking
    <3>3. CASE Becomes(k, "invoice", p, "COMPLETED", "checkout") /\ pay'[p].by = Credited
      <4>1. pay'[p].status = "COMPLETED"
        BY <2>1, <3>3 DEF Adds, Credited, Manual, Prompts
      <4> QED BY <3>3, <4>1 DEF Becomes, Progress, Sends, Marking, On
    <3> QED BY <2>1, <3>1, <3>2, <3>3 DEF Proceeds
  <2>5. ASSUME NEW j \in Calls, j # k
        PROVE  Progress(j)' /\ (Sends(j)' => Sends(j)) /\ On(j)' = On(j)
    <3>1. call'[j] = call[j] /\ On(j)' = On(j) /\ Progress(j) /\ RequestHolds(j)
      BY <1>1, <2>5 DEF OnlyCall, On, Sound, Progressing, Typed, Requests
    <3>2. CASE On(j) \in DOMAIN pay
      BY <2>1, <3>1, <3>2, ProgressStays DEF Adds
    <3>3. CASE On(j) \notin DOMAIN pay
      <4>1. call[j].pc \in {"idle", "reserve"}
        BY <3>3, OnPayment DEF Sound
      <4> QED BY <3>1, <4>1 DEF Progress, Sends, Marking
    <3> QED BY <3>2, <3>3
  <2>6. OneSender'
    BY <2>4, <2>5 DEF Sound, OneSender
  <2> QED BY <1>1, <2>3, <2>4, <2>5, <2>6 DEF Sound, Progressing
<1> QED BY <1>2, <1>3, ReserveDoes DEF Sound

LEMMA SoundAsk ==
  ASSUME Sound, NEW k \in Calls, Start(k) \/ Find(k)
  PROVE  Sound'
<1>1. CASE Start(k)
  <2>1. Typed' /\ OnlyCall(k) /\ call'[k].pc = "reserve" /\ UNCHANGED << pay, answer >>
    BY <1>1, StartDoes DEF Sound, Start, outside
  <2>2. Progress(k)' /\ ~Sends(k)'
    BY <2>1 DEF Progress, Sends, Marking
  <2> QED BY <2>1, <2>2, SoundCall
<1>2. CASE Find(k)
  <2>1. Typed' /\ OnlyCall(k) /\ UNCHANGED << pay, answer >> /\ On(k) \in DOMAIN pay
    BY <1>2, FindDoes DEF Sound, Find, outside
  <2>2. CASE call'[k].pc = "claim" /\ call'[k].on = On(k) /\ call'[k].seen = pay[On(k)].status
    <3>1. Progress(k)' /\ ~Sends(k)'
      BY <2>1, <2>2 DEF Progress, Sends, Marking, On
    <3> QED BY <2>1, <3>1, SoundCall
  <2>3. CASE /\ pay[On(k)].status = "FAILED"
             /\ \E pc \in {"credits", "unpay"} : Becomes(k, pc, On(k), "FAILED", "checkout")
    <3>1. Progress(k)' /\ ~Sends(k)'
      BY <2>1, <2>3 DEF Progress, Sends, Marking, On, Becomes
    <3> QED BY <2>1, <3>1, SoundCall
  <2>4. CASE call'[k] = Idle
    BY <2>1, <2>4, SoundEnd
  <2> QED BY <1>2, <2>2, <2>3, <2>4, FindDoes DEF Sound
<1> QED BY <1>1, <1>2

LEMMA SoundClaim ==
  ASSUME Sound, NEW k \in Calls, Claim(k)
  PROVE  Sound'
<1> PICK p \in DOMAIN pay : p = On(k)
  BY ClaimDoes DEF Sound
<1>1. /\ Typed' /\ OnlyCall(k) /\ pay[p].by = Prompts /\ answer' = answer
      /\ RecordOK(p) /\ Progress(k) /\ call[k].pc = "claim"
  BY ClaimDoes DEF Sound, Claim, At, outside, Recorded, Progressing
<1>2. CASE /\ pay[p].status = "PENDING" /\ ~pay[p].ref
           /\ Sets(p, "PROCESSING", pay[p].ref, pay[p].review)
           /\ Becomes(k, "push", p, call[k].want, "checkout")
  <2>1. answer[p] = "none" /\ RecordOK(p)'
    BY <1>1, <1>2 DEF RecordOK, PromptOK, ReceiptOK, CreditedOK, Sets, Manual, Prompts, Credited
  <2>2. Progress(k)' /\ On(k)' = p
    BY <1>1, <1>2, <2>1 DEF Progress, Marking, Becomes, Sets, On
  <2>3. ASSUME NEW j \in Calls, j # k, On(j) = p
        PROVE  Progress(j)' /\ ~Sends(j)'
    <3>1. Progress(j) /\ RequestHolds(j) /\ call'[j] = call[j] /\ On(j)' = p
      BY <1>1, <2>3 DEF Sound, Progressing, Typed, Requests, OnlyCall, On
    <3>2. call[j].pc \notin {"push", "store", "unpay", "close", "update"}
      BY <1>2, <2>3, <3>1 DEF Progress, RequestHolds
    <3>3. ~(call[j].pc \in Marking /\ call[j].via # "review")
      BY <1>2, <2>3, <3>1 DEF Progress, RequestHolds, Results
    <3>4. ~(call[j].pc = "claim" /\ call[j].seen = "FAILED")
      BY <1>2, <2>3, <3>1 DEF Progress
    <3> QED BY <3>1, <3>2, <3>3, <3>4 DEF Progress, Sends
  <2> QED BY <1>1, <1>2, <2>1, <2>2, <2>3, SoundPay DEF Sets
<1>3. CASE /\ pay' = pay /\ call[k].seen = "FAILED"
           /\ \E pc \in {"credits", "unpay"} : Becomes(k, pc, p, "FAILED", "checkout")
  <2>1. pay[p].status = "FAILED"
    BY <1>1, <1>3 DEF Progress
  <2>2. Progress(k)' /\ ~Sends(k)'
    BY <1>1, <1>3, <2>1 DEF Progress, Sends, Marking, On, Becomes
  <2> QED BY <1>1, <1>3, <2>2, SoundCall
<1>4. CASE pay' = pay /\ call'[k] = Idle
  BY <1>1, <1>4, SoundEnd
<1> QED BY <1>2, <1>3, <1>4, ClaimDoes DEF Sound

LEMMA SoundPush ==
  ASSUME Sound, NEW k \in Calls, Push(k)
  PROVE  Sound'
<1> PICK p \in DOMAIN pay : p = On(k)
  BY PushDoes DEF Sound
<1>1. /\ Typed' /\ OnlyCall(k) /\ pay[p].by = Prompts /\ pay' = pay
      /\ RecordOK(p) /\ pay[p].status = "PROCESSING" /\ answer[p] = "none" /\ Sends(k)
  BY PushDoes DEF Sound, Push, At, Recorded, Progressing, Progress, Sends
<1>2. CASE /\ answer'[p] = "asked" /\ Becomes(k, "store", p, "PENDING", "checkout")
           /\ \A q \in DOMAIN pay : q # p => answer'[q] = answer[q]
  <2>1. RecordOK(p)'
    BY <1>1 DEF RecordOK, PromptOK, ReceiptOK, CreditedOK, Manual, Prompts, Credited
  <2>2. Progress(k)' /\ On(k)' = p
    BY <1>1, <1>2 DEF Progress, Marking, Becomes, On
  <2>3. ASSUME NEW j \in Calls, j # k, On(j) = p
        PROVE  Progress(j)' /\ ~Sends(j)'
    <3>1. Progress(j) /\ RequestHolds(j) /\ call'[j] = call[j] /\ On(j)' = p /\ ~Sends(j)
      BY <1>1, <2>3 DEF Sound, Progressing, Typed, Requests, OnlyCall, On, OneSender
    <3>2. call[j].pc \notin {"push", "store", "unpay"}
      BY <1>1, <2>3, <3>1 DEF Sends
    <3>3. call[j].pc # "update"
      BY <1>1, <2>3, <3>1 DEF Progress, RequestHolds, Results
    <3> QED BY <1>1, <2>3, <3>1, <3>2, <3>3 DEF Progress, Sends
  <2> QED BY <1>1, <1>2, <2>1, <2>2, <2>3, SoundPay
<1>3. CASE /\ answer' = answer
           /\ \E pc \in {"store", "unpay"} : Becomes(k, pc, p, "FAILED", "checkout")
  <2>1. Progress(k)' /\ On(k)' = p
    BY <1>1, <1>3 DEF Progress, Marking, Becomes, On
  <2> QED BY <1>1, <1>3, <2>1, SoundCall
<1> QED BY <1>2, <1>3, PushDoes DEF Sound

LEMMA SoundStore ==
  ASSUME Sound, NEW k \in Calls, Store(k)
  PROVE  Sound'
<1> PICK p \in DOMAIN pay : p = On(k)
  BY StoreDoes DEF Sound
<1>1. /\ Typed' /\ OnlyCall(k) /\ pay[p].by = Prompts /\ answer' = answer
      /\ RecordOK(p) /\ pay[p].status = "PROCESSING" /\ Sends(k)
      /\ call[k].want \in {"PENDING", "FAILED"} /\ (call[k].want = "PENDING" <=> answer[p] # "none")
      /\ Sets(p, call[k].want, TRUE, pay[p].review)
  BY StoreDoes DEF Sound, Store, At, Recorded, Progressing, Progress, Sends, outside
<1>2. RecordOK(p)'
  BY <1>1 DEF RecordOK, PromptOK, ReceiptOK, CreditedOK, Manual, Prompts, Credited, Sets
<1>3. Progress(k)' /\ ~Sends(k)'
  <2>1. CASE call[k].want = "FAILED"
    <3>1. \E pc \in {"credits", "unpay"} : Becomes(k, pc, p, "FAILED", "checkout")
      BY <2>1, StoreDoes DEF Sound
    <3> QED BY <1>1, <2>1, <3>1 DEF Progress, Sends, Marking, Becomes, Sets, On
  <2>2. CASE call[k].want # "FAILED"
    <3>1. call'[k] = Idle
      BY <2>2, StoreDoes DEF Sound
    <3> QED BY <3>1, IdleProgress
  <2> QED BY <2>1, <2>2
<1>4. ASSUME NEW j \in Calls, j # k, On(j) = p
      PROVE  Progress(j)' /\ ~Sends(j)'
  <2>1. Progress(j) /\ RequestHolds(j) /\ call'[j] = call[j] /\ On(j)' = p /\ ~Sends(j)
    BY <1>1, <1>4 DEF Sound, Progressing, Typed, Requests, OnlyCall, On, OneSender
  <2>2. call[j].pc \notin {"push", "store", "unpay"}
    BY <1>1, <1>4, <2>1 DEF Sends
  <2>3. call[j].pc \notin {"update", "close"}
    BY <1>1, <1>4, <2>1 DEF Progress, RequestHolds, Results
  <2>4. ~(call[j].pc \in Marking /\ call[j].via # "review")
    BY <1>1, <1>4, <2>1 DEF Progress, RequestHolds, Results
  <2>5. ~(call[j].pc = "claim" /\ call[j].seen = "FAILED")
    BY <1>1, <1>4, <2>1 DEF Progress
  <2> QED BY <2>1, <2>2, <2>3, <2>4, <2>5 DEF Progress, Sends
<1> QED BY <1>1, <1>2, <1>3, <1>4, SoundPay DEF Sets

LEMMA SoundUnpay ==
  ASSUME Sound, NEW k \in Calls, Unpay(k)
  PROVE  Sound'
<1> PICK p \in DOMAIN pay : p = On(k)
  BY UnpayDoes DEF Sound
<1>1. /\ Typed' /\ OnlyCall(k) /\ pay[p].by = Prompts /\ answer' = answer
      /\ RecordOK(p) /\ call[k].pc = "unpay"
      /\ pay[p].status = "FAILED" \/ (pay[p].status = "PROCESSING" /\ answer[p] = "none")
      /\ Sets(p, "FAILED", pay[p].ref, pay[p].review)
  BY UnpayDoes DEF Sound, Unpay, At, Recorded, Progressing, Progress, outside
<1>2. RecordOK(p)'
  BY <1>1 DEF RecordOK, PromptOK, ReceiptOK, CreditedOK, Manual, Prompts, Credited, Sets
<1>3. Progress(k)' /\ ~Sends(k)'
  <2>1. \E pc \in {"credits", "close"} : Becomes(k, pc, p, "FAILED", "checkout")
    BY UnpayDoes DEF Sound
  <2> QED BY <1>1, <2>1 DEF Progress, Sends, Marking, Becomes, Sets, On
<1>4. ASSUME NEW j \in Calls, j # k, On(j) = p
      PROVE  Progress(j)' /\ ~Sends(j)'
  <2>1. Progress(j) /\ RequestHolds(j) /\ call'[j] = call[j] /\ On(j)' = p
    BY <1>1, <1>4 DEF Sound, Progressing, Typed, Requests, OnlyCall, On
  <2>2. CASE pay[p].status = "FAILED"
    <3>1. pay'[p].status = pay[p].status
      BY <1>1, <2>2 DEF Sets
    <3> QED BY <1>1, <1>4, <2>1, <2>2, <3>1 DEF Progress, Sends
  <2>3. CASE pay[p].status = "PROCESSING"
    <3>1. ~Sends(j)
      BY <1>1, <1>4, <2>3 DEF Sound, OneSender, Sends
    <3>2. call[j].pc \notin {"push", "store", "unpay"}
      BY <1>1, <1>4, <2>3, <3>1 DEF Sends
    <3>3. call[j].pc \notin {"update", "close"}
      BY <1>1, <1>4, <2>1, <2>3 DEF Progress, RequestHolds, Results
    <3>4. ~(call[j].pc \in Marking /\ call[j].via # "review")
      BY <1>1, <1>4, <2>1, <2>3 DEF Progress, RequestHolds, Results
    <3>5. ~(call[j].pc = "claim" /\ call[j].seen = "FAILED")
      BY <1>1, <1>4, <2>1, <2>3 DEF Progress
    <3> QED BY <2>1, <3>2, <3>3, <3>4, <3>5 DEF Progress, Sends
  <2> QED BY <1>1, <2>2, <2>3
<1> QED BY <1>1, <1>2, <1>3, <1>4, SoundPay DEF Sets

LEMMA SoundUpdate ==
  ASSUME Sound, NEW k \in Calls, Update(k)
  PROVE  Sound'
<1> PICK p \in DOMAIN pay : p = On(k)
  BY UpdateDoes DEF Sound
<1>1. /\ Typed' /\ OnlyCall(k) /\ pay[p].by = Prompts /\ answer' = answer /\ pay[p].ref
      /\ RecordOK(p) /\ call[k].want \in Results
      /\ pay[p].status \in {"PENDING", call[k].want} /\ answer[p] = call[k].want
      /\ Sets(p, call[k].want, TRUE, pay[p].review)
  BY UpdateDoes DEF Sound, Update, At, Recorded, Progressing, Progress, outside
<1>2. RecordOK(p)'
  BY <1>1 DEF RecordOK, PromptOK, ReceiptOK, CreditedOK, Manual, Prompts, Credited, Sets, Results
<1>3. Progress(k)' /\ ~Sends(k)'
  <2>1. Becomes(k, "invoice", p, call[k].want, "callback")
    BY UpdateDoes DEF Sound
  <2> QED BY <1>1, <2>1 DEF Progress, Sends, Marking, Becomes, Sets, On
<1>4. ASSUME NEW j \in Calls, j # k, On(j) = p
      PROVE  Progress(j)' /\ ~Sends(j)'
  <2>1. Progress(j) /\ RequestHolds(j) /\ call'[j] = call[j] /\ On(j)' = p
    BY <1>1, <1>4 DEF Sound, Progressing, Typed, Requests, OnlyCall, On
  <2>2. pay'[p].status = call[k].want /\ answer'[p] = call[k].want
    BY <1>1 DEF Sets
  <2>3. call[j].pc \notin {"push", "store"}
    BY <1>1, <1>4, <2>1 DEF Progress, Results
  <2>4. call[j].pc \in {"unpay", "close"} => call[k].want = "FAILED"
    BY <1>1, <1>4, <2>1 DEF Progress, Results
  <2>5. call[j].pc = "claim" /\ call[j].seen = "FAILED" => call[k].want = "FAILED"
    BY <1>1, <1>4, <2>1 DEF Progress
  <2>6. call[j].pc = "update" => call[j].want = call[k].want
    BY <1>1, <1>4, <2>1 DEF Progress
  <2>7. call[j].pc \in Marking /\ call[j].via # "review" => call[j].want = call[k].want
    BY <1>1, <1>4, <2>1 DEF Progress, RequestHolds, Results
  <2> QED BY <1>1, <2>1, <2>2, <2>3, <2>4, <2>5, <2>6, <2>7 DEF Progress, Sends, Results
<1> QED BY <1>1, <1>2, <1>3, <1>4, SoundPay DEF Sets

LEMMA SoundDeliver ==
  ASSUME Sound, NEW k \in Calls, NEW p \in DOMAIN pay, Deliver(k, p)
  PROVE  Sound'
<1>1. RecordOK(p) /\ (answer[p] # "none" => pay[p].by = Prompts)
  BY DEF Sound, Recorded, RecordOK, PromptOK, ReceiptOK, CreditedOK
<1>2. Typed' /\ OnlyCall(k) /\ UNCHANGED << pay, answer >> /\ At(k, "idle")
  BY <1>1, DeliverDoes DEF Sound, Deliver, Delivers
<1>3. CASE call'[k] = Idle
  BY <1>2, <1>3, SoundEnd
<1>4. CASE call'[k] = call[k]
  <2>1. Progress(k)' /\ ~Sends(k)'
    BY <1>2, <1>4 DEF Progress, Sends, Marking, At
  <2> QED BY <1>2, <2>1, SoundCall
<1>5. CASE /\ pay[p].status \notin {answer[p], "COMPLETED"} /\ answer[p] \in Results /\ pay[p].ref
           /\ Becomes(k, "update", p, answer[p], "callback")
  <2>1. pay[p].status = "PENDING"
    BY <1>1, <1>5 DEF RecordOK, PromptOK, ReceiptOK, CreditedOK, Results
  <2>2. Progress(k)' /\ ~Sends(k)'
    BY <1>2, <1>5, <2>1 DEF Progress, Sends, Marking, Becomes, On
  <2> QED BY <1>2, <2>2, SoundCall
<1> QED BY <1>1, <1>3, <1>4, <1>5, DeliverDoes DEF Sound

LEMMA SoundExamine ==
  ASSUME Sound, NEW k \in Calls, NEW p \in DOMAIN pay, Examine(k, p) \/ Resume(k, p)
  PROVE  Sound'
<1>1. pay[p].by = Manual /\ pay[p].ref
  BY DEF Examine, Resume, Unfinished, Sound, Recorded, RecordOK, PromptOK, ReceiptOK, CreditedOK,
         Manual, Prompts, Credited
<1>2. /\ Typed' /\ OnlyCall(k) /\ UNCHANGED << pay, answer >>
      /\ \E pc \in {"verdict", "invoice"}, want \in Results : Becomes(k, pc, p, want, "review")
  <2>1. CASE Examine(k, p)
    BY <1>1, <2>1, ExamineDoes DEF Sound, Examine, outside
  <2>2. CASE Resume(k, p)
    BY <1>1, <2>2, ResumeDoes DEF Sound, Resume, outside, Results
  <2> QED BY <2>1, <2>2
<1>3. Progress(k)' /\ ~Sends(k)'
  BY <1>2 DEF Progress, Sends, Marking, Becomes
<1> QED BY <1>2, <1>3, SoundCall

(* Nothing that is recorded of a receipt holds up another review of it *)
LEMMA ReviewersFree ==
  ASSUME Sound, NEW j \in Calls, On(j) \in DOMAIN pay, pay[On(j)].by = Manual
  PROVE  /\ call[j].pc \notin Asking \cup {"update"}
         /\ call[j].pc \in Marking => call[j].via = "review"
BY DEF Sound, Typed, Requests, RequestHolds, Manual, Prompts, Credited

LEMMA SoundReview ==
  ASSUME Sound, NEW k \in Calls, Verdict(k) \/ Settled(k) \/ Reopen(k)
  PROVE  Sound'
<1>1. call[k].pc \in Reviewing /\ answer' = answer
  BY DEF Verdict, Settled, Reopen, At, Reviewing, outside
<1> PICK p \in DOMAIN pay : p = On(k)
  BY <1>1, AtReview DEF Sound
<1>2. Typed' /\ OnlyCall(k) /\ pay[p].by = Manual /\ RecordOK(p)
  BY <1>1, AtReview, VerdictDoes, SettledDoes, ReopenDoes DEF Sound, Recorded
<1>3. CASE pay' = pay /\ call'[k] = Idle
  BY <1>1, <1>2, <1>3, SoundEnd
<1>4. ASSUME NEW s, NEW v, Sets(p, s, pay[p].ref, v),
             \/ s \in Results /\ pay[p].status = "PROCESSING" /\ v = ReviewOf(s)
             \/ s = pay[p].status /\ v = pay[p].review
             \/ s = "PROCESSING" /\ pay[p].ref,
             call'[k] = Idle \/ Becomes(k, "invoice", p, call[k].want, "review")
      PROVE  Sound'
  <2>1. RecordOK(p)'
    BY <1>1, <1>2, <1>4
    DEF RecordOK, PromptOK, ReceiptOK, CreditedOK, Manual, Prompts, Credited, Sets, Results, ReviewOf
  <2>2. Progress(k)' /\ ~Sends(k)'
    <3>1. CASE call'[k] = Idle
      BY <3>1, IdleProgress
    <3>2. CASE Becomes(k, "invoice", p, call[k].want, "review")
      BY <3>2 DEF Becomes, Progress, Sends
    <3> QED BY <1>4, <3>1, <3>2
  <2>3. ASSUME NEW j \in Calls, j # k, On(j) = p
        PROVE  Progress(j)' /\ ~Sends(j)'
    <3>1. call'[j] = call[j] /\ call[j].pc \notin Asking \cup {"update"}
          /\ (call[j].pc \in Marking => call[j].via = "review")
      BY <1>2, <2>3, ReviewersFree DEF OnlyCall
    <3> QED BY <3>1 DEF Progress, Sends, Asking
  <2> QED BY <1>1, <1>2, <1>4, <2>1, <2>2, <2>3, SoundPay DEF Sets
<1>5. CASE Verdict(k)
  BY <1>3, <1>4, <1>5, VerdictDoes DEF Sound
<1>6. CASE Settled(k)
  BY <1>4, <1>6, SettledDoes DEF Sound
<1>7. CASE Reopen(k)
  <2>1. pay[p].ref
    BY <1>1, AtReview DEF Sound
  <2> QED BY <1>4, <1>7, <2>1, ReopenDoes DEF Sound
<1> QED BY <1>5, <1>6, <1>7

(* A request that records a result goes on *)
GoesTo(k) ==
  \/ call'[k] = Idle
  \/ \E pc \in Marking \cup {"settled", "reopen"} :
       Becomes(k, pc, On(k), call[k].want, call[k].via)
  \/ /\ call[k].via = "checkout" /\ call[k].want = "FAILED"
     /\ Becomes(k, "close", On(k), call[k].want, call[k].via)

Marks(k) ==
  \/ MarkInvoice(k) \/ ReadCredits(k) \/ ApplyCredits(k) \/ MarkFee(k) \/ FeeFails(k)
  \/ Activate(k) \/ Swallowed(k)

LEMMA MarksDo ==
  ASSUME Typed, NEW k \in Calls, Marks(k)
  PROVE  /\ Typed' /\ OnlyCall(k) /\ UNCHANGED << pay, answer >> /\ GoesTo(k)
         /\ call[k].pc \in Marking
<1>1. UNCHANGED << pay, answer >> /\ call[k].pc \in Marking
  BY DEF Marks, MarkInvoice, ReadCredits, ApplyCredits, MarkFee, FeeFails, Activate, Swallowed,
         At, Marking, outside
<1>2. CASE MarkInvoice(k)
  BY <1>1, <1>2, MarkInvoiceDoes DEF GoesTo, Marking
<1>3. CASE ReadCredits(k)
  BY <1>1, <1>3, ReadCreditsDoes DEF GoesTo, Marking
<1>4. CASE ApplyCredits(k)
  BY <1>1, <1>4, ApplyCreditsDoes DEF GoesTo, Marking, Continues
<1>5. CASE MarkFee(k)
  BY <1>1, <1>5, MarkFeeDoes DEF GoesTo, Marking, Continues
<1>6. CASE FeeFails(k)
  BY <1>1, <1>6, FeeFailsDoes DEF GoesTo, Marking
<1>7. CASE Activate(k)
  BY <1>1, <1>7, ActivateDoes DEF GoesTo, Marking, Continues
<1>8. CASE Swallowed(k)
  BY <1>1, <1>8, SwallowedDoes DEF GoesTo, Marking, Continues
<1> QED BY <1>2, <1>3, <1>4, <1>5, <1>6, <1>7, <1>8 DEF Marks

LEMMA SoundMarks ==
  ASSUME Sound, NEW k \in Calls, Marks(k)
  PROVE  Sound'
<1>1. /\ Typed' /\ OnlyCall(k) /\ UNCHANGED << pay, answer >> /\ GoesTo(k)
      /\ call[k].pc \in Marking /\ Progress(k)
  BY MarksDo DEF Sound, Progressing
<1>2. CASE call'[k] = Idle
  BY <1>1, <1>2, SoundEnd
<1>3. ASSUME NEW pc \in Marking \cup {"settled", "reopen", "close"},
             Becomes(k, pc, On(k), call[k].want, call[k].via),
             pc = "close" => call[k].via = "checkout" /\ call[k].want = "FAILED"
      PROVE  Sound'
  <2>1. /\ call'[k].pc = pc /\ call'[k].want = call[k].want /\ call'[k].via = call[k].via
        /\ On(k)' = On(k)
    BY <1>3 DEF Becomes, On
  <2>2. pc \notin {"claim", "push", "store", "unpay", "update"}
    BY DEF Marking
  <2>3. call[k].via # "review" => pay[On(k)].status = call[k].want
    BY <1>1 DEF Progress
  <2>4. pc = "close" => pay[On(k)].status = "FAILED"
    BY <1>3, <2>3
  <2>5. Progress(k)' /\ ~Sends(k)'
    BY <1>1, <2>1, <2>2, <2>3, <2>4 DEF Progress, Sends
  <2> QED BY <1>1, <2>5, SoundCall
<1> QED BY <1>1, <1>2, <1>3 DEF GoesTo, Marking

(* A request that ends here *)
LEMMA SoundEnds ==
  ASSUME Sound, NEW k \in Calls, Close(k) \/ Drop(k) \/ Beyond(k)
  PROVE  Sound'
<1>1. Typed' /\ OnlyCall(k) /\ call'[k] = Idle
  BY CloseDoes, DropDoes DEF Sound
<1>2. UNCHANGED << pay, answer >>
  BY DEF Close, Drop, Beyond, outside
<1> QED BY <1>1, <1>2, SoundEnd

LEMMA SoundAnswer ==
  ASSUME Sound, NEW p \in DOMAIN pay, Answer(p)
  PROVE  Sound'
<1>1. /\ Typed' /\ answer[p] = "asked" /\ answer'[p] \in Results
      /\ \A q \in DOMAIN pay : q # p => answer'[q] = answer[q]
      /\ pay' = pay /\ call' = call /\ RecordOK(p)
  BY AnswerDoes DEF Sound, Answer, Recorded
<1>2. RecordOK(p)'
  BY <1>1 DEF RecordOK, PromptOK, ReceiptOK, CreditedOK, Manual, Prompts, Credited, Results
<1>3. ASSUME NEW j \in Calls, On(j) = p
      PROVE  Progress(j)' /\ (Sends(j)' => Sends(j))
  <2>1. Progress(j) /\ call'[j] = call[j] /\ On(j)' = p
    BY <1>1, <1>3 DEF Sound, Progressing, On
  <2>2. call[j].pc \notin {"push", "update"}
    BY <1>1, <1>3, <2>1 DEF Progress, Sound, Typed, Requests, RequestHolds, Results
  <2>3. call[j].pc = "unpay" => pay[p].status = "FAILED"
    BY <1>1, <1>3, <2>1 DEF Progress
  <2> QED BY <1>1, <1>3, <2>1, <2>2, <2>3 DEF Progress, Sends, Results
<1> QED BY <1>1, <1>2, <1>3, SoundUnasked

LEMMA SoundSubmit ==
  ASSUME Sound, NEW p \in DOMAIN pay, Submit(p)
  PROVE  Sound'
<1>1. /\ Typed' /\ pay[p].by = Manual /\ pay[p].status = "PENDING" /\ RecordOK(p)
      /\ Sets(p, "PROCESSING", TRUE, pay[p].review) /\ answer' = answer /\ call' = call
  BY SubmitDoes DEF Sound, Submit, Recorded, outside
<1>2. RecordOK(p)'
  BY <1>1 DEF RecordOK, PromptOK, ReceiptOK, CreditedOK, Manual, Prompts, Credited, Sets
<1>3. ASSUME NEW j \in Calls, On(j) = p
      PROVE  Progress(j)' /\ (Sends(j)' => Sends(j))
  <2>1. call'[j] = call[j] /\ call[j].pc \notin Asking \cup {"update"}
        /\ (call[j].pc \in Marking => call[j].via = "review")
    BY <1>1, <1>3, ReviewersFree
  <2> QED BY <2>1 DEF Progress, Sends, Asking
<1> QED BY <1>1, <1>2, <1>3, SoundUnasked DEF Sets

LEMMA SoundInit ==
  ASSUME Init
  PROVE  Sound
<1>1. /\ inv = << >> /\ pay = << >> /\ answer = << >> /\ sent = << >>
      /\ DOMAIN << >> = {} /\ Len(<< >>) = 0
  BY DEF Init
<1>2. \A k \in Calls : call[k] = Idle
  BY DEF Init
<1>3. Idle \in CallState /\ Idle.pc = "idle" /\ Idle.on = 0
  BY <1>1 DEF Idle, CallState, CallPC, Kinds, Live
<1>4. call \in [Calls -> CallState]
  BY <1>3 DEF Init
<1>5. AccountOK /\ BoundsOK /\ PaymentsOK /\ OutsideOK /\ inv \in Seq(InvoiceRow)
  <2>1. AccountOK
    BY BillingAssumption DEF Init, AccountOK
  <2>5. 0 \in 0 .. MaxDrops /\ 0 \in 0 .. MaxErrors
    BY BillingAssumption
  <2>6. BoundsOK
    BY <2>5 DEF Init, BoundsOK
  <2>2. \A S : << >> \in Seq(S)
    BY EmptySeq
  <2>3. OutsideOK
    BY <1>1, <2>2 DEF OutsideOK
  <2>4. PaymentsOK
    <3>1. Len(pay) <= MaxPayments
      BY <1>1, BillingAssumption
    <3> QED BY <1>1, <2>2, <3>1 DEF PaymentsOK
  <2> QED BY <1>1, <2>1, <2>2, <2>3, <2>4, <2>6
<1>6. Requests /\ Progressing /\ OneSender
  BY <1>2, <1>3
  DEF Requests, RequestHolds, Asking, Reviewing, Marking, Progressing, Progress, OneSender, Sends
<1>7. Billed /\ Recorded
  BY <1>1 DEF Billed, Recorded
<1> QED BY <1>4, <1>5, <1>6, <1>7 DEF Sound, Typed

LEMMA SoundStutters ==
  ASSUME Sound, UNCHANGED vars
  PROVE  Sound'
<1>1. UNCHANGED << fee, plan, credit, inv, pay, answer, sent, call, drops, errors, stale >>
  BY DEF vars
<1>2. AccountOK' /\ PaymentsOK' /\ OutsideOK' /\ BoundsOK' /\ inv' \in Seq(InvoiceRow)
      /\ call' \in [Calls -> CallState']
  BY <1>1 DEF Sound, Typed, AccountOK, PaymentsOK, OutsideOK, BoundsOK, PaymentRow, CallState
<1>3. Requests' /\ Billed'
  BY <1>1 DEF Sound, Typed, Requests, RequestHolds, Billed, LastOf, On, Kind, Invoice
<1>4. Recorded' /\ Progressing' /\ OneSender'
  BY <1>1 DEF Sound, Recorded, RecordOK, PromptOK, ReceiptOK, CreditedOK, Progressing, Progress,
              OneSender, Sends, On
<1> QED BY <1>2, <1>3, <1>4 DEF Sound, Typed

(* The steps of the system, by what they are of *)
LEMMA NextIs ==
  ASSUME Next
  PROVE  \/ \E k \in Calls :
              \/ Start(k) \/ Find(k) \/ Reserve(k) \/ Claim(k) \/ Push(k) \/ Store(k) \/ Unpay(k)
              \/ Close(k) \/ Drop(k) \/ Beyond(k)
              \/ Update(k) \/ Verdict(k) \/ Settled(k) \/ Reopen(k) \/ Marks(k)
         \/ \E p \in DOMAIN pay : Answer(p) \/ Submit(p)
         \/ \E k \in Calls, p \in DOMAIN pay : Deliver(k, p) \/ Examine(k, p) \/ Resume(k, p)
BY DEF Next, Steps, Marks

LEMMA SoundStep ==
  ASSUME Sound, [Next]_vars
  PROVE  Sound'
<1>1. CASE UNCHANGED vars
  BY <1>1, SoundStutters
<1>2. CASE \E k \in Calls :
              \/ Start(k) \/ Find(k) \/ Reserve(k) \/ Claim(k) \/ Push(k) \/ Store(k) \/ Unpay(k)
              \/ Close(k) \/ Drop(k) \/ Beyond(k)
              \/ Update(k) \/ Verdict(k) \/ Settled(k) \/ Reopen(k) \/ Marks(k)
  BY <1>2, SoundAsk, SoundReserve, SoundClaim, SoundPush, SoundStore, SoundUnpay, SoundEnds,
     SoundUpdate, SoundReview, SoundMarks
<1>3. CASE \E p \in DOMAIN pay : Answer(p) \/ Submit(p)
  BY <1>3, SoundAnswer, SoundSubmit
<1>4. CASE \E k \in Calls, p \in DOMAIN pay : Deliver(k, p) \/ Examine(k, p) \/ Resume(k, p)
  BY <1>4, SoundDeliver, SoundExamine
<1> QED BY <1>1, <1>2, <1>3, <1>4, NextIs

LEMMA SoundIsTyped == Sound => TypeOK
<1> SUFFICES ASSUME Sound  PROVE  TypeOK
  OBVIOUS
<1>1. \A p \in DOMAIN pay : pay[p].status = "COMPLETED" => pay[p].ref \/ pay[p].by = Credited
  BY DEF Sound, Recorded, RecordOK, PromptOK, ReceiptOK, CreditedOK
<1> QED BY <1>1 DEF Sound, Typed, TypeOK

LEMMA AlwaysSound == Spec => []Sound
BY SoundInit, SoundStep, PTL DEF Spec

(* Type correctness; and a payment the books hold for COMPLETED has the
   reference of its prompt or receipt, unless credit paid for all of it:
   initiateMpesaPayment's claim, and the conditional updates of callback,
   submission and review, see to it in any interleaving. *)
THEOREM BillingTyped == Spec => []TypeOK
BY AlwaysSound, SoundIsTyped, PTL
-----------------------------------------------------------------------------
(* What holds as long as no write was stale.  Of one kind a payment is only
   followed by another when it is over, and a failed one when its failure is
   recorded; a payment that is waited for has its invoice open; once the setup
   fee is paid nothing of it is waited for that was not approved. *)
KindOf(p) == inv[pay[p].inv].kind
Got(p) == pay[p].status = "COMPLETED" \/ pay[p].review = "APPROVED"

Vouched(k) ==
  call[k].via = "review" /\ call[k].pc \in Marking \cup {"settled", "reopen"} =>
    IF call[k].want = "COMPLETED" THEN pay[On(k)].review = "APPROVED"
                                  ELSE pay[On(k)].status = "FAILED"

Reviewed ==
  /\ \A p \in DOMAIN pay :
       /\ pay[p].review = "APPROVED" => pay[p].status \in {"COMPLETED", "PROCESSING"}
       /\ pay[p].review = "REJECTED" => pay[p].status = "FAILED"
       /\ pay[p].review = "APPROVED" /\ pay[p].status = "PROCESSING" => KindOf(p) = "SETUP_FEE"
  /\ \A k \in Calls : Vouched(k)

Unattended(p) == \A k \in Calls : On(k) # p

Superseded ==
  \A p, q \in DOMAIN pay : q < p /\ KindOf(q) = KindOf(p) =>
    /\ pay[q].status \in Results
    /\ KindOf(q) = "SETUP_FEE" \/ pay[q].inv = pay[p].inv => pay[q].status = "FAILED"
    /\ pay[q].status = "FAILED" => Unattended(q)

Awaited ==
  \A p \in DOMAIN pay : pay[p].status \in Live /\ pay[p].review # "APPROVED" =>
    inv[pay[p].inv].status = "OPEN"

Kept ==
  fee = "PAID" => \A p \in DOMAIN pay : KindOf(p) = "SETUP_FEE" =>
    /\ pay[p].status \in Live => pay[p].review = "APPROVED"
    /\ pay[p].status = "FAILED" => Unattended(p)

Calm == Reviewed /\ Superseded /\ Awaited /\ Kept

OneOpen ==
  \A i, j \in DOMAIN inv :
    inv[i].status = "OPEN" /\ inv[j].status = "OPEN" /\ inv[i].kind = inv[j].kind => i = j

(* What a step does to a payment that is there *)
Change(p) ==
  \/ pay'[p].status = pay[p].status /\ pay'[p].review = pay[p].review
  \/ pay[p].status \in Live /\ pay[p].review = "none" /\ pay'[p].review = "none"
  \/ /\ pay[p].status = "PROCESSING" /\ pay'[p].status \in Results
     /\ pay'[p].review = ReviewOf(pay'[p].status)
     /\ pay[p].review = "APPROVED" => pay'[p].status = "COMPLETED"
  \/ /\ pay[p].review = "APPROVED" /\ KindOf(p) = "SETUP_FEE"
     /\ pay'[p].status = "PROCESSING" /\ pay'[p].review = "APPROVED"

(* A request that begins with a payment finds it waited for or approved *)
Move(k) ==
  On(k)' \in DOMAIN pay =>
    \/ On(k)' = On(k) \/ pay[On(k)'].status \in Live \/ pay[On(k)'].review = "APPROVED"

(* An invoice is paid or failed by a request that knows the result *)
Knows(k, i) == call[k].pc \in {"invoice", "close"} /\ Invoice(k) = i

Concludes(i) ==
  /\ inv'[i].kind = inv[i].kind
  /\ \/ inv'[i].status = inv[i].status
     \/ /\ inv'[i].status # "OPEN"
        /\ \E k \in Calls :
             /\ Knows(k, i)
             /\ inv'[i].status = "PAID" => call[k].want = "COMPLETED"

FeeMoves ==
  \/ fee' = fee
  \/ \E k \in Calls :
       call[k].pc = "fee" /\ fee' = IF call[k].want = "COMPLETED" THEN "PAID" ELSE "FAILED"

(* What every step does that creates nothing *)
Tame ==
  /\ DOMAIN pay' = DOMAIN pay /\ \A p \in DOMAIN pay : pay'[p].inv = pay[p].inv /\ Change(p)
  /\ \A k \in Calls : Move(k) /\ Vouched(k)'
  /\ DOMAIN inv' = DOMAIN inv /\ \A i \in DOMAIN inv : Concludes(i)
  /\ FeeMoves

LEMMA Lasting ==
  ASSUME Sound, Calm, NEW p \in DOMAIN pay, Change(p)
  PROVE  /\ pay[p].status = "FAILED" => pay'[p].status = "FAILED"
         /\ pay[p].review = "APPROVED" => pay'[p].review = "APPROVED"
         /\ Got(p) => Got(p)'
BY DEF Calm, Reviewed, Change, Got, Live, Results, ReviewOf

LEMMA VouchStays ==
  ASSUME Sound, Calm, NEW k \in Calls, call'[k] = call[k], \A p \in DOMAIN pay : Change(p)
  PROVE  Move(k) /\ Vouched(k)'
<1>1. On(k)' = On(k) /\ Vouched(k)
  BY DEF On, Calm, Reviewed
<1>2. CASE call[k].pc \in Marking \cup {"settled", "reopen"}
  <2>1. On(k) \in DOMAIN pay
    BY <1>2, OnPayment DEF Sound, Marking
  <2> QED BY <1>1, <2>1, Lasting DEF Move, Vouched
<1> QED BY <1>1, <1>2 DEF Move, Vouched

LEMMA TameCall ==
  ASSUME Sound, Calm, NEW k \in Calls, OnlyCall(k), UNCHANGED pay, Move(k), Vouched(k)',
         DOMAIN inv' = DOMAIN inv, \A i \in DOMAIN inv : Concludes(i), FeeMoves
  PROVE  Tame
<1>1. \A p \in DOMAIN pay : Change(p)
  BY DEF Change
<1>2. \A j \in Calls : Move(j) /\ Vouched(j)'
  BY <1>1, VouchStays DEF OnlyCall
<1> QED BY <1>1, <1>2 DEF Tame

LEMMA TamePay ==
  ASSUME Sound, Calm, NEW k \in Calls, OnlyCall(k), NEW p \in DOMAIN pay,
         NEW s, NEW f, NEW v, Sets(p, s, f, v), Change(p), Move(k), Vouched(k)',
         UNCHANGED << inv, fee >>
  PROVE  Tame
<1>1. DOMAIN pay' = DOMAIN pay /\ \A q \in DOMAIN pay : pay'[q].inv = pay[q].inv /\ Change(q)
  BY DEF Change, Sets
<1>2. \A j \in Calls : Move(j) /\ Vouched(j)'
  BY <1>1, VouchStays DEF OnlyCall
<1> QED BY <1>1, <1>2 DEF Tame, Concludes, FeeMoves

LEMMA TameEnd ==
  ASSUME Sound, Calm, NEW k \in Calls, OnlyCall(k), UNCHANGED << pay, fee >>, call'[k] = Idle,
         DOMAIN inv' = DOMAIN inv, \A i \in DOMAIN inv : Concludes(i)
  PROVE  Tame
<1>1. Idle.on = 0 /\ Idle.pc = "idle" /\ 0 \notin DOMAIN pay
  BY Rows DEF Idle, Sound
<1>2. Move(k) /\ Vouched(k)'
  BY <1>1 DEF Move, Vouched, On, Marking
<1> QED BY <1>2, TameCall DEF FeeMoves

(* A request of the merchant's is not a review *)
LEMMA Unreviewed ==
  ASSUME NEW k \in Calls, \/ call'[k] = Idle
                          \/ call'[k].via # "review"
                          \/ call'[k].pc \notin Marking \cup {"settled", "reopen"}
  PROVE  Vouched(k)'
<1>1. Idle.via = "none"
  BY DEF Idle
<1> QED BY <1>1 DEF Vouched

(* The statements that leave the books alone *)
LEMMA TameSame ==
  ASSUME Sound, Calm, NEW k \in Calls, OnlyCall(k), UNCHANGED << inv, pay, fee >>,
         Move(k), Vouched(k)'
  PROVE  Tame
BY TameCall DEF Concludes, FeeMoves

LEMMA TameRequest ==
  ASSUME Sound, Calm, NEW k \in Calls,
         \/ Start(k) \/ Find(k) \/ Claim(k) \/ Push(k) \/ Store(k) \/ Unpay(k) \/ Update(k)
  PROVE  Tame
<1>1. CASE Start(k)
  <2>1. OnlyCall(k) /\ call'[k].on = 0 /\ call'[k].pc = "reserve" /\ UNCHANGED << inv, pay, fee >>
    BY <1>1, StartDoes DEF Sound, Start, account
  <2>2. Move(k) /\ Vouched(k)'
    BY <2>1, Rows, Unreviewed DEF Move, On, Marking, Sound
  <2> QED BY <2>1, <2>2, TameSame
<1>2. CASE Find(k)
  <2>1. /\ OnlyCall(k) /\ UNCHANGED << inv, pay, fee >>
        /\ \/ call'[k] = Idle
           \/ call'[k].pc = "claim" /\ call'[k].on = On(k)
           \/ \E pc \in {"credits", "unpay"} : Becomes(k, pc, On(k), "FAILED", "checkout")
    BY <1>2, FindDoes DEF Sound, Find, account
  <2>2. CASE call'[k] = Idle
    BY <2>1, <2>2, TameEnd DEF Concludes
  <2>3. CASE call'[k] # Idle
    <3>1. Move(k) /\ Vouched(k)'
      BY <2>1, <2>3, Unreviewed DEF Move, On, Marking, Becomes
    <3> QED BY <2>1, <3>1, TameSame
  <2> QED BY <2>2, <2>3
<1>3. CASE Claim(k)
  <2> PICK p \in DOMAIN pay : p = On(k)
    BY <1>3, ClaimDoes DEF Sound
  <2>1. /\ OnlyCall(k) /\ UNCHANGED << inv, fee >> /\ pay[p].by = Prompts /\ RecordOK(p)
    BY <1>3, ClaimDoes DEF Sound, Claim, account, Recorded
  <2>2. CASE /\ pay[p].status = "PENDING"
             /\ Sets(p, "PROCESSING", pay[p].ref, pay[p].review)
             /\ Becomes(k, "push", p, call[k].want, "checkout")
    <3>1. Change(p)
      BY <2>1, <2>2
      DEF Change, Sets, RecordOK, PromptOK, ReceiptOK, CreditedOK, Manual, Prompts, Credited, Live
    <3>2. Move(k) /\ Vouched(k)'
      BY <2>2, Unreviewed DEF Move, On, Becomes
    <3> QED BY <2>1, <2>2, <3>1, <3>2, TamePay
  <2>3. CASE /\ pay' = pay
             /\ \E pc \in {"credits", "unpay"} : Becomes(k, pc, p, "FAILED", "checkout")
    <3>1. Move(k) /\ Vouched(k)'
      BY <2>3, Unreviewed DEF Move, On, Becomes
    <3> QED BY <2>1, <2>3, <3>1, TameSame
  <2>4. CASE pay' = pay /\ call'[k] = Idle
    BY <2>1, <2>4, TameEnd DEF Concludes
  <2> QED BY <1>3, <2>2, <2>3, <2>4, ClaimDoes DEF Sound
<1>4. CASE Push(k)
  <2>1. /\ OnlyCall(k) /\ UNCHANGED << inv, pay, fee >>
        /\ \E pc \in {"store", "unpay"}, w \in {"PENDING", "FAILED"} :
             Becomes(k, pc, On(k), w, "checkout")
    BY <1>4, PushDoes DEF Sound, Push, account
  <2>2. Move(k) /\ Vouched(k)'
    BY <2>1, Unreviewed DEF Move, On, Becomes
  <2> QED BY <2>1, <2>2, TameSame
<1>5. CASE Store(k)
  <2> PICK p \in DOMAIN pay : p = On(k)
    BY <1>5, StoreDoes DEF Sound
  <2>1. /\ OnlyCall(k) /\ UNCHANGED << inv, fee >> /\ pay[p].by = Prompts /\ RecordOK(p)
        /\ call[k].want \in {"PENDING", "FAILED"} /\ Sets(p, call[k].want, TRUE, pay[p].review)
        /\ pay[p].status = "PROCESSING"
    BY <1>5, StoreDoes DEF Sound, Store, At, account, Recorded, Progressing, Progress
  <2>2. Change(p)
    BY <2>1
    DEF Change, Sets, RecordOK, PromptOK, ReceiptOK, CreditedOK, Manual, Prompts, Credited, Live
  <2>3. call'[k] = Idle \/ \E pc \in {"credits", "unpay"} : Becomes(k, pc, p, "FAILED", "checkout")
    BY <1>5, StoreDoes DEF Sound
  <2>4. Move(k) /\ Vouched(k)'
    <3>1. Idle.on = 0 /\ 0 \notin DOMAIN pay
      BY Rows DEF Idle, Sound
    <3> QED BY <2>3, <3>1, Unreviewed DEF Move, On, Becomes
  <2> QED BY <2>1, <2>2, <2>4, TamePay
<1>6. CASE Unpay(k)
  <2> PICK p \in DOMAIN pay : p = On(k)
    BY <1>6, UnpayDoes DEF Sound
  <2>1. /\ OnlyCall(k) /\ UNCHANGED << inv, fee >> /\ pay[p].by = Prompts /\ RecordOK(p)
        /\ Sets(p, "FAILED", pay[p].ref, pay[p].review) /\ pay[p].status \in {"FAILED", "PROCESSING"}
        /\ \E pc \in {"credits", "close"} : Becomes(k, pc, p, "FAILED", "checkout")
    BY <1>6, UnpayDoes DEF Sound, Unpay, At, account, Recorded, Progressing, Progress
  <2>2. Change(p)
    BY <2>1
    DEF Change, Sets, RecordOK, PromptOK, ReceiptOK, CreditedOK, Manual, Prompts, Credited, Live
  <2>3. Move(k) /\ Vouched(k)'
    BY <2>1, Unreviewed DEF Move, On, Becomes
  <2> QED BY <2>1, <2>2, <2>3, TamePay
<1>7. CASE Update(k)
  <2> PICK p \in DOMAIN pay : p = On(k)
    BY <1>7, UpdateDoes DEF Sound
  <2>1. /\ OnlyCall(k) /\ UNCHANGED << inv, fee >> /\ pay[p].by = Prompts /\ RecordOK(p)
        /\ Sets(p, call[k].want, TRUE, pay[p].review) /\ pay[p].status \in {"PENDING", call[k].want}
        /\ Becomes(k, "invoice", p, call[k].want, "callback")
    BY <1>7, UpdateDoes DEF Sound, Update, At, account, Recorded, Progressing, Progress
  <2>2. Change(p)
    BY <2>1
    DEF Change, Sets, RecordOK, PromptOK, ReceiptOK, CreditedOK, Manual, Prompts, Credited, Live
  <2>3. Move(k) /\ Vouched(k)'
    BY <2>1, Unreviewed DEF Move, On, Becomes
  <2> QED BY <2>1, <2>2, <2>3, TamePay
<1> QED BY <1>1, <1>2, <1>3, <1>4, <1>5, <1>6, <1>7

LEMMA TameEnds ==
  ASSUME Sound, Calm, NEW k \in Calls, Close(k) \/ Drop(k) \/ Beyond(k)
  PROVE  Tame
<1>1. OnlyCall(k) /\ call'[k] = Idle /\ UNCHANGED << pay, fee >>
  BY CloseDoes, DropDoes DEF Sound, Close, Drop, Beyond, account
<1>2. CASE Close(k)
  <2>1. Bills(Invoice(k), "FAILED", inv[Invoice(k)].app) /\ Knows(k, Invoice(k))
    BY <1>2, CloseDoes DEF Sound, Close, At, Knows
  <2> QED BY <1>1, <2>1, TameEnd DEF Bills, Concludes
<1>3. CASE Drop(k) \/ Beyond(k)
  <2>1. inv' = inv
    BY <1>3 DEF Drop, Beyond
  <2> QED BY <1>1, <2>1, TameEnd DEF Concludes
<1> QED BY <1>2, <1>3

(* A request that records a result goes on with what it knows *)
LEMMA TameMarks ==
  ASSUME Sound, Calm, NEW k \in Calls, Marks(k)
  PROVE  Tame
<1>1. OnlyCall(k) /\ pay' = pay /\ GoesTo(k) /\ call[k].pc \in Marking /\ Vouched(k)
  BY MarksDo DEF Sound, Calm, Reviewed
<1>2. Move(k) /\ Vouched(k)'
  <2>1. CASE call'[k] = Idle
    <3>1. Idle.on = 0 /\ 0 \notin DOMAIN pay
      BY Rows DEF Idle, Sound
    <3> QED BY <2>1, <3>1, Unreviewed DEF Move, On
  <2>2. ASSUME NEW pc, Becomes(k, pc, On(k), call[k].want, call[k].via)
        PROVE  Move(k) /\ Vouched(k)'
    <3>1. /\ call'[k].want = call[k].want /\ call'[k].via = call[k].via /\ On(k)' = On(k)
      BY <2>2 DEF Becomes, On
    <3> QED BY <1>1, <3>1 DEF Move, Vouched
  <2> QED BY <1>1, <2>1, <2>2 DEF GoesTo
<1>3. FeeMoves
  <2>1. CASE MarkFee(k)
    <3>1. call[k].pc = "fee"
      BY <2>1 DEF MarkFee, At
    <3>2. \/ call[k].want = "FAILED" /\ fee' = "FAILED"
          \/ call[k].want = "COMPLETED" /\ fee' \in {fee, "PAID"}
      BY <2>1, MarkFeeDoes DEF Sound
    <3> QED BY <3>1, <3>2 DEF FeeMoves
  <2>2. CASE ~MarkFee(k)
    BY <2>2 DEF Marks, MarkInvoice, ReadCredits, ApplyCredits, FeeFails, Activate, Swallowed,
                account, FeeMoves
  <2> QED BY <2>1, <2>2
<1>4. DOMAIN inv' = DOMAIN inv /\ \A i \in DOMAIN inv : Concludes(i)
  <2>1. CASE MarkInvoice(k)
    <3>1. call[k].pc = "invoice" /\ Knows(k, Invoice(k))
      BY <2>1 DEF MarkInvoice, At, Knows
    <3>2. PICK s \in {"PAID", "FAILED"} :
            /\ Bills(Invoice(k), s, inv[Invoice(k)].app)
            /\ s = "PAID" => call[k].want = "COMPLETED"
      BY <2>1, MarkInvoiceDoes DEF Sound
    <3> QED BY <3>1, <3>2 DEF Bills, Concludes
  <2>2. CASE ApplyCredits(k)
    <3>1. inv' = inv \/ \E a : Bills(Invoice(k), inv[Invoice(k)].status, a)
      BY <2>2, ApplyCreditsDoes DEF Sound
    <3> QED BY <3>1 DEF Bills, Concludes
  <2>3. CASE ~MarkInvoice(k) /\ ~ApplyCredits(k)
    BY <2>3 DEF Marks, ReadCredits, MarkFee, FeeFails, Activate, Swallowed, Concludes
  <2> QED BY <2>1, <2>2, <2>3
<1> QED BY <1>1, <1>2, <1>3, <1>4, TameCall

LEMMA TameReview ==
  ASSUME Sound, Calm, ~stale', NEW k \in Calls, Verdict(k) \/ Settled(k) \/ Reopen(k)
  PROVE  Tame
<1>1. /\ call[k].pc \in Reviewing /\ UNCHANGED << inv, fee >>
      /\ call[k].pc \in {"settled", "reopen"} <=> ~Verdict(k)
  BY DEF Verdict, Settled, Reopen, At, Reviewing, account
<1> PICK p \in DOMAIN pay : p = On(k)
  BY <1>1, AtReview DEF Sound
<1>2. call[k].via = "review" /\ Vouched(k) /\ call[k].want \in Results /\ KindOf(p) = Kind(k)
  BY <1>1, AtReview DEF Sound, Calm, Reviewed, KindOf, Kind, Invoice
<1>3. Idle.on = 0 /\ 0 \notin DOMAIN pay
  BY Rows DEF Idle, Sound
<1>4. CASE Verdict(k)
  <2>1. CASE call'[k] = Idle /\ pay' = pay
    <3>1. OnlyCall(k)
      BY <1>4, VerdictDoes DEF Sound
    <3> QED BY <1>1, <2>1, <3>1, TameEnd DEF Concludes
  <2>2. CASE /\ pay[p].status = "PROCESSING"
             /\ Sets(p, call[k].want, pay[p].ref, ReviewOf(call[k].want))
             /\ Becomes(k, "invoice", p, call[k].want, "review")
             /\ stale' = (stale \/ (call[k].want = "FAILED" /\ pay[p].review = "APPROVED"))
    <3>1. OnlyCall(k)
      BY <1>4, VerdictDoes DEF Sound
    <3>2. Change(p)
      BY <1>2, <2>2 DEF Change, Sets, Results
    <3>3. Move(k) /\ Vouched(k)'
      <4>1. On(k)' = p /\ call'[k].want = call[k].want
        BY <2>2 DEF Becomes, On
      <4>2. pay'[p].status = call[k].want /\ pay'[p].review = ReviewOf(call[k].want)
        BY <2>2 DEF Sets
      <4> QED BY <1>2, <4>1, <4>2 DEF Move, Vouched, ReviewOf, Results
    <3> QED BY <1>1, <2>2, <3>1, <3>2, <3>3, TamePay
  <2> QED BY <1>4, <2>1, <2>2, VerdictDoes DEF Sound
<1>5. CASE Settled(k)
  <2>1. /\ OnlyCall(k) /\ call'[k] = Idle
        /\ Sets(p, pay[p].status, pay[p].ref, pay[p].review)
    BY <1>5, SettledDoes DEF Sound
  <2>2. Change(p) /\ Move(k) /\ Vouched(k)'
    BY <1>3, <2>1, Unreviewed DEF Change, Sets, Move, On
  <2> QED BY <1>1, <2>1, <2>2, TamePay
<1>6. CASE Reopen(k)
  <2>1. /\ OnlyCall(k) /\ call'[k] = Idle /\ call[k].want = "COMPLETED" /\ call[k].pc = "reopen"
        /\ Sets(p, "PROCESSING", pay[p].ref, "APPROVED") /\ Kind(k) = "SETUP_FEE"
    BY <1>6, ReopenDoes DEF Sound, Reopen, At
  <2>2. pay[p].review = "APPROVED"
    BY <1>2, <2>1 DEF Vouched
  <2>3. Change(p) /\ Move(k) /\ Vouched(k)'
    BY <1>2, <1>3, <2>1, <2>2, Unreviewed DEF Change, Sets, Move, On
  <2> QED BY <1>1, <2>1, <2>3, TamePay
<1> QED BY <1>4, <1>5, <1>6

(* A callback, or an operator, takes up a payment *)
LEMMA TameBegins ==
  ASSUME Sound, Calm, NEW k \in Calls, NEW p \in DOMAIN pay,
         Deliver(k, p) \/ Examine(k, p) \/ Resume(k, p)
  PROVE  Tame
<1>1. UNCHANGED << inv, pay, fee >> /\ RecordOK(p)
  BY DEF Deliver, Delivers, Examine, Resume, account, Sound, Recorded
<1>2. CASE Deliver(k, p)
  <2>1. answer[p] # "none" => pay[p].by = Prompts
    BY <1>1 DEF RecordOK, PromptOK, ReceiptOK, CreditedOK
  <2>2. /\ OnlyCall(k) /\ At(k, "idle")
        /\ \/ call'[k] = Idle
           \/ call'[k] = call[k]
           \/ /\ pay[p].status \notin {answer[p], "COMPLETED"}
              /\ answer[p] \in Results /\ pay[p].ref
              /\ Becomes(k, "update", p, answer[p], "callback")
    BY <1>2, <2>1, DeliverDoes DEF Sound
  <2>3. CASE call'[k] = Idle
    BY <1>1, <2>2, <2>3, TameEnd DEF Concludes
  <2>4. CASE call'[k] = call[k]
    <3>1. \A q \in DOMAIN pay : Change(q)
      BY <1>1 DEF Change
    <3> QED BY <1>1, <2>2, <2>4, <3>1, VouchStays, TameSame
  <2>5. CASE /\ pay[p].status \notin {answer[p], "COMPLETED"} /\ answer[p] \in Results /\ pay[p].ref
             /\ Becomes(k, "update", p, answer[p], "callback")
    <3>1. pay[p].status = "PENDING"
      BY <1>1, <2>5 DEF RecordOK, PromptOK, ReceiptOK, CreditedOK, Results
    <3>2. Move(k) /\ Vouched(k)'
      BY <2>5, <3>1, Unreviewed DEF Move, On, Becomes, Live
    <3> QED BY <1>1, <2>2, <3>2, TameSame
  <2> QED BY <2>2, <2>3, <2>4, <2>5
<1>3. CASE Examine(k, p) \/ Resume(k, p)
  <2>1. pay[p].by = Manual /\ pay[p].ref
    BY <1>1, <1>3 DEF Examine, Resume, Unfinished, RecordOK, PromptOK, ReceiptOK, CreditedOK,
                      Manual, Prompts, Credited
  <2>2. /\ OnlyCall(k)
        /\ \/ pay[p].status = "PROCESSING" /\ \E w \in Results : Becomes(k, "verdict", p, w, "review")
           \/ pay[p].review = "APPROVED" /\ Becomes(k, "invoice", p, "COMPLETED", "review")
           \/ pay[p].review = "APPROVED" /\ Becomes(k, "verdict", p, "COMPLETED", "review")
    BY <1>3, <2>1, ExamineDoes, ResumeDoes DEF Sound
  <2>3. Move(k)
    BY <2>2 DEF Move, On, Becomes, Live
  <2>4. Vouched(k)'
    <3>1. CASE call'[k].pc = "verdict"
      BY <3>1, Unreviewed DEF Marking
    <3>2. CASE pay[p].review = "APPROVED" /\ Becomes(k, "invoice", p, "COMPLETED", "review")
      BY <1>1, <3>2 DEF Vouched, Becomes, On
    <3> QED BY <2>2, <3>1, <3>2 DEF Becomes
  <2> QED BY <1>1, <2>2, <2>3, <2>4, TameSame
<1> QED BY <1>2, <1>3

LEMMA TameUnasked ==
  ASSUME Sound, Calm, NEW p \in DOMAIN pay, Answer(p) \/ Submit(p)
  PROVE  Tame
<1>1. UNCHANGED << inv, fee, call >>
  BY DEF Answer, Submit, account
<1>2. DOMAIN pay' = DOMAIN pay /\ \A q \in DOMAIN pay : pay'[q].inv = pay[q].inv /\ Change(q)
  <2>1. CASE Answer(p)
    BY <2>1 DEF Answer, Change
  <2>2. CASE Submit(p)
    <3>1. /\ pay[p].by = Manual /\ pay[p].status = "PENDING" /\ RecordOK(p)
          /\ Sets(p, "PROCESSING", TRUE, pay[p].review)
      BY <2>2, SubmitDoes DEF Sound, Recorded
    <3> QED BY <3>1 DEF Change, Sets, RecordOK, PromptOK, ReceiptOK, CreditedOK,
                        Manual, Prompts, Credited, Live
  <2> QED BY <2>1, <2>2
<1>3. \A j \in Calls : Move(j) /\ Vouched(j)'
  BY <1>1, <1>2, VouchStays
<1> QED BY <1>1, <1>2, <1>3 DEF Tame, Concludes, FeeMoves

LEMMA TameStutters ==
  ASSUME Sound, Calm, UNCHANGED vars
  PROVE  Tame
<1>1. UNCHANGED << inv, fee, call, pay >>
  BY DEF vars
<1>2. \A p \in DOMAIN pay : Change(p)
  BY <1>1 DEF Change
<1>3. \A j \in Calls : Move(j) /\ Vouched(j)'
  BY <1>1, <1>2, VouchStays
<1> QED BY <1>1, <1>2, <1>3 DEF Tame, Concludes, FeeMoves

LEMMA TameStep ==
  ASSUME Sound, Calm, ~stale', [Next]_vars, \A k \in Calls : ~Reserve(k)
  PROVE  Tame
<1>1. CASE UNCHANGED vars
  BY <1>1, TameStutters
<1>2. CASE \E k \in Calls :
              \/ Start(k) \/ Find(k) \/ Claim(k) \/ Push(k) \/ Store(k) \/ Unpay(k)
              \/ Close(k) \/ Drop(k) \/ Beyond(k)
              \/ Update(k) \/ Verdict(k) \/ Settled(k) \/ Reopen(k) \/ Marks(k)
  BY <1>2, TameRequest, TameEnds, TameReview, TameMarks
<1>3. CASE \E p \in DOMAIN pay : Answer(p) \/ Submit(p)
  BY <1>3, TameUnasked
<1>4. CASE \E k \in Calls, p \in DOMAIN pay : Deliver(k, p) \/ Examine(k, p) \/ Resume(k, p)
  BY <1>4, TameBegins
<1> QED BY <1>1, <1>2, <1>3, <1>4, NextIs
-----------------------------------------------------------------------------
(* A request that records a result knows it *)
LEMMA Resolved ==
  ASSUME Sound, Calm, NEW k \in Calls, call[k].pc \in Marking \cup {"close"}
  PROVE  /\ On(k) \in DOMAIN pay /\ call[k].want \in Results
         /\ IF call[k].want = "COMPLETED" THEN Got(On(k)) ELSE pay[On(k)].status = "FAILED"
         /\ call[k].pc = "close" => call[k].want = "FAILED"
<1>1. On(k) \in DOMAIN pay /\ RequestHolds(k) /\ Progress(k) /\ Vouched(k)
  BY OnPayment DEF Sound, Typed, Requests, Progressing, Calm, Reviewed, Marking
<1>2. CASE call[k].pc = "close"
  <2>1. call[k].want = "FAILED" /\ pay[On(k)].status = "FAILED"
    BY <1>1, <1>2 DEF RequestHolds, Progress
  <2> QED BY <1>1, <2>1 DEF Results
<1>3. CASE call[k].pc \in Marking
  <2>1. call[k].want \in Results /\ call[k].pc # "close"
    BY <1>3, AtMark DEF Sound, Marking
  <2>2. CASE call[k].via = "review"
    BY <1>1, <1>3, <2>1, <2>2 DEF Vouched, Got, Results
  <2>3. CASE call[k].via # "review"
    BY <1>1, <1>3, <2>1, <2>3 DEF Progress, Got, Results
  <2> QED BY <1>1, <2>1, <2>2, <2>3
<1> QED BY <1>2, <1>3

(* And it is about the last payment of its invoice, and of the setup fee: those
   before it failed, and nobody is about them *)
LEMMA LastOfKind ==
  ASSUME Sound, Calm, NEW k \in Calls, call[k].pc \in Marking \cup {"close"},
         NEW p \in DOMAIN pay, p = On(k), NEW q \in DOMAIN pay, q # p,
         pay[q].inv = pay[p].inv \/ (KindOf(q) = "SETUP_FEE" /\ KindOf(p) = "SETUP_FEE")
  PROVE  q < p /\ pay[q].status = "FAILED" /\ Unattended(q)
<1>1. KindOf(q) = KindOf(p)
  BY DEF KindOf
<1>2. q < p \/ p < q
  BY Rows DEF Sound
<1>3. CASE p < q
  <2>1. pay[p].status = "FAILED" => Unattended(p)
    BY <1>1, <1>3 DEF Calm, Superseded
  <2>2. pay[p].status = "FAILED"
    BY <1>1, <1>3 DEF Calm, Superseded
  <2> QED BY <2>1, <2>2 DEF Unattended
<1>4. CASE q < p
  BY <1>1, <1>4 DEF Calm, Superseded
<1> QED BY <1>2, <1>3, <1>4

(* Nobody begins with a payment that failed *)
LEMMA StaysUnattended ==
  ASSUME Sound, Calm, Tame, NEW q \in DOMAIN pay, pay[q].status = "FAILED", Unattended(q)
  PROVE  Unattended(q)'
<1> SUFFICES ASSUME NEW k \in Calls, On(k)' = q  PROVE  FALSE
  BY DEF Unattended
<1>1. On(k) # q /\ Move(k)
  BY DEF Unattended, Tame
<1>2. pay[q].status \in Live \/ pay[q].review = "APPROVED"
  BY <1>1 DEF Move
<1> QED BY <1>2 DEF Calm, Reviewed, Live

LEMMA TameKinds ==
  ASSUME Sound, Tame, NEW p \in DOMAIN pay
  PROVE  p \in DOMAIN pay' /\ pay'[p].inv = pay[p].inv /\ KindOf(p)' = KindOf(p)
BY Rows DEF Sound, Tame, KindOf, Concludes

LEMMA CalmReviewed ==
  ASSUME Sound, Calm, Tame
  PROVE  Reviewed'
<1>1. ASSUME NEW p \in DOMAIN pay
      PROVE  /\ pay'[p].review = "APPROVED" => pay'[p].status \in {"COMPLETED", "PROCESSING"}
             /\ pay'[p].review = "REJECTED" => pay'[p].status = "FAILED"
             /\ pay'[p].review = "APPROVED" /\ pay'[p].status = "PROCESSING" =>
                  KindOf(p)' = "SETUP_FEE"
  <2>1. Change(p) /\ KindOf(p)' = KindOf(p)
    BY TameKinds DEF Tame
  <2> QED BY <2>1 DEF Calm, Reviewed, Change, ReviewOf, Results, Live
<1> QED BY <1>1 DEF Tame, Reviewed

LEMMA CalmSuperseded ==
  ASSUME Sound, Calm, Tame
  PROVE  Superseded'
<1> SUFFICES ASSUME NEW p \in DOMAIN pay, NEW q \in DOMAIN pay, q < p, KindOf(q)' = KindOf(p)'
             PROVE  /\ pay'[q].status \in Results
                    /\ KindOf(q)' = "SETUP_FEE" \/ pay'[q].inv = pay'[p].inv => pay'[q].status = "FAILED"
                    /\ pay'[q].status = "FAILED" => Unattended(q)'
  BY DEF Superseded, Tame
<1>1. /\ KindOf(p)' = KindOf(p) /\ KindOf(q)' = KindOf(q)
      /\ pay'[p].inv = pay[p].inv /\ pay'[q].inv = pay[q].inv /\ Change(q)
  BY TameKinds DEF Tame
<1>2. /\ pay[q].status \in Results
      /\ KindOf(q) = "SETUP_FEE" \/ pay[q].inv = pay[p].inv => pay[q].status = "FAILED"
      /\ pay[q].status = "FAILED" => Unattended(q)
  BY <1>1 DEF Calm, Superseded
<1>3. pay'[q].status = pay[q].status
  BY <1>1, <1>2 DEF Change, Results, Live, Calm, Reviewed
<1> QED BY <1>1, <1>2, <1>3, StaysUnattended

LEMMA CalmAwaited ==
  ASSUME Sound, Calm, Tame
  PROVE  Awaited'
<1> SUFFICES ASSUME NEW p \in DOMAIN pay, pay'[p].status \in Live, pay'[p].review # "APPROVED"
             PROVE  inv'[pay'[p].inv].status = "OPEN"
  BY DEF Awaited, Tame
<1>1. pay'[p].inv = pay[p].inv /\ Change(p) /\ pay[p].inv \in DOMAIN inv
  BY TameKinds, Rows DEF Tame, Sound
<1>2. pay[p].status \in Live /\ pay[p].review # "APPROVED"
  BY <1>1 DEF Change, Results, Live
<1>3. inv[pay[p].inv].status = "OPEN"
  BY <1>2 DEF Calm, Awaited
<1>4. ASSUME NEW k \in Calls, Knows(k, pay[p].inv)  PROVE  FALSE
  <2>1. call[k].pc \in Marking \cup {"close"} /\ On(k) \in DOMAIN pay /\ pay[On(k)].inv = pay[p].inv
    BY <1>4, Resolved DEF Knows, Marking, Invoice
  <2>2. CASE p = On(k)
    <3>1. Got(p) \/ pay[p].status = "FAILED"
      BY <2>1, <2>2, Resolved
    <3> QED BY <1>2, <3>1 DEF Got, Live
  <2>3. CASE p # On(k)
    <3>1. pay[p].status = "FAILED"
      BY <2>1, <2>3, LastOfKind
    <3> QED BY <1>2, <3>1 DEF Live
  <2> QED BY <2>2, <2>3
<1> QED BY <1>1, <1>3, <1>4 DEF Tame, Concludes

LEMMA CalmKept ==
  ASSUME Sound, Calm, Tame
  PROVE  Kept'
<1> SUFFICES ASSUME fee' = "PAID", NEW p \in DOMAIN pay, KindOf(p)' = "SETUP_FEE"
             PROVE  /\ pay'[p].status \in Live => pay'[p].review = "APPROVED"
                    /\ pay'[p].status = "FAILED" => Unattended(p)'
  BY DEF Kept, Tame
<1>1. KindOf(p) = "SETUP_FEE" /\ Change(p)
  BY TameKinds DEF Tame
<1>2. /\ pay[p].status \in Live => pay[p].review = "APPROVED"
      /\ pay[p].status = "FAILED" => Unattended(p)
  <2>1. CASE fee = "PAID"
    BY <1>1, <2>1 DEF Calm, Kept
  <2>2. CASE fee # "PAID"
    <3>1. PICK k \in Calls : call[k].pc = "fee" /\ call[k].want = "COMPLETED"
      BY <2>2 DEF Tame, FeeMoves
    <3>2. On(k) \in DOMAIN pay /\ Got(On(k)) /\ call[k].pc \in Marking
      BY <3>1, Resolved DEF Marking
    <3>3. KindOf(On(k)) = "SETUP_FEE"
      BY <3>1 DEF Sound, Typed, Requests, RequestHolds, KindOf, Kind, Invoice
    <3>4. CASE p = On(k)
      BY <3>2, <3>4 DEF Got, Live, Calm, Reviewed
    <3>5. CASE p # On(k)
      BY <1>1, <3>2, <3>3, <3>5, LastOfKind DEF Live
    <3> QED BY <3>4, <3>5
  <2> QED BY <2>1, <2>2
<1>3. pay'[p].status = "FAILED" => pay[p].status = "FAILED"
  BY <1>1, <1>2 DEF Change, Live, Results
<1>4. pay'[p].status \in Live => pay'[p].review = "APPROVED"
  BY <1>1, <1>2 DEF Change, Live, Results
<1> QED BY <1>2, <1>3, <1>4, StaysUnattended

LEMMA TameReuse ==
  ASSUME Sound, Calm, NEW k \in Calls, OnlyCall(k), UNCHANGED << inv, pay, fee >>,
         \/ call'[k] = Idle
         \/ \E p \in DOMAIN pay : /\ pay[p].status \in Live /\ call'[k].on = p
                                  /\ call'[k].via = "checkout"
  PROVE  Tame
<1>1. CASE call'[k] = Idle
  BY <1>1, TameEnd DEF Concludes
<1>2. CASE call'[k] # Idle
  <2>1. Move(k) /\ Vouched(k)'
    BY <1>2, Unreviewed DEF Move, On
  <2> QED BY <2>1, TameSame
<1> QED BY <1>1, <1>2

(* A payment is created when no other of its kind is waited for and the failure
   of each that failed is recorded.  This is the heart of the argument: the
   transaction under the advisory lock looks at the last payment of the open
   invoice only. *)
LEMMA NothingAwaited ==
  ASSUME Sound, Calm, OneOpen, NEW k \in Calls, call[k].on = 0, call[k].kind \in Kinds,
         Payable(call[k].kind), ~Unrecorded(k), NEW i,
         \/ i \in Open(call[k].kind) /\ ~Usable(Latest(i))
         \/ i \notin DOMAIN inv /\ Open(call[k].kind) = {},
         NEW q \in DOMAIN pay, KindOf(q) = call[k].kind
  PROVE  /\ pay[q].status \in Results
         /\ KindOf(q) = "SETUP_FEE" \/ pay[q].inv = i => pay[q].status = "FAILED"
         /\ pay[q].status = "FAILED" => Unattended(q)
<1>1. /\ pay[q] \in PaymentRow /\ pay[q].inv \in DOMAIN inv /\ inv[pay[q].inv] \in InvoiceRow
      /\ q \in Nat /\ q # 0
  BY Rows DEF Sound
<1>2. KindOf(q) = "SETUP_FEE" => ~Got(q)
  BY DEF Payable, Unrecorded, Got, KindOf
<1>3. ASSUME i \in Open(call[k].kind), ~Usable(Latest(i)), pay[q].inv = i
      PROVE  pay[q].status = "FAILED"
  <2> PICK l \in DOMAIN pay : l = Latest(i)
    BY <1>3, LatestExists DEF Open, Sound
  <2>1. LastOf(l, i) /\ pay[l].status = "FAILED"
    BY <1>3, LatestExists, Rows DEF Open, Sound, Usable, PaymentRow
  <2>2. q = l \/ q < l
    BY <1>1, <1>3, <2>1, Rows DEF LastOf, Sound
  <2>3. CASE q < l
    <3>1. pay[l].inv = pay[q].inv
      BY <1>3, <2>1 DEF LastOf
    <3>2. KindOf(l) = KindOf(q)
      BY <3>1 DEF KindOf
    <3> QED BY <2>3, <3>1, <3>2 DEF Calm, Superseded
  <2> QED BY <2>1, <2>2, <2>3
<1>4. pay[q].status \in Results
  <2> SUFFICES ASSUME pay[q].status \in Live  PROVE  FALSE
    BY <1>1 DEF PaymentRow, Results
  <2>1. CASE pay[q].review = "APPROVED"
    <3>1. KindOf(q) = "SETUP_FEE"
      BY <2>1 DEF Calm, Reviewed, Live
    <3> QED BY <1>2, <2>1, <3>1 DEF Got
  <2>2. CASE pay[q].review # "APPROVED"
    <3>1. pay[q].inv \in Open(call[k].kind)
      BY <1>1, <2>2 DEF Calm, Awaited, Open, KindOf
    <3>2. CASE i \in Open(call[k].kind) /\ ~Usable(Latest(i))
      <4>1. pay[q].inv = i
        BY <3>1, <3>2 DEF OneOpen, Open
      <4> QED BY <1>3, <3>2, <4>1 DEF Live
    <3> QED BY <3>1, <3>2
  <2> QED BY <2>1, <2>2
<1>5. pay[q].inv = i => pay[q].status = "FAILED"
  BY <1>1, <1>3
<1>6. KindOf(q) = "SETUP_FEE" => pay[q].status = "FAILED"
  BY <1>2, <1>4 DEF Got, Results
<1>7. ASSUME pay[q].status = "FAILED", NEW j \in Calls, On(j) = q  PROVE  FALSE
  <2>1. j # k
    BY <1>1, <1>7 DEF On
  <2>2. Kind(j) = call[k].kind
    BY <1>7 DEF Kind, Invoice, KindOf
  <2> QED BY <1>1, <1>7, <2>1, <2>2 DEF Unrecorded
<1> QED BY <1>4, <1>5, <1>6, <1>7 DEF Unattended

(* What the step does that creates a payment *)
Creates(k, i, p) ==
  /\ OnlyCall(k) /\ fee' = fee
  /\ call[k].on = 0 /\ call[k].kind \in Kinds /\ Payable(call[k].kind) /\ ~Unrecorded(k)
  /\ Adds(i, p) /\ Proceeds(k, p)
  /\ \/ i \in Open(call[k].kind) /\ ~Usable(Latest(i)) /\ UNCHANGED << inv, credit >>
     \/ Open(call[k].kind) = {} /\ Invoices(call[k].kind, i)

LEMMA CreatesIn ==
  ASSUME Sound, NEW k \in Calls, NEW i \in DOMAIN inv', NEW p \in Nat, Creates(k, i, p)
  PROVE  /\ \A j \in DOMAIN inv : j \in DOMAIN inv' /\ inv'[j] = inv[j]
         /\ inv'[i].kind = call[k].kind /\ inv'[i].status = "OPEN"
         /\ DOMAIN inv' = DOMAIN inv \cup {i}
         /\ i \in DOMAIN inv => i \in Open(call[k].kind)
         /\ \A q \in DOMAIN pay : /\ pay'[q] = pay[q] /\ KindOf(q)' = KindOf(q)
                                  /\ q < p /\ q \in Nat
<1>1. /\ \A j \in DOMAIN inv : j \in DOMAIN inv' /\ inv'[j] = inv[j]
      /\ inv'[i].kind = call[k].kind /\ inv'[i].status = "OPEN"
      /\ DOMAIN inv' = DOMAIN inv \cup {i}
      /\ i \in DOMAIN inv => i \in Open(call[k].kind)
  BY DEF Open, Invoices, Creates
<1>2. ASSUME NEW q \in DOMAIN pay
      PROVE  pay'[q] = pay[q] /\ KindOf(q)' = KindOf(q) /\ q < p /\ q \in Nat
  <2>1. pay'[q] = pay[q] /\ q < p
    BY DEF Adds, Creates
  <2>2. pay[q].inv \in DOMAIN inv /\ q \in Nat
    BY Rows DEF Sound
  <2> QED BY <1>1, <2>1, <2>2 DEF KindOf
<1> QED BY <1>1, <1>2

LEMMA CreatesLast ==
  ASSUME Sound, NEW k \in Calls, NEW i \in DOMAIN inv', NEW p \in Nat, Creates(k, i, p)
  PROVE  /\ pay'[p].inv = i /\ KindOf(p)' = call[k].kind /\ pay'[p].review = "none"
         /\ DOMAIN pay' = DOMAIN pay \cup {p} /\ p \notin DOMAIN pay
<1>1. inv'[i].kind = call[k].kind
  BY CreatesIn
<1> QED BY <1>1 DEF Adds, KindOf, Creates

LEMMA CalmOpens ==
  ASSUME Sound, Calm, OneOpen, NEW k \in Calls, NEW i \in DOMAIN inv', NEW p \in Nat,
         Creates(k, i, p)
  PROVE  Calm'
<1>1. /\ \A j \in DOMAIN inv : j \in DOMAIN inv' /\ inv'[j] = inv[j]
      /\ inv'[i].kind = call[k].kind /\ inv'[i].status = "OPEN"
  BY CreatesIn
<1>2. \A q \in DOMAIN pay :
        pay'[q] = pay[q] /\ KindOf(q)' = KindOf(q) /\ q < p /\ q \in Nat
  BY CreatesIn
<1>3. /\ pay'[p].inv = i /\ KindOf(p)' = call[k].kind /\ pay'[p].review = "none"
      /\ DOMAIN pay' = DOMAIN pay \cup {p} /\ p \notin DOMAIN pay
  BY CreatesLast
<1> USE DEF Creates
<1>4. ASSUME NEW q \in DOMAIN pay, Unattended(q)
      PROVE  Unattended(q)'
  <2>1. On(k)' \in {0, p}
    BY DEF Proceeds, Becomes, Idle, On
  <2>2. q # p /\ q # 0
    BY <1>2, <1>3, Rows DEF Sound
  <2> QED BY <1>4, <2>1, <2>2 DEF Unattended, OnlyCall, On
<1>5. Reviewed'
  <2>1. Vouched(k)'
    BY Unreviewed DEF Proceeds, Becomes
  <2>2. ASSUME NEW j \in Calls, j # k  PROVE  Vouched(j)'
    <3>1. call'[j] = call[j] /\ Vouched(j) /\ On(j)' = On(j)
      BY <2>2 DEF OnlyCall, On, Calm, Reviewed
    <3>2. CASE call[j].pc \in Marking \cup {"settled", "reopen"}
      <4>1. On(j) \in DOMAIN pay
        BY <3>2, OnPayment DEF Sound, Marking
      <4> QED BY <1>2, <3>1, <4>1 DEF Vouched
    <3> QED BY <3>1, <3>2 DEF Vouched
  <2>3. ASSUME NEW q \in DOMAIN pay
        PROVE  /\ pay'[q].review = "APPROVED" => pay'[q].status \in {"COMPLETED", "PROCESSING"}
               /\ pay'[q].review = "REJECTED" => pay'[q].status = "FAILED"
               /\ pay'[q].review = "APPROVED" /\ pay'[q].status = "PROCESSING" =>
                    KindOf(q)' = "SETUP_FEE"
    BY <1>2 DEF Calm, Reviewed
  <2> QED BY <1>3, <2>1, <2>2, <2>3 DEF Reviewed
<1>6. Superseded'
  <2> SUFFICES ASSUME NEW r \in DOMAIN pay', NEW q \in DOMAIN pay', q < r, KindOf(q)' = KindOf(r)'
               PROVE  /\ pay'[q].status \in Results
                      /\ KindOf(q)' = "SETUP_FEE" \/ pay'[q].inv = pay'[r].inv =>
                           pay'[q].status = "FAILED"
                      /\ pay'[q].status = "FAILED" => Unattended(q)'
    BY DEF Superseded
  <2>1. q \in DOMAIN pay
    BY <1>2, <1>3
  <2>2. CASE r = p
    <3>1. Payable(call[k].kind) /\ ~Unrecorded(k)
      OBVIOUS
    <3>2. KindOf(q) = call[k].kind
      BY <1>2, <1>3, <2>1, <2>2
    <3>3. /\ pay[q].status \in Results
          /\ KindOf(q) = "SETUP_FEE" \/ pay[q].inv = i => pay[q].status = "FAILED"
          /\ pay[q].status = "FAILED" => Unattended(q)
      BY <2>1, <3>1, <3>2, NothingAwaited DEF Invoices
    <3> QED BY <1>2, <1>3, <1>4, <2>1, <2>2, <3>3
  <2>3. CASE r \in DOMAIN pay
    <3>1. /\ pay[q].status \in Results
          /\ KindOf(q) = "SETUP_FEE" \/ pay[q].inv = pay[r].inv => pay[q].status = "FAILED"
          /\ pay[q].status = "FAILED" => Unattended(q)
      BY <1>2, <2>1, <2>3 DEF Calm, Superseded
    <3> QED BY <1>2, <1>4, <2>1, <2>3, <3>1
  <2> QED BY <1>3, <2>2, <2>3
<1>7. Awaited'
  <2>1. ASSUME NEW q \in DOMAIN pay, pay'[q].status \in Live, pay'[q].review # "APPROVED"
        PROVE  inv'[pay'[q].inv].status = "OPEN"
    <3>1. pay[q].inv \in DOMAIN inv
      BY Rows DEF Sound
    <3> QED BY <1>1, <1>2, <2>1, <3>1 DEF Calm, Awaited
  <2> QED BY <1>1, <1>3, <2>1 DEF Awaited
<1>8. Kept'
  <2>1. ASSUME fee = "PAID", NEW q \in DOMAIN pay, KindOf(q)' = "SETUP_FEE"
        PROVE  /\ pay'[q].status \in Live => pay'[q].review = "APPROVED"
               /\ pay'[q].status = "FAILED" => Unattended(q)'
    BY <1>2, <1>4, <2>1 DEF Calm, Kept
  <2>2. fee = "PAID" => KindOf(p)' # "SETUP_FEE"
    BY <1>3 DEF Payable
  <2> QED BY <1>3, <2>1, <2>2 DEF Kept
<1> QED BY <1>5, <1>6, <1>7, <1>8 DEF Calm

(* A stale write is remembered *)
LEMMA StaysStale ==
  ASSUME Sound, [Next]_vars, stale
  PROVE  stale'
<1>1. CASE UNCHANGED vars
  BY <1>1 DEF vars
<1>2. ASSUME NEW k \in Calls, Reserve(k)  PROVE  stale'
  BY <1>2, ReserveDoes DEF Sound
<1>3. ASSUME NEW k \in Calls,
             \/ Start(k) \/ Find(k) \/ Claim(k) \/ Push(k) \/ Store(k) \/ Unpay(k)
             \/ Close(k) \/ Drop(k) \/ Beyond(k)
      PROVE  stale'
  BY <1>3 DEF Start, Find, Claim, Push, Store, Unpay, Close, Drop, Beyond, bounds
<1>4. ASSUME NEW k \in Calls, Update(k) \/ Settled(k) \/ Reopen(k)  PROVE  stale'
  BY <1>4 DEF Update, Settled, Reopen, bounds
<1>5. ASSUME NEW k \in Calls, Verdict(k)  PROVE  stale'
  BY <1>5 DEF Verdict, Counts
<1>6. ASSUME NEW k \in Calls, Marks(k)  PROVE  stale'
  <2>1. CASE ApplyCredits(k)
    BY <2>1, ApplyCreditsDoes DEF Sound
  <2>2. CASE ~ApplyCredits(k)
    BY <1>6, <2>2 DEF Marks, MarkInvoice, ReadCredits, MarkFee, FeeFails, Activate, Swallowed, bounds
  <2> QED BY <2>1, <2>2
<1>7. ASSUME NEW p \in DOMAIN pay, Answer(p) \/ Submit(p)  PROVE  stale'
  BY <1>7 DEF Answer, Submit, bounds
<1>8. ASSUME NEW k \in Calls, NEW p \in DOMAIN pay, Deliver(k, p) \/ Examine(k, p) \/ Resume(k, p)
      PROVE  stale'
  BY <1>8 DEF Deliver, Delivers, Examine, Resume, bounds
<1> QED BY <1>1, <1>2, <1>3, <1>4, <1>5, <1>6, <1>7, <1>8, NextIs

(* A step that counts no stale write *)
LEMMA StepIs ==
  ASSUME Sound, Calm, ~stale', [Next]_vars
  PROVE  Tame \/ \E k \in Calls, i \in DOMAIN inv', p \in Nat : Creates(k, i, p)
<1>1. ASSUME NEW k \in Calls, Reserve(k)
      PROVE  Tame \/ \E i \in DOMAIN inv', p \in Nat : Creates(k, i, p)
  <2>1. OnlyCall(k) /\ call[k].on = 0 /\ call[k].kind \in Kinds /\ fee' = fee
    BY <1>1, ReserveDoes DEF Sound, Reserve, account
  <2>2. CASE /\ UNCHANGED << inv, pay, answer, credit, stale >>
             /\ \/ call'[k] = Idle
                \/ \E i \in Open(call[k].kind) :
                     /\ pay[Latest(i)].status \in Live /\ pay[Latest(i)].by = Prompts
                     /\ call'[k].pc = "find" /\ call'[k].on = Latest(i)
                     /\ call'[k].via = "checkout"
    <3>1. \/ call'[k] = Idle
          \/ \E p \in DOMAIN pay : /\ pay[p].status \in Live /\ call'[k].on = p
                                   /\ call'[k].via = "checkout"
      BY <2>2, LatestExists DEF Sound, Open
    <3> QED BY <2>1, <2>2, <3>1, TameReuse
  <2>3. ASSUME stale' = (stale \/ ~Payable(call[k].kind) \/ Unrecorded(k)), NEW i \in DOMAIN inv',
               Adds(i, Len(pay) + 1), Proceeds(k, Len(pay) + 1),
               \/ i \in Open(call[k].kind) /\ ~Usable(Latest(i)) /\ UNCHANGED << inv, credit >>
               \/ Open(call[k].kind) = {} /\ Invoices(call[k].kind, i)
        PROVE  \E p \in Nat : Creates(k, i, p)
    <3> PICK p \in Nat : p = Len(pay) + 1
      BY Rows DEF Sound
    <3>1. Adds(i, p) /\ Proceeds(k, p) /\ Payable(call[k].kind) /\ ~Unrecorded(k)
      BY <2>3
    <3> QED BY <2>1, <2>3, <3>1 DEF Creates
  <2> QED BY <1>1, <2>2, <2>3, ReserveDoes DEF Sound
<1> QED BY <1>1, TameStep

LEMMA CalmStep ==
  ASSUME Sound, OneOpen, ~stale => Calm, [Next]_vars
  PROVE  ~stale' => Calm'
<1> SUFFICES ASSUME ~stale'  PROVE  Calm'
  OBVIOUS
<1>1. Calm
  BY StaysStale
<1>2. CASE Tame
  BY <1>1, <1>2, CalmReviewed, CalmSuperseded, CalmAwaited, CalmKept DEF Calm
<1>3. ASSUME NEW k \in Calls, NEW i \in DOMAIN inv', NEW p \in Nat, Creates(k, i, p)
      PROVE  Calm'
  BY <1>1, <1>3, CalmOpens
<1> QED BY <1>1, <1>2, <1>3, StepIs

(* The steps that write invoices *)
LEMMA InvoicesWritten ==
  ASSUME [Next]_vars
  PROVE  \/ inv' = inv
         \/ \E k \in Calls : Reserve(k) \/ Close(k) \/ MarkInvoice(k) \/ ApplyCredits(k)
<1>1. CASE UNCHANGED vars
  BY <1>1 DEF vars
<1>2. ASSUME NEW k \in Calls,
             \/ Start(k) \/ Find(k) \/ Claim(k) \/ Push(k) \/ Store(k) \/ Unpay(k)
             \/ Drop(k) \/ Beyond(k) \/ Update(k) \/ Verdict(k) \/ Settled(k) \/ Reopen(k)
      PROVE  inv' = inv
  BY <1>2 DEF Start, Find, Claim, Push, Store, Unpay, Drop, Beyond, Update, Verdict, Settled, Reopen
<1>3. ASSUME NEW k \in Calls, Marks(k), ~MarkInvoice(k), ~ApplyCredits(k)
      PROVE  inv' = inv
  BY <1>3 DEF Marks, ReadCredits, MarkFee, FeeFails, Activate, Swallowed
<1>4. ASSUME NEW p \in DOMAIN pay, Answer(p) \/ Submit(p)  PROVE  inv' = inv
  BY <1>4 DEF Answer, Submit
<1>5. ASSUME NEW k \in Calls, NEW p \in DOMAIN pay, Deliver(k, p) \/ Examine(k, p) \/ Resume(k, p)
      PROVE  inv' = inv
  BY <1>5 DEF Deliver, Delivers, Examine, Resume
<1> QED BY <1>1, <1>2, <1>3, <1>4, <1>5, NextIs

(* An invoice that is closed is not opened again *)
LEMMA InvoicesStay ==
  ASSUME Sound, [Next]_vars, NEW i \in DOMAIN inv
  PROVE  /\ i \in DOMAIN inv' /\ inv'[i].kind = inv[i].kind
         /\ inv'[i].status = inv[i].status \/ inv'[i].status \in {"PAID", "FAILED"}
<1>1. CASE inv' = inv
  BY <1>1
<1>2. ASSUME NEW k \in Calls, Reserve(k)
      PROVE  i \in DOMAIN inv' /\ inv'[i] = inv[i]
  BY <1>2, ReserveDoes DEF Sound, Invoices
<1>3. ASSUME NEW k \in Calls, Close(k) \/ MarkInvoice(k)
      PROVE  \E j, a : \E s \in {"PAID", "FAILED"} : Bills(j, s, a)
  BY <1>3, CloseDoes, MarkInvoiceDoes DEF Sound
<1>4. ASSUME NEW k \in Calls, ApplyCredits(k)
      PROVE  inv' = inv \/ \E j, a : Bills(j, inv[j].status, a)
  BY <1>4, ApplyCreditsDoes DEF Sound
<1> QED BY <1>1, <1>2, <1>3, <1>4, InvoicesWritten DEF Bills

LEMMA OneOpenStep ==
  ASSUME Sound, OneOpen, [Next]_vars
  PROVE  OneOpen'
<1>1. \A i \in DOMAIN inv : /\ i \in DOMAIN inv' /\ inv'[i].kind = inv[i].kind
                            /\ inv'[i].status = "OPEN" => inv[i].status = "OPEN"
  BY InvoicesStay
<1>2. CASE DOMAIN inv' = DOMAIN inv
  BY <1>1, <1>2 DEF OneOpen
<1>3. ASSUME NEW k \in Calls, NEW i, Open(call[k].kind) = {}, Invoices(call[k].kind, i)
      PROVE  OneOpen'
  BY <1>1, <1>3 DEF OneOpen, Open, Invoices
<1>4. ASSUME NEW k \in Calls, Reserve(k)
      PROVE  \/ DOMAIN inv' = DOMAIN inv
             \/ \E i \in DOMAIN inv' : Open(call[k].kind) = {} /\ Invoices(call[k].kind, i)
  BY <1>4, ReserveDoes DEF Sound
<1>5. ASSUME NEW k \in Calls, Close(k) \/ MarkInvoice(k) \/ ApplyCredits(k)
      PROVE  DOMAIN inv' = DOMAIN inv
  BY <1>5, CloseDoes, MarkInvoiceDoes, ApplyCreditsDoes DEF Sound, Bills
<1> QED BY <1>2, <1>3, <1>4, <1>5, InvoicesWritten

Quiet == Sound /\ OneOpen /\ (~stale => Calm)

LEMMA QuietInit ==
  ASSUME Init
  PROVE  Quiet
<1>1. Sound
  BY SoundInit
<1>2. DOMAIN inv = {} /\ DOMAIN pay = {}
  BY DEF Init
<1>3. \A k \in Calls : Vouched(k)
  <2> TAKE k \in Calls
  <2>1. call[k].via = "none"
    BY DEF Init, Idle
  <2> QED BY <2>1 DEF Vouched
<1> QED BY <1>1, <1>2, <1>3 DEF Quiet, OneOpen, Calm, Reviewed, Superseded, Awaited, Kept

LEMMA QuietStep ==
  ASSUME Quiet, [Next]_vars
  PROVE  Quiet'
BY SoundStep, OneOpenStep, CalmStep DEF Quiet

LEMMA AlwaysQuiet == Spec => []Quiet
BY QuietInit, QuietStep, PTL DEF Spec

LEMMA QuietIsOnePayment == Quiet => OnePayment
<1> SUFFICES ASSUME Sound, Calm, NEW p \in DOMAIN pay, NEW q \in DOMAIN pay, p # q
             PROVE  /\ ~(/\ inv[pay[p].inv].kind = inv[pay[q].inv].kind
                         /\ pay[p].status \in Live /\ pay[q].status \in Live)
                    /\ ~(/\ pay[p].inv = pay[q].inv
                         /\ pay[p].status = "COMPLETED" /\ pay[q].status = "COMPLETED")
  BY DEF OnePayment, Quiet
<1>1. ASSUME NEW r \in DOMAIN pay, NEW s \in DOMAIN pay, r < s
      PROVE  /\ inv[pay[r].inv].kind = inv[pay[s].inv].kind => pay[r].status \notin Live
             /\ pay[r].inv = pay[s].inv => pay[r].status = "FAILED"
  BY <1>1 DEF Calm, Superseded, KindOf, Results, Live
<1>2. p < q \/ q < p
  BY Rows DEF Sound
<1> QED BY <1>1, <1>2

(* Of one kind one payment is waited for at a time and one invoice is not paid
   twice: what createSetupFeeMpesaPayment and createMpesaInvoicePayment's
   transactions reserve under their advisory lock, with the claim and the
   conditional updates after it, whatever is stopped or fails in between. *)
THEOREM PaymentsAreOne == Spec => []OnePayment
BY AlwaysQuiet, QuietIsOnePayment, PTL

LEMMA FeeStays ==
  ASSUME Quiet, [Next]_vars
  PROVE  fee = "PAID" /\ ~stale' => fee' = "PAID"
<1> SUFFICES ASSUME fee = "PAID", ~stale', fee' # "PAID"  PROVE  FALSE
  OBVIOUS
<1>1. Sound /\ Calm
  BY StaysStale DEF Quiet
<1>2. Tame
  BY <1>1, StepIs DEF Creates
<1>3. PICK k \in Calls : call[k].pc = "fee" /\ call[k].want # "COMPLETED"
  BY <1>2 DEF Tame, FeeMoves
<1>4. On(k) \in DOMAIN pay /\ pay[On(k)].status = "FAILED"
  BY <1>1, <1>3, Resolved DEF Marking
<1>5. KindOf(On(k)) = "SETUP_FEE"
  BY <1>1, <1>3 DEF Sound, Typed, Requests, RequestHolds, KindOf, Kind, Invoice
<1>6. Unattended(On(k))
  BY <1>1, <1>4, <1>5 DEF Calm, Kept
<1> QED BY <1>6 DEF Unattended

(* Once it is paid, the setup fee stays paid: markBillingPaymentFromMpesa writes
   a failure over whatever is there, but by then no failed payment of the fee
   has its failure left to be recorded. *)
THEOREM FeeIsKept == Spec => FeeStaysPaid
<1>1. Quiet /\ [Next]_vars => [fee = "PAID" /\ ~stale' => fee' = "PAID"]_vars
  BY FeeStays
<1> QED BY <1>1, AlwaysQuiet, PTL DEF Spec, FeeStaysPaid
-----------------------------------------------------------------------------
(* A PAID invoice has what paid it *)
PaidHas ==
  \A i \in DOMAIN inv : inv[i].status = "PAID" => \E p \in DOMAIN pay : pay[p].inv = i /\ Got(p)

LEMMA PaidHasStep ==
  ASSUME Sound, Calm, ~stale', [Next]_vars, PaidHas
  PROVE  PaidHas'
<1>1. ASSUME Tame, NEW i \in DOMAIN inv, inv'[i].status = "PAID"
      PROVE  \E p \in DOMAIN pay : pay'[p].inv = i /\ Got(p)'
  <2>1. \A p \in DOMAIN pay : pay'[p].inv = pay[p].inv /\ (Got(p) => Got(p)')
    BY <1>1, Lasting DEF Tame
  <2>2. CASE inv[i].status = "PAID"
    BY <2>1, <2>2 DEF PaidHas
  <2>3. CASE inv[i].status # "PAID"
    <3>1. PICK k \in Calls : Knows(k, i) /\ call[k].want = "COMPLETED"
      BY <1>1, <2>3 DEF Tame, Concludes
    <3>2. On(k) \in DOMAIN pay /\ Got(On(k)) /\ pay[On(k)].inv = i
      BY <3>1, Resolved DEF Knows, Marking, Invoice
    <3> QED BY <2>1, <3>2
  <2> QED BY <2>2, <2>3
<1>2. ASSUME NEW k \in Calls, NEW i \in DOMAIN inv', NEW p \in Nat, Creates(k, i, p)
      PROVE  PaidHas'
  <2>1. /\ \A j \in DOMAIN inv : inv'[j] = inv[j]
        /\ inv'[i].status = "OPEN" /\ DOMAIN inv' = DOMAIN inv \cup {i}
        /\ \A q \in DOMAIN pay : pay'[q] = pay[q]
    BY <1>2, CreatesIn
  <2>2. DOMAIN pay \subseteq DOMAIN pay'
    BY <1>2, CreatesLast
  <2> QED BY <2>1, <2>2 DEF PaidHas, Got
<1>3. CASE Tame
  BY <1>1, <1>3 DEF PaidHas, Tame
<1> QED BY <1>2, <1>3, StepIs
-----------------------------------------------------------------------------
(* Where nothing is stopped and nothing fails, a request that records a result
   has closed its invoice, and one that gives up is on its way to close it *)
Late == { "credits", "apply", "fee", "activate" }

Recording(k) == call[k].pc \in Late /\ call[k].via # "checkout"

Follows(k) ==
  /\ Recording(k)' =>
       /\ On(k)' = On(k) /\ On(k) \in DOMAIN pay
       /\ Recording(k) \/ inv'[Invoice(k)].status # "OPEN"
  /\ call[k].pc = "close" => call'[k] = call[k] \/ inv'[Invoice(k)].status = "FAILED"

LEMMA FollowsElse ==
  ASSUME Sound, NEW k \in Calls, call[k].pc # "close", ~Recording(k)'
  PROVE  Follows(k)
BY DEF Follows

LEMMA FollowsSame ==
  ASSUME Sound, NEW k \in Calls, call'[k] = call[k]
  PROVE  Follows(k)
<1>1. ASSUME Recording(k)  PROVE  On(k) \in DOMAIN pay
  <2>1. call[k].pc \notin {"idle", "reserve"}
    BY <1>1 DEF Recording, Late
  <2> QED BY <2>1, OnPayment DEF Sound
<1>2. Recording(k)' <=> Recording(k)
  BY DEF Recording
<1> QED BY <1>1, <1>2 DEF Follows, On

LEMMA FollowsOnly ==
  ASSUME Sound, NEW k \in Calls, OnlyCall(k), Follows(k)
  PROVE  \A j \in Calls : Follows(j)
BY FollowsSame DEF OnlyCall

LEMMA FollowsIdle ==
  ASSUME Sound, NEW k \in Calls, call[k].pc # "close", call'[k] = Idle
  PROVE  Follows(k)
<1>1. Idle.pc = "idle"
  BY DEF Idle
<1> QED BY <1>1, FollowsElse DEF Recording, Late

LEMMA FollowsBegin ==
  ASSUME Sound, NEW k \in Calls, Start(k) \/ Reserve(k) \/ Beyond(k) \/ Find(k) \/ Claim(k)
  PROVE  \A j \in Calls : Follows(j)
<1>1. call[k].pc # "close"
  BY DEF Start, Reserve, Beyond, Find, Claim, At
<1>2. CASE Start(k)
  <2>1. OnlyCall(k) /\ call'[k].pc = "reserve"
    BY <1>2, StartDoes DEF Sound
  <2> QED BY <1>1, <2>1, FollowsElse, FollowsOnly DEF Recording, Late
<1>3. CASE Beyond(k)
  BY <1>1, <1>3, DropDoes, FollowsIdle, FollowsOnly DEF Sound
<1>4. CASE Find(k)
  <2>1. /\ OnlyCall(k)
        /\ \/ call'[k] = Idle
           \/ call'[k].pc = "claim"
           \/ call'[k].via = "checkout"
    BY <1>4, FindDoes DEF Sound, Becomes
  <2> QED BY <1>1, <2>1, FollowsElse, FollowsIdle, FollowsOnly DEF Recording, Late
<1>5. CASE Claim(k)
  <2>1. OnlyCall(k) /\ (call'[k] = Idle \/ call'[k].via = "checkout")
    BY <1>5, ClaimDoes DEF Sound, Becomes
  <2> QED BY <1>1, <2>1, FollowsElse, FollowsIdle, FollowsOnly DEF Recording, Late
<1>6. CASE Reserve(k)
  <2>1. OnlyCall(k) /\ (call'[k] = Idle \/ call'[k].via = "checkout")
    BY <1>6, ReserveDoes DEF Sound, Becomes, Proceeds
  <2> QED BY <1>1, <2>1, FollowsElse, FollowsIdle, FollowsOnly DEF Recording, Late
<1> QED BY <1>2, <1>3, <1>4, <1>5, <1>6

LEMMA FollowsSends ==
  ASSUME Sound, NEW k \in Calls,
         \/ Push(k) \/ Store(k) \/ Unpay(k) \/ Update(k) \/ Verdict(k) \/ Settled(k) \/ Reopen(k)
  PROVE  \A j \in Calls : Follows(j)
<1>1. call[k].pc # "close"
  BY DEF Push, Store, Unpay, Update, Verdict, Settled, Reopen, At
<1>2. CASE Push(k) \/ Store(k) \/ Unpay(k)
  <2>1. OnlyCall(k) /\ (call'[k] = Idle \/ call'[k].via = "checkout")
    BY <1>2, PushDoes, StoreDoes, UnpayDoes DEF Sound, Becomes
  <2> QED BY <1>1, <2>1, FollowsElse, FollowsIdle, FollowsOnly DEF Recording, Late
<1>3. CASE Update(k)
  <2>1. OnlyCall(k) /\ call'[k].pc = "invoice"
    BY <1>3, UpdateDoes DEF Sound, Becomes
  <2> QED BY <1>1, <2>1, FollowsElse, FollowsOnly DEF Recording, Late
<1>4. CASE Verdict(k) \/ Settled(k) \/ Reopen(k)
  <2>1. OnlyCall(k) /\ (call'[k] = Idle \/ call'[k].pc = "invoice")
    BY <1>4, VerdictDoes, SettledDoes, ReopenDoes DEF Sound, Becomes
  <2> QED BY <1>1, <2>1, FollowsElse, FollowsIdle, FollowsOnly DEF Recording, Late
<1> QED BY <1>2, <1>3, <1>4

LEMMA FollowsMarks ==
  ASSUME Sound, NEW k \in Calls, Marks(k), errors' = 0
  PROVE  \A j \in Calls : Follows(j)
<1>1. /\ OnlyCall(k) /\ GoesTo(k) /\ call[k].pc \in Marking /\ call[k].pc # "close"
      /\ On(k) \in DOMAIN pay
  BY MarksDo, OnPayment DEF Sound, Marking
<1>2. CASE call'[k] = Idle
  BY <1>1, <1>2, FollowsIdle, FollowsOnly
<1>3. CASE call'[k] # Idle
  <2>1. On(k)' = On(k) /\ call'[k].via = call[k].via
    BY <1>1, <1>3 DEF GoesTo, Becomes, On
  <2>2. call[k].pc \in Late \/ inv'[Invoice(k)].status # "OPEN"
    <3>1. CASE call[k].pc = "invoice"
      <4>1. ~Swallowed(k)
        BY DEF Swallowed, Sound, Typed, BoundsOK
      <4>2. MarkInvoice(k)
        BY <3>1, <4>1 DEF Marks, ReadCredits, ApplyCredits, MarkFee, FeeFails, Activate, At
      <4> QED BY <4>2, MarkInvoiceDoes DEF Sound, Bills
    <3>2. CASE call[k].pc # "invoice"
      BY <1>1, <3>2 DEF Marking, Late
    <3> QED BY <3>1, <3>2
  <2>3. Follows(k)
    BY <1>1, <2>1, <2>2 DEF Follows, Recording
  <2> QED BY <1>1, <2>3, FollowsOnly
<1> QED BY <1>2, <1>3

LEMMA FollowsTakes ==
  ASSUME Sound, NEW k \in Calls, NEW p \in DOMAIN pay,
         Deliver(k, p) \/ Examine(k, p) \/ Resume(k, p)
  PROVE  \A j \in Calls : Follows(j)
<1>1. call[k].pc = "idle" /\ Idle.pc = "idle"
  BY DEF Deliver, Delivers, Examine, Resume, At, Idle
<1>2. CASE UNCHANGED call
  BY <1>2, FollowsSame
<1>3. ASSUME NEW c, call' = [call EXCEPT ![k] = c], c.pc \in {"idle", "update", "verdict", "invoice"}
      PROVE  \A j \in Calls : Follows(j)
  <2>1. OnlyCall(k) /\ call'[k] = c
    BY <1>3 DEF OnlyCall, Sound, Typed
  <2> QED BY <1>1, <1>3, <2>1, FollowsElse, FollowsOnly DEF Recording, Late
<1>4. \/ UNCHANGED call
      \/ \E c : call' = [call EXCEPT ![k] = c] /\ c.pc \in {"idle", "update", "verdict", "invoice"}
  <2>1. CASE Deliver(k, p)
    <3> DEFINE c == IF pay[p].status \in {answer[p], "COMPLETED"} THEN Idle
                    ELSE [ Idle EXCEPT !.pc = "update", !.on = p, !.want = answer[p],
                                       !.via = "callback" ]
    <3>1. UNCHANGED call \/ call' = [call EXCEPT ![k] = c]
      BY <2>1 DEF Deliver, Handles
    <3>2. c.pc \in {"idle", "update"}
      BY DEF Idle
    <3> QED BY <3>1, <3>2
  <2>2. CASE Examine(k, p)
    <3>1. PICK want : call' = [call EXCEPT ![k] =
             [ Idle EXCEPT !.pc = "verdict", !.on = p, !.want = want, !.via = "review" ]]
      BY <2>2 DEF Examine
    <3> DEFINE c == [ Idle EXCEPT !.pc = "verdict", !.on = p, !.want = want, !.via = "review" ]
    <3>2. c.pc = "verdict"
      BY DEF Idle
    <3> QED BY <3>1, <3>2
  <2>3. CASE Resume(k, p)
    <3> DEFINE c == [ Idle EXCEPT !.pc = IF pay[p].status = "COMPLETED" THEN "invoice" ELSE "verdict",
                                  !.on = p, !.want = "COMPLETED", !.via = "review" ]
    <3>1. call' = [call EXCEPT ![k] = c]
      BY <2>3 DEF Resume
    <3>2. c.pc \in {"idle", "update", "verdict", "invoice"}
      BY DEF Idle
    <3> HIDE DEF c
    <3> QED BY <3>1, <3>2
  <2> QED BY <2>1, <2>2, <2>3
<1> QED BY <1>2, <1>3, <1>4

LEMMA AllFollow ==
  ASSUME Sound, [Next]_vars, drops' = 0, errors' = 0
  PROVE  \A k \in Calls : Follows(k)
<1>1. CASE UNCHANGED vars
  BY <1>1, FollowsSame DEF vars
<1>2. ASSUME NEW k \in Calls, Drop(k)  PROVE  FALSE
  BY <1>2 DEF Drop, Sound, Typed, BoundsOK
<1>3. ASSUME NEW k \in Calls, Close(k)  PROVE  \A j \in Calls : Follows(j)
  <2>1. OnlyCall(k) /\ call'[k] = Idle /\ inv'[Invoice(k)].status = "FAILED" /\ Idle.pc = "idle"
    BY <1>3, CloseDoes DEF Sound, Bills, Idle
  <2>2. Follows(k)
    BY <2>1 DEF Follows, Recording, Late
  <2> QED BY <2>1, <2>2, FollowsOnly
<1>4. ASSUME NEW p \in DOMAIN pay, Answer(p) \/ Submit(p)  PROVE  \A j \in Calls : Follows(j)
  BY <1>4, FollowsSame DEF Answer, Submit
<1> QED BY <1>1, <1>2, <1>3, <1>4, NextIs, FollowsBegin, FollowsSends, FollowsMarks, FollowsTakes

(* Stops and errors are counted up *)
Smooth == drops = 0 /\ errors = 0

LEMMA SmoothBefore ==
  ASSUME Sound, [Next]_vars, Smooth'
  PROVE  Smooth
<1>1. drops \in Nat /\ errors \in Nat
  BY BillingAssumption DEF Sound, Typed, BoundsOK
<1>2. CASE UNCHANGED vars
  BY <1>2 DEF vars, Smooth
<1>3. ASSUME NEW k \in Calls,
             \/ Start(k) \/ Find(k) \/ Reserve(k) \/ Claim(k) \/ Push(k) \/ Store(k) \/ Unpay(k)
             \/ Close(k) \/ Beyond(k)
      PROVE  Smooth
  BY <1>3 DEF Start, Find, Reserve, Claim, Push, Store, Unpay, Close, Beyond, bounds, Smooth
<1>4. ASSUME NEW k \in Calls,
             \/ Drop(k) \/ Update(k) \/ Verdict(k) \/ Settled(k) \/ Reopen(k)
      PROVE  Smooth
  BY <1>1, <1>4 DEF Drop, Update, Verdict, Settled, Reopen, bounds, Smooth
<1>5. ASSUME NEW k \in Calls, Marks(k)  PROVE  Smooth
  BY <1>1, <1>5 DEF Marks, MarkInvoice, ReadCredits, ApplyCredits, MarkFee, FeeFails, Activate,
                    Swallowed, bounds, Smooth
<1>6. ASSUME NEW p \in DOMAIN pay, Answer(p) \/ Submit(p)  PROVE  Smooth
  BY <1>6 DEF Answer, Submit, bounds, Smooth
<1>7. ASSUME NEW k \in Calls, NEW p \in DOMAIN pay, Deliver(k, p) \/ Examine(k, p) \/ Resume(k, p)
      PROVE  Smooth
  BY <1>7 DEF Deliver, Delivers, Examine, Resume, bounds, Smooth
<1> QED BY <1>2, <1>3, <1>4, <1>5, <1>6, <1>7, NextIs

(* What a request that records a result left behind it *)
Concluded == \A k \in Calls : Recording(k) => inv[Invoice(k)].status # "OPEN"

(* No step takes a payment from its invoice *)
LEMMA InvoiceStays ==
  ASSUME Sound, Calm, ~stale', [Next]_vars, NEW p \in DOMAIN pay
  PROVE  p \in DOMAIN pay' /\ pay'[p].inv = pay[p].inv
<1>1. ASSUME NEW k \in Calls, NEW i \in DOMAIN inv', NEW q \in Nat, Creates(k, i, q)
      PROVE  p \in DOMAIN pay' /\ pay'[p].inv = pay[p].inv
  <2>1. pay'[p] = pay[p]
    BY <1>1, CreatesIn
  <2>2. DOMAIN pay' = DOMAIN pay \cup {q}
    BY <1>1, CreatesLast
  <2> QED BY <2>1, <2>2
<1>2. CASE Tame
  BY <1>2, TameKinds
<1> QED BY <1>1, <1>2, StepIs

LEMMA ConcludedStep ==
  ASSUME Sound, Calm, ~stale', [Next]_vars, Smooth', Concluded
  PROVE  Concluded'
<1> SUFFICES ASSUME NEW k \in Calls, Recording(k)'
             PROVE  inv'[pay'[On(k)'].inv].status # "OPEN"
  BY DEF Concluded, Invoice
<1>1. /\ On(k)' = On(k) /\ On(k) \in DOMAIN pay
      /\ Recording(k) \/ inv'[Invoice(k)].status # "OPEN"
  BY AllFollow DEF Follows, Smooth
<1>2. pay'[On(k)].inv = Invoice(k) /\ Invoice(k) \in DOMAIN inv
  BY <1>1, InvoiceStays, Rows DEF Invoice, Sound
<1>3. inv'[Invoice(k)].status # "OPEN"
  BY <1>1, <1>2, InvoicesStay DEF Concluded
<1> QED BY <1>1, <1>2, <1>3

(* The credit of an invoice has been given back: every payment of it failed, and
   it is closed or about to be *)
Released ==
  \A i \in DOMAIN inv : inv[i].app = "RELEASED" =>
    /\ \A p \in DOMAIN pay : pay[p].inv = i => pay[p].status = "FAILED"
    /\ \/ inv[i].status # "OPEN"
       \/ \E k \in Calls : call[k].pc = "close" /\ Invoice(k) = i

(* What a step does to the reservation of an invoice *)
Releases(k, i) ==
  /\ call[k].pc = "apply" /\ Invoice(k) = i /\ call[k].want = "FAILED"
  /\ call[k].via = "checkout" => call'[k].pc = "close" /\ On(k)' = On(k)

LEMMA ReleasedBy ==
  ASSUME Sound, [Next]_vars, NEW i \in DOMAIN inv, inv'[i].app = "RELEASED",
         inv[i].app # "RELEASED"
  PROVE  \E k \in Calls : Releases(k, i)
<1>1. ASSUME NEW k \in Calls, ApplyCredits(k)
      PROVE  Releases(k, i)
  <2>1. call[k].pc = "apply" /\ Invoice(k) = i /\ call[k].want = "FAILED"
    BY <1>1, ApplyCreditsDoes DEF Sound, Bills, ApplyCredits, At
  <2> QED BY <1>1, <2>1, ApplyCreditsDoes DEF Sound, Releases, Becomes, On
<1>2. ASSUME NEW k \in Calls, Close(k) \/ MarkInvoice(k)
      PROVE  FALSE
  BY <1>2, CloseDoes, MarkInvoiceDoes DEF Sound, Bills
<1>3. ASSUME NEW k \in Calls, Reserve(k)
      PROVE  FALSE
  BY <1>3, ReserveDoes DEF Sound, Invoices
<1> QED BY <1>1, <1>2, <1>3, InvoicesWritten

LEMMA ReleasedTame ==
  ASSUME Sound, Calm, Tame, ~stale', [Next]_vars, Smooth', Concluded, Released,
         NEW i \in DOMAIN inv, inv'[i].app = "RELEASED"
  PROVE  /\ \A p \in DOMAIN pay' : pay'[p].inv = i => pay'[p].status = "FAILED"
         /\ \/ inv'[i].status # "OPEN"
            \/ \E k \in Calls : call'[k].pc = "close" /\ Invoice(k)' = i
<1>1. \A p \in DOMAIN pay : /\ pay'[p].inv = pay[p].inv
                            /\ pay[p].status = "FAILED" => pay'[p].status = "FAILED"
  BY Lasting DEF Tame
<1>2. inv[i].status # "OPEN" => inv'[i].status # "OPEN"
  BY InvoicesStay
<1>3. \A k \in Calls : Follows(k)
  BY AllFollow DEF Smooth
<1>4. CASE inv[i].app = "RELEASED"
  <2>1. \A p \in DOMAIN pay' : pay'[p].inv = i => pay'[p].status = "FAILED"
    BY <1>1, <1>4 DEF Released, Tame
  <2>2. ASSUME NEW k \in Calls, call[k].pc = "close", Invoice(k) = i
        PROVE  inv'[i].status # "OPEN" \/ (call'[k].pc = "close" /\ Invoice(k)' = i)
    <3>1. On(k) \in DOMAIN pay
      BY <2>2, Resolved
    <3>2. call'[k] = call[k] \/ inv'[i].status = "FAILED"
      BY <1>3, <2>2 DEF Follows
    <3> QED BY <1>1, <2>2, <3>1, <3>2 DEF Invoice, On
  <2> QED BY <1>2, <1>4, <2>1, <2>2 DEF Released
<1>5. CASE inv[i].app # "RELEASED"
  <2>1. PICK k \in Calls : Releases(k, i)
    BY <1>5, ReleasedBy
  <2>2. /\ call[k].pc = "apply" /\ call[k].pc \in Marking /\ Invoice(k) = i
        /\ On(k) \in DOMAIN pay /\ pay[On(k)].status = "FAILED"
    BY <2>1, Resolved DEF Releases, Marking
  <2>3. ASSUME NEW p \in DOMAIN pay, pay[p].inv = i  PROVE  pay[p].status = "FAILED"
    <3>1. CASE p = On(k)
      BY <2>2, <3>1
    <3>2. CASE p # On(k)
      BY <2>2, <2>3, <3>2, LastOfKind DEF Invoice
    <3> QED BY <3>1, <3>2
  <2>4. \A p \in DOMAIN pay' : pay'[p].inv = i => pay'[p].status = "FAILED"
    BY <1>1, <2>3 DEF Tame
  <2>5. CASE call[k].via = "checkout"
    <3>1. call'[k].pc = "close" /\ On(k)' = On(k)
      BY <2>1, <2>5 DEF Releases
    <3>2. Invoice(k)' = i
      BY <1>1, <2>2, <3>1 DEF Invoice
    <3> QED BY <2>4, <3>1, <3>2
  <2>6. CASE call[k].via # "checkout"
    BY <1>2, <2>2, <2>4, <2>6 DEF Concluded, Recording, Late
  <2> QED BY <2>5, <2>6
<1> QED BY <1>4, <1>5

(* A payment is not created for an invoice whose credit was given back: the
   request that gives it back has its failure still to record *)
LEMMA ReleasedCreates ==
  ASSUME Sound, Calm, Released, NEW k \in Calls, NEW i \in DOMAIN inv', NEW p \in Nat,
         Creates(k, i, p)
  PROVE  Released'
<1>1. /\ \A j \in DOMAIN inv : j \in DOMAIN inv' /\ inv'[j] = inv[j]
      /\ DOMAIN inv' = DOMAIN inv \cup {i}
      /\ i \in DOMAIN inv => i \in Open(call[k].kind)
      /\ \A q \in DOMAIN pay : pay'[q] = pay[q]
      /\ DOMAIN pay' = DOMAIN pay \cup {p} /\ p \notin DOMAIN pay /\ pay'[p].inv = i
  <2>1. /\ \A j \in DOMAIN inv : j \in DOMAIN inv' /\ inv'[j] = inv[j]
        /\ DOMAIN inv' = DOMAIN inv \cup {i}
        /\ i \in DOMAIN inv => i \in Open(call[k].kind)
        /\ \A q \in DOMAIN pay : pay'[q] = pay[q]
    BY CreatesIn
  <2>2. DOMAIN pay' = DOMAIN pay \cup {p} /\ p \notin DOMAIN pay /\ pay'[p].inv = i
    BY CreatesLast
  <2> QED BY <2>1, <2>2
<1>2. ASSUME NEW j \in Calls, call[j].pc = "close"
      PROVE  /\ j # k /\ call'[j] = call[j] /\ On(j) \in DOMAIN pay
             /\ Invoice(j)' = Invoice(j) /\ Kind(j) # call[k].kind
  <2>1. On(j) \in DOMAIN pay /\ pay[On(j)].status = "FAILED" /\ On(j) # 0
    BY <1>2, Resolved, Rows DEF Sound
  <2>2. j # k /\ call'[j] = call[j]
    BY <2>1 DEF Creates, OnlyCall, On
  <2>3. Kind(j) # call[k].kind
    BY <2>1, <2>2 DEF Creates, Unrecorded
  <2> QED BY <1>1, <2>1, <2>2, <2>3 DEF On, Invoice
<1>3. ASSUME NEW j \in DOMAIN inv', inv'[j].app = "RELEASED"
      PROVE  j \in DOMAIN inv /\ j # i /\ inv[j].app = "RELEASED"
  <2>1. j \in DOMAIN inv /\ inv[j].app = "RELEASED"
    BY <1>1, <1>3 DEF Creates, Invoices
  <2>2. CASE j = i
    <3>1. inv[j].status = "OPEN" /\ inv[j].kind = call[k].kind
      BY <1>1, <2>1, <2>2 DEF Open
    <3>2. PICK l \in Calls : call[l].pc = "close" /\ Invoice(l) = j
      BY <2>1, <3>1 DEF Released
    <3> QED BY <1>2, <3>1, <3>2 DEF Kind
  <2> QED BY <2>1, <2>2
<1>4. ASSUME NEW j \in DOMAIN inv', inv'[j].app = "RELEASED",
             NEW q \in DOMAIN pay', pay'[q].inv = j
      PROVE  pay'[q].status = "FAILED"
  BY <1>1, <1>3, <1>4 DEF Released
<1>5. ASSUME NEW j \in DOMAIN inv', inv'[j].app = "RELEASED"
      PROVE  inv'[j].status # "OPEN" \/ \E l \in Calls : call'[l].pc = "close" /\ Invoice(l)' = j
  <2>1. inv'[j] = inv[j] /\ j \in DOMAIN inv /\ inv[j].app = "RELEASED"
    BY <1>1, <1>3, <1>5
  <2>2. CASE inv[j].status # "OPEN"
    BY <2>1, <2>2
  <2>3. ASSUME NEW l \in Calls, call[l].pc = "close", Invoice(l) = j
        PROVE  call'[l].pc = "close" /\ Invoice(l)' = j
    BY <1>2, <2>3
  <2> QED BY <2>1, <2>2, <2>3 DEF Released
<1> QED BY <1>4, <1>5 DEF Released

LEMMA ReleasedStep ==
  ASSUME Sound, Calm, ~stale', [Next]_vars, Smooth', Concluded, Released
  PROVE  Released'
<1>1. CASE Tame
  BY <1>1, ReleasedTame DEF Released, Tame
<1> QED BY <1>1, ReleasedCreates, StepIs
-----------------------------------------------------------------------------
(* A request that ends well has its payment; one that fails has given the
   credit back only after its payment, and all before it, failed *)
Full == PaidHas /\ (Smooth => Concluded /\ Released)

LEMMA FullStep ==
  ASSUME Quiet, ~stale => Full, [Next]_vars
  PROVE  ~stale' => Full'
<1> SUFFICES ASSUME ~stale'  PROVE  Full'
  OBVIOUS
<1>1. Sound /\ Calm /\ Full
  BY StaysStale DEF Quiet
<1>2. PaidHas'
  BY <1>1, PaidHasStep DEF Full
<1>3. ASSUME Smooth'  PROVE  Concluded' /\ Released'
  BY <1>1, <1>3, SmoothBefore, ConcludedStep, ReleasedStep DEF Full
<1> QED BY <1>2, <1>3 DEF Full

LEMMA FullInit ==
  ASSUME Init
  PROVE  Full
<1>1. DOMAIN inv = {} /\ \A k \in Calls : call[k].pc = "idle"
  BY DEF Init, Idle
<1> QED BY <1>1 DEF Full, PaidHas, Concluded, Released, Recording, Late

LEMMA FullIsPaid == Quiet /\ (~stale => Full) => PaidInFull
<1> SUFFICES ASSUME Calm, Full, Smooth, NEW i \in DOMAIN inv, inv[i].status = "PAID"
             PROVE  /\ inv[i].app # "RELEASED"
                    /\ \E p \in DOMAIN pay :
                         pay[p].inv = i /\ (pay[p].status = "COMPLETED" \/ pay[p].review = "APPROVED")
  BY DEF PaidInFull, Quiet, Smooth
<1>1. PICK p \in DOMAIN pay : pay[p].inv = i /\ Got(p)
  BY DEF Full, PaidHas
<1>2. pay[p].status # "FAILED"
  BY <1>1 DEF Got, Calm, Reviewed
<1> QED BY <1>1, <1>2 DEF Full, Released, Got

(* A PAID invoice has a completed or approved payment, and the credit its price
   was reduced by has not been given back: releaseInvoiceCredits runs only for
   the last payment of an invoice, which then closes, and the transaction of
   the next payment finds it closed or its failure unrecorded. *)
THEOREM InvoicesArePaid == Spec => []PaidInFull
<1>1. Init => Quiet /\ (~stale => Full)
  BY QuietInit, FullInit
<1>2. Quiet /\ (~stale => Full) /\ [Next]_vars => Quiet' /\ (~stale' => Full')
  BY QuietStep, FullStep
<1> QED BY <1>1, <1>2, FullIsPaid, PTL DEF Spec
-----------------------------------------------------------------------------
(* The account credit that invoices have taken, unit by unit *)
Units(i, n) == {i} \X (1 .. n)

CreditUnits == UNION { Units(i, CreditOf(i)) : i \in DOMAIN inv }

LEMMA UnitsFinite ==
  ASSUME NEW i, NEW n \in Nat
  PROVE  IsFiniteSet(Units(i, n)) /\ Cardinality(Units(i, n)) = n
<1>1. IsFiniteSet(1 .. n) /\ Cardinality(1 .. n) = IF 1 > n THEN 0 ELSE n - 1 + 1
  BY FS_Interval
<1>2. Cardinality(1 .. n) = n
  BY <1>1
<1>3. IsFiniteSet({i}) /\ Cardinality({i}) = 1
  BY FS_Singleton
<1>4. /\ IsFiniteSet({i} \X (1 .. n))
      /\ Cardinality({i} \X (1 .. n)) = Cardinality({i}) * Cardinality(1 .. n)
  BY <1>1, <1>3, FS_Product
<1>5. Cardinality({i} \X (1 .. n)) = n
  BY <1>2, <1>3, <1>4
<1> QED BY <1>4, <1>5 DEF Units

Balanced == IsFiniteSet(CreditUnits) /\ credit + Cardinality(CreditUnits) = Credit

LEMMA CreditTyped ==
  ASSUME Typed
  PROVE  /\ credit \in Nat
         /\ \A i \in DOMAIN inv : CreditOf(i) \in Nat /\ inv[i].reserved \in Nat
<1>1. \A i \in DOMAIN inv : inv[i].reserved \in Nat
  BY Rows, BillingAssumption DEF InvoiceRow
<1> QED BY <1>1 DEF CreditOf, Typed, AccountOK

LEMMA BalancedSame ==
  ASSUME Balanced, credit' = credit, DOMAIN inv' = DOMAIN inv,
         \A i \in DOMAIN inv : CreditOf(i)' = CreditOf(i)
  PROVE  Balanced'
<1>1. CreditUnits' = CreditUnits
  BY DEF CreditUnits
<1> QED BY <1>1 DEF Balanced

LEMMA BalancedMore ==
  ASSUME Typed, Balanced, NEW i, i \notin DOMAIN inv, DOMAIN inv' = DOMAIN inv \cup {i},
         \A j \in DOMAIN inv : CreditOf(j)' = CreditOf(j),
         NEW n \in 0 .. credit, CreditOf(i)' = n, credit' = credit - n
  PROVE  Balanced'
<1>1. credit \in Nat /\ n \in Nat
  BY CreditTyped
<1>2. CreditUnits' = CreditUnits \cup Units(i, n)
  BY DEF CreditUnits
<1>3. Cardinality(CreditUnits \cap Units(i, n)) = 0
  <2>1. CreditUnits \cap Units(i, n) = {}
    BY DEF CreditUnits, Units
  <2> QED BY <2>1, FS_EmptySet
<1>4. IsFiniteSet(Units(i, n)) /\ Cardinality(Units(i, n)) = n
  BY <1>1, UnitsFinite
<1>5. /\ IsFiniteSet(CreditUnits \cup Units(i, n))
      /\ Cardinality(CreditUnits \cup Units(i, n)) =
           Cardinality(CreditUnits) + Cardinality(Units(i, n)) - Cardinality(CreditUnits \cap Units(i, n))
  BY <1>4, FS_Union DEF Balanced
<1>6. Cardinality(CreditUnits) \in Nat
  BY FS_CardinalityType DEF Balanced
<1>7. Cardinality(CreditUnits') = Cardinality(CreditUnits) + n
  BY <1>1, <1>2, <1>3, <1>4, <1>5, <1>6
<1> QED BY <1>1, <1>2, <1>5, <1>6, <1>7 DEF Balanced

LEMMA BalancedLess ==
  ASSUME Typed, Balanced, NEW i \in DOMAIN inv, DOMAIN inv' = DOMAIN inv,
         \A j \in DOMAIN inv : j # i => CreditOf(j)' = CreditOf(j),
         CreditOf(i)' = 0, credit' = credit + CreditOf(i)
  PROVE  Balanced'
<1> PICK n \in Nat : n = CreditOf(i)
  BY CreditTyped
<1>1. Units(i, 0) = {}
  BY DEF Units
<1>2. CreditUnits' = CreditUnits \ Units(i, n)
  BY <1>1 DEF CreditUnits, Units
<1>3. CreditUnits \cap Units(i, n) = Units(i, n)
  BY DEF CreditUnits
<1>4. IsFiniteSet(Units(i, n)) /\ Cardinality(Units(i, n)) = n
  BY UnitsFinite
<1>5. /\ IsFiniteSet(CreditUnits \ Units(i, n))
      /\ Cardinality(CreditUnits \ Units(i, n)) =
           Cardinality(CreditUnits) - Cardinality(CreditUnits \cap Units(i, n))
  BY FS_Difference DEF Balanced
<1>6. Cardinality(CreditUnits) \in Nat /\ credit \in Nat
  BY FS_CardinalityType, CreditTyped DEF Balanced
<1>7. Cardinality(CreditUnits') = Cardinality(CreditUnits) - n
  BY <1>2, <1>3, <1>4, <1>5
<1> QED BY <1>2, <1>5, <1>6, <1>7 DEF Balanced

LEMMA CreditStays ==
  ASSUME [Next]_vars, inv' = inv,
         ~\E k \in Calls : Reserve(k) \/ ApplyCredits(k)
  PROVE  credit' = credit
<1>1. CASE UNCHANGED vars
  BY <1>1 DEF vars
<1>2. ASSUME NEW k \in Calls,
             \/ Start(k) \/ Find(k) \/ Claim(k) \/ Push(k) \/ Store(k) \/ Unpay(k) \/ Close(k)
             \/ Drop(k) \/ Beyond(k) \/ Update(k) \/ Verdict(k) \/ Settled(k) \/ Reopen(k)
      PROVE  credit' = credit
  BY <1>2 DEF Start, Find, Claim, Push, Store, Unpay, Close, Drop, Beyond, Update, Verdict,
              Settled, Reopen
<1>3. ASSUME NEW k \in Calls, Marks(k)
      PROVE  credit' = credit
  BY <1>3 DEF Marks, MarkInvoice, ReadCredits, MarkFee, FeeFails, Activate, Swallowed
<1>4. ASSUME NEW p \in DOMAIN pay, Answer(p) \/ Submit(p)  PROVE  credit' = credit
  BY <1>4 DEF Answer, Submit
<1>5. ASSUME NEW k \in Calls, NEW p \in DOMAIN pay, Deliver(k, p) \/ Examine(k, p) \/ Resume(k, p)
      PROVE  credit' = credit
  BY <1>5 DEF Deliver, Delivers, Examine, Resume
<1> QED BY <1>1, <1>2, <1>3, <1>4, <1>5, NextIs

LEMMA BalancedStep ==
  ASSUME Sound, ~stale', Balanced, [Next]_vars
  PROVE  Balanced'
<1>1. ASSUME NEW k \in Calls, Reserve(k)
      PROVE  Balanced'
  <2>1. CASE UNCHANGED << inv, credit >>
    BY <2>1, BalancedSame DEF CreditOf
  <2>2. ASSUME NEW kind, NEW i, Invoices(kind, i)
        PROVE  Balanced'
    <3>1. \A j \in DOMAIN inv : CreditOf(j)' = CreditOf(j)
      BY <2>2 DEF Invoices, CreditOf
    <3> PICK n \in 0 .. credit : n = inv'[i].reserved
      BY <2>2 DEF Invoices
    <3>2. CreditOf(i)' = n
      BY <2>2 DEF Invoices, CreditOf
    <3> QED BY <2>2, <3>1, <3>2, BalancedMore DEF Invoices, Sound
  <2> QED BY <1>1, <2>1, <2>2, ReserveDoes DEF Sound
<1>2. ASSUME NEW k \in Calls, ApplyCredits(k)
      PROVE  Balanced'
  <2>1. CASE UNCHANGED << inv, credit >>
    BY <2>1, BalancedSame DEF CreditOf
  <2> DEFINE i == Invoice(k)
  <2>2. CASE /\ inv[i].app = "RESERVED" /\ credit' = credit + inv[i].reserved
             /\ Bills(i, inv[i].status, "RELEASED") /\ i \in DOMAIN inv
    <3> PICK j \in DOMAIN inv : j = Invoice(k)
      BY <2>2
    <3>1. /\ CreditOf(j) = inv[j].reserved /\ CreditOf(j)' = 0
          /\ \A l \in DOMAIN inv : l # j => CreditOf(l)' = CreditOf(l)
      BY <2>2 DEF Bills, CreditOf
    <3> QED BY <2>2, <3>1, BalancedLess DEF Sound, Bills
  <2>3. CASE /\ inv[i].app = "RESERVED" /\ credit' = credit
             /\ Bills(i, inv[i].status, "APPLIED") /\ i \in DOMAIN inv
    <3> PICK j \in DOMAIN inv : j = Invoice(k)
      BY <2>3
    <3>1. \A l \in DOMAIN inv : CreditOf(l)' = CreditOf(l)
      BY <2>3 DEF Bills, CreditOf
    <3> QED BY <2>3, <3>1, BalancedSame DEF Bills
  <2> QED BY <1>2, <2>1, <2>2, <2>3, ApplyCreditsDoes DEF Sound
<1>3. ASSUME NEW k \in Calls, Close(k) \/ MarkInvoice(k)
      PROVE  Balanced'
  <2>1. PICK j \in DOMAIN inv, s \in {"PAID", "FAILED"} : Bills(j, s, inv[j].app) /\ credit' = credit
    BY <1>3, CloseDoes, MarkInvoiceDoes DEF Sound, Close, MarkInvoice
  <2>2. \A l \in DOMAIN inv : CreditOf(l)' = CreditOf(l)
    BY <2>1 DEF Bills, CreditOf
  <2> QED BY <2>1, <2>2, BalancedSame DEF Bills
<1>4. CASE inv' = inv /\ ~\E k \in Calls : Reserve(k) \/ ApplyCredits(k)
  BY <1>4, CreditStays, BalancedSame DEF CreditOf
<1> QED BY <1>1, <1>2, <1>3, <1>4, InvoicesWritten

LEMMA BalancedInit ==
  ASSUME Init
  PROVE  Balanced
<1>1. CreditUnits = {} /\ credit = Credit
  BY DEF Init, CreditUnits
<1> QED BY <1>1, FS_EmptySet, BillingAssumption DEF Balanced

LEMMA BalancedIsConserved == (~stale => Balanced) => CreditConserved
<1>1. CreditUsed = Cardinality(CreditUnits)
  BY DEF CreditUsed, CreditUnits, Units
<1> QED BY <1>1 DEF CreditConserved, Balanced

(* Account credit is neither lost nor multiplied: what an invoice reserves in
   the transaction that creates it is used or given back once, whatever is
   stopped or fails in between. *)
THEOREM CreditIsConserved == Spec => []CreditConserved
<1>1. Init => Sound /\ (~stale => Balanced)
  BY SoundInit, BalancedInit
<1>2. Sound /\ (~stale => Balanced) /\ [Next]_vars => Sound' /\ (~stale' => Balanced')
  BY SoundStep, StaysStale, BalancedStep
<1> QED BY <1>1, <1>2, BalancedIsConserved, PTL DEF Spec
=============================================================================
