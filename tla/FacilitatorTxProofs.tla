------------------------- MODULE FacilitatorTxProofs -------------------------
(***************************************************************************)
(* Proofs about FacilitatorTx for any transactions, deliveries, limit and  *)
(* opening balance, while two deliveries for one transaction never overlap *)
(* (webhook_twice shows what happens when they do).                        *)
(***************************************************************************)
EXTENDS FacilitatorTx, FiniteSetTheorems, TLAPS

\* One delivery at a time works on a transaction.
Alone ==
    \A d, o \in Deliveries :
        pc[d] # "idle" /\ pc[o] # "idle" /\ Tx(d) = Tx(o) => d = o

\* What the row holds tells how far the call that creates it has come.
RowShape ==
    \A t \in Txs :
        /\ t \in known => call[t] = "over" /\ st[t] \in {"processing", "completed", "failed"}
        /\ st[t] = "completed" => t \in known
        /\ call[t] \in {"new", "checked"} => st[t] = "none"
        /\ call[t] \in {"asking", "answered", "refused"} => st[t] = "pending"

\* Only what the provider has sent is delivered, and recorded; it was sent
\* after the call was over, or overtook it.
ReportShape ==
    /\ recorded \subseteq reported
    /\ \A d \in Deliveries : pc[d] # "idle" => ev[d] \in reported
    /\ \A t \in Txs \ early : <<t, "success">> \in reported => call[t] = "over"

\* Where a delivery is tells what it has found and done.
DeliveryShape ==
    \A d \in Deliveries :
        /\ pc[d] \in {"save", "adjust"} => Tx(d) \in known
        /\ pc[d] = "save" => st[Tx(d)] # "completed"
        /\ pc[d] = "adjust" =>
             Kind(d) = "success" /\ st[Tx(d)] = "completed" /\ applied[Tx(d)] = 0

\* A transaction that has moved the balance is completed, as the provider said.
AppliedShape ==
    \A t \in Txs :
        /\ applied[t] \in {0, 1}
        /\ applied[t] = 1 => st[t] = "completed" /\ <<t, "success">> \in reported

IInv == TypeOK /\ Alone /\ RowShape /\ ReportShape /\ DeliveryShape /\ AppliedShape

-----------------------------------------------------------------------------
\* The first state satisfies the inductive invariant.
LEMMA InitIInv == Init => IInv
BY FacilitatorAssumption
   DEF Init, IInv, TypeOK, Alone, RowShape, ReportShape, DeliveryShape, AppliedShape

\* A step of the call that creates a transaction.
LEMMA CallIInv ==
  ASSUME IInv, NEW t \in Txs, CallStep(t)
  PROVE  IInv'
<1> USE DEF provider, webhook
<1>1. /\ UNCHANGED <<early, reported, pc, ev, recorded, bal, applied, sent, crashes, short>>
      /\ \A s \in Txs \ {t} : st'[s] = st[s] /\ call'[s] = call[s] /\ (s \in known' <=> s \in known)
      /\ known \subseteq known' /\ known' \subseteq Txs
      /\ opened' \subseteq Txs /\ loose' \subseteq Txs
      /\ call[t] # "over" /\ t \notin known
  BY DEF CallStep, CheckLimit, SavePending, AskProvider, SaveProcessing, SaveFailed,
     IInv, TypeOK, RowShape
<1>2. /\ call' \in [Txs -> {"new", "checked", "asking", "answered", "refused", "over"}]
      /\ st' \in [Txs -> {"none", "pending", "processing", "completed", "failed"}]
  BY DEF CallStep, CheckLimit, SavePending, AskProvider, SaveProcessing, SaveFailed, IInv, TypeOK
<1>3. TypeOK'
  BY <1>1, <1>2 DEF IInv, TypeOK
<1>4. Alone'
  BY <1>1 DEF IInv, Alone, Tx
<1>5. RowShape'
  <2>1. ASSUME NEW s \in Txs \ {t}
        PROVE  /\ s \in known' => call'[s] = "over" /\ st'[s] \in {"processing", "completed", "failed"}
               /\ st'[s] = "completed" => s \in known'
               /\ call'[s] \in {"new", "checked"} => st'[s] = "none"
               /\ call'[s] \in {"asking", "answered", "refused"} => st'[s] = "pending"
    BY <1>1 DEF IInv, RowShape
  <2>2. /\ t \in known' => call'[t] = "over" /\ st'[t] \in {"processing", "completed", "failed"}
        /\ st'[t] = "completed" => t \in known'
        /\ call'[t] \in {"new", "checked"} => st'[t] = "none"
        /\ call'[t] \in {"asking", "answered", "refused"} => st'[t] = "pending"
    BY <1>1 DEF CallStep, CheckLimit, SavePending, AskProvider, SaveProcessing, SaveFailed,
       IInv, TypeOK, RowShape
  <2> QED
    BY <2>1, <2>2 DEF RowShape
<1>6. ReportShape'
  <2>1. ASSUME NEW s \in Txs, call[s] = "over"
        PROVE  call'[s] = "over"
    BY <1>1, <2>1
  <2> QED
    BY <1>1, <2>1 DEF IInv, ReportShape
<1>7. ASSUME NEW d \in Deliveries, pc[d] \in {"save", "adjust"}
      PROVE  Tx(d) \in Txs \ {t}
  BY <1>1, <1>7 DEF IInv, TypeOK, DeliveryShape
<1>8. DeliveryShape'
  BY <1>1, <1>7 DEF IInv, DeliveryShape, Tx, Kind
<1>9. AppliedShape'
  <2>1. st[t] # "completed"
    BY <1>1 DEF IInv, RowShape
  <2> QED
    BY <1>1, <2>1 DEF IInv, AppliedShape
<1> QED
  BY <1>3, <1>4, <1>5, <1>6, <1>8, <1>9 DEF IInv

\* The provider reports how a payment it has opened ended.
LEMMA ReportIInv ==
  ASSUME IInv, NEW t \in Txs, NEW k \in Kinds, Report(t, k)
  PROVE  IInv'
<1>1. /\ UNCHANGED <<st, known, call, opened, webhook, crashes, loose, short>>
      /\ reported' = reported \cup {<<t, k>>}
      /\ early' = IF call[t] = "over" THEN early ELSE early \cup {t}
  BY DEF Report
<1> USE DEF webhook
<1>2. TypeOK'
  BY <1>1 DEF IInv, TypeOK
<1>3. Alone' /\ RowShape' /\ DeliveryShape'
  BY <1>1 DEF IInv, Alone, RowShape, DeliveryShape, Tx, Kind
<1>4. ReportShape'
  BY <1>1 DEF IInv, ReportShape
<1>5. AppliedShape'
  BY <1>1 DEF IInv, AppliedShape
<1> QED
  BY <1>2, <1>3, <1>4, <1>5 DEF IInv

\* An event is delivered while no other delivery works on its transaction.
LEMMA DeliverIInv ==
  ASSUME Overlap = FALSE, IInv, NEW d \in Deliveries, NEW e \in reported, Deliver(d, e)
  PROVE  IInv'
<1>1. /\ UNCHANGED <<st, known, call, provider, recorded, bal, applied, crashes, loose, short>>
      /\ pc[d] = "idle" /\ sent < MaxDeliveries /\ sent' = sent + 1
      /\ pc' = [pc EXCEPT ![d] = "check"] /\ ev' = [ev EXCEPT ![d] = e]
      /\ \A o \in Deliveries : pc[o] # "idle" => Tx(o) # e[1]
  BY DEF Deliver, Tx
<1> USE DEF provider
<1>2. TypeOK'
  BY <1>1, FacilitatorAssumption DEF IInv, TypeOK
<1>3. Alone'
  BY <1>1 DEF IInv, TypeOK, Alone, Tx
<1>4. RowShape' /\ AppliedShape'
  BY <1>1 DEF IInv, RowShape, AppliedShape
<1>5. ReportShape'
  BY <1>1 DEF IInv, TypeOK, ReportShape
<1>6. DeliveryShape'
  BY <1>1 DEF IInv, TypeOK, DeliveryShape, Tx, Kind
<1> QED
  BY <1>2, <1>3, <1>4, <1>5, <1>6 DEF IInv

\* A delivery that only looks, that records the event, or that dies.
LEMMA MoveIInv ==
  ASSUME IInv, NEW d \in Deliveries, pc[d] # "idle",
         UNCHANGED <<st, known, provider, ev, bal, applied, sent, loose, short>>,
         NEW step \in {"idle", "find", "save", "record"}, Go(d, step),
         step = "save" => Tx(d) \in known /\ st[Tx(d)] # "completed",
         recorded' = recorded \/ recorded' = recorded \cup {ev[d]},
         call' = call, crashes' \in 0..MaxCrashes
  PROVE  IInv'
<1> USE DEF provider, Go
<1>1. ev[d] \in reported
  BY DEF IInv, ReportShape
<1>2. TypeOK'
  BY <1>1 DEF IInv, TypeOK
<1>3. Alone'
  BY DEF IInv, TypeOK, Alone, Tx
<1>4. RowShape' /\ AppliedShape'
  BY DEF IInv, RowShape, AppliedShape
<1>5. ReportShape'
  BY <1>1 DEF IInv, TypeOK, ReportShape
<1>6. DeliveryShape'
  BY DEF IInv, TypeOK, DeliveryShape, Tx, Kind
<1> QED
  BY <1>2, <1>3, <1>4, <1>5, <1>6 DEF IInv

\* A call that dies leaves its row as it is.
LEMMA CallCrashIInv ==
  ASSUME IInv, NEW t \in Txs, call' = [call EXCEPT ![t] = "over"],
         UNCHANGED <<st, known, provider, webhook, loose, short>>, crashes' \in 0..MaxCrashes
  PROVE  IInv'
<1> USE DEF provider, webhook
<1>1. TypeOK'
  BY DEF IInv, TypeOK
<1>2. RowShape' /\ ReportShape'
  BY DEF IInv, TypeOK, RowShape, ReportShape
<1>3. Alone' /\ DeliveryShape' /\ AppliedShape'
  BY DEF IInv, Alone, DeliveryShape, AppliedShape, Tx, Kind
<1> QED
  BY <1>1, <1>2, <1>3 DEF IInv

\* The status is saved on a row nobody else's delivery has in hand.
LEMMA SaveIInv ==
  ASSUME IInv, NEW d \in Deliveries, Save(d)
  PROVE  IInv'
<1> DEFINE t == Tx(d)  ok == Kind(d) = "success"
<1>1. /\ pc[d] = "save" /\ t \in known /\ t \in Txs /\ st[t] # "completed"
      /\ ev[d] \in reported /\ ev[d] \in Txs \X Kinds
  BY DEF Save, IInv, TypeOK, DeliveryShape, ReportShape
<1>2. /\ UNCHANGED <<known, call, opened, early, reported, ev, recorded, bal, applied, sent,
                     crashes, short>>
      /\ st' = [st EXCEPT ![t] = IF ok THEN "completed" ELSE "failed"]
      /\ pc' = [pc EXCEPT ![d] = IF ok THEN "adjust" ELSE "record"]
      /\ loose' \subseteq Txs
  BY <1>1 DEF Save, Go, provider, IInv, TypeOK
<1>3. TypeOK'
  BY <1>1, <1>2 DEF IInv, TypeOK
<1>4. Alone'
  BY <1>1, <1>2 DEF IInv, TypeOK, Alone, Tx
<1>5. RowShape'
  BY <1>1, <1>2 DEF IInv, TypeOK, RowShape
<1>6. ReportShape'
  BY <1>1, <1>2 DEF IInv, TypeOK, ReportShape
<1>7. applied[t] = 0
  BY <1>1 DEF IInv, AppliedShape
<1>8. \A o \in Deliveries : o # d /\ pc[o] # "idle" => Tx(o) # t
  BY <1>1 DEF IInv, Alone
<1>9. DeliveryShape'
  <2>1. ASSUME NEW o \in Deliveries, o # d
        PROVE  /\ pc'[o] \in {"save", "adjust"} => Tx(o) \in known /\ st'[Tx(o)] = st[Tx(o)]
               /\ pc'[o] = pc[o]
    BY <1>2, <1>8, <2>1 DEF IInv, TypeOK, DeliveryShape
  <2> QED
    BY <1>1, <1>2, <1>7, <2>1 DEF IInv, TypeOK, DeliveryShape, Tx, Kind
<1>10. AppliedShape'
  BY <1>1, <1>2, <1>7 DEF IInv, TypeOK, AppliedShape
<1> QED
  BY <1>3, <1>4, <1>5, <1>6, <1>9, <1>10 DEF IInv

\* A completed transaction moves the balance for the first time.
LEMMA AdjustIInv ==
  ASSUME IInv, NEW d \in Deliveries, Adjust(d)
  PROVE  IInv'
<1> DEFINE t == Tx(d)
<1>1. /\ pc[d] = "adjust" /\ t \in Txs /\ st[t] = "completed" /\ applied[t] = 0
      /\ ev[d] = <<t, "success">> /\ ev[d] \in reported
  BY DEF Adjust, IInv, TypeOK, DeliveryShape, ReportShape, Tx, Kind
<1>2. UNCHANGED <<st, known, call, opened, early, reported, ev, recorded, sent, crashes, loose>>
  BY DEF Adjust, provider
<1>3. /\ pc' = [pc EXCEPT ![d] = pc'[d]] /\ pc'[d] \in {"idle", "record"}
      /\ applied' = applied \/ applied' = [applied EXCEPT ![t] = 1]
      /\ bal' \in Nat /\ short' \subseteq Withdrawals
  BY <1>1 DEF Adjust, Go, IInv, TypeOK
<1>4. TypeOK'
  BY <1>2, <1>3 DEF IInv, TypeOK
<1>5. Alone'
  BY <1>1, <1>2, <1>3 DEF IInv, TypeOK, Alone, Tx
<1>6. RowShape' /\ ReportShape'
  BY <1>1, <1>2, <1>3 DEF IInv, TypeOK, RowShape, ReportShape
<1>7. \A o \in Deliveries : o # d /\ pc[o] # "idle" => Tx(o) # t
  BY <1>1 DEF IInv, Alone
<1>8. DeliveryShape'
  BY <1>1, <1>2, <1>3, <1>7 DEF IInv, TypeOK, DeliveryShape, Tx, Kind
<1>9. AppliedShape'
  <2>1. ASSUME NEW s \in Txs, s # t
        PROVE  applied'[s] = applied[s]
    BY <1>3, <2>1 DEF IInv, TypeOK
  <2>2. applied'[t] \in {0, 1}
    BY <1>1, <1>3 DEF IInv, TypeOK
  <2> QED
    BY <1>1, <1>2, <2>1, <2>2 DEF IInv, AppliedShape
<1> QED
  BY <1>4, <1>5, <1>6, <1>8, <1>9 DEF IInv

-----------------------------------------------------------------------------
\* Every step preserves the inductive invariant.
LEMMA NextIInv ==
  ASSUME Overlap = FALSE, IInv, [Next]_vars
  PROVE  IInv'
<1>1. ASSUME NEW d \in Deliveries, Handle(d)
      PROVE  IInv'
  <2>1. CASE Check(d)
    <3>1. PICK step \in {"idle", "find"} : Go(d, step)
      BY <2>1 DEF Check, Go
    <3> QED
      BY <2>1, <3>1, MoveIInv DEF Check, IInv, TypeOK
  <2>2. CASE Find(d)
    <3>1. PICK step \in {"save", "record"} :
            Go(d, step) /\ (step = "save" => Tx(d) \in known /\ st[Tx(d)] # "completed")
      BY <2>2 DEF Find, Go
    <3> QED
      BY <2>2, <3>1, MoveIInv DEF Find, IInv, TypeOK
  <2>3. CASE Record(d)
    BY <2>3, MoveIInv DEF Record, IInv, TypeOK
  <2> QED
    BY <1>1, <2>1, <2>2, <2>3, SaveIInv, AdjustIInv DEF Handle
<1>2. CASE Crash
  <2>1. crashes' \in 0..MaxCrashes
    BY <1>2, FacilitatorAssumption DEF Crash, IInv, TypeOK
  <2>2. ASSUME NEW d \in Deliveries, pc[d] # "idle", Go(d, "idle"), UNCHANGED call
        PROVE  IInv'
    BY <1>2, <2>1, <2>2, MoveIInv DEF Crash
  <2>3. ASSUME NEW t \in Txs, call' = [call EXCEPT ![t] = "over"], UNCHANGED pc
        PROVE  IInv'
    BY <1>2, <2>1, <2>3, CallCrashIInv DEF Crash, webhook
  <2> QED
    BY <1>2, <2>2, <2>3 DEF Crash
<1>3. CASE UNCHANGED vars
  BY <1>3 DEF vars, IInv, TypeOK, Alone, RowShape, ReportShape, DeliveryShape, AppliedShape,
     Tx, Kind
<1> QED
  BY <1>1, <1>2, <1>3, CallIInv, ReportIInv, DeliverIInv DEF Next

\* IInv holds throughout every behaviour without overlapping deliveries.
THEOREM Invariance ==
  ASSUME Overlap = FALSE
  PROVE  Spec => []IInv
<1>1. IInv /\ [Next]_vars => IInv'
  BY NextIInv
<1> QED
  BY InitIInv, <1>1, PTL DEF Spec

\* Balances never go below zero and every variable keeps its type.
THEOREM TypeCorrect ==
  ASSUME Overlap = FALSE
  PROVE  Spec => []TypeOK
<1>1. IInv => TypeOK
  BY DEF IInv
<1> QED
  BY Invariance, <1>1, PTL

\* A deposit is credited and a withdrawal debited at most once, for any number of
\* deliveries, repetitions, orders of arrival and crashes.
THEOREM AppliedOnce ==
  ASSUME Overlap = FALSE
  PROVE  Spec => []AppliedAtMostOnce
<1>1. IInv => AppliedAtMostOnce
  <2> SUFFICES ASSUME IInv, NEW t \in Txs PROVE applied[t] <= 1
    BY DEF AppliedAtMostOnce
  <2>1. applied[t] = 0 \/ applied[t] = 1
    BY DEF IInv, AppliedShape
  <2> QED
    BY <2>1
<1> QED
  BY Invariance, <1>1, PTL

-----------------------------------------------------------------------------
(* What is recorded has been applied.                                       *)

\* Unless something died or the balance did not cover it, a completed
\* transaction has moved the balance or is about to.
Settled ==
    crashes = 0 =>
        \A t \in Txs \ short : st[t] = "completed" =>
            applied[t] = 1 \/ \E d \in Deliveries : pc[d] = "adjust" /\ Tx(d) = t

\* A success about to be recorded has been applied.
Recording ==
    crashes = 0 =>
        \A d \in Deliveries :
            pc[d] = "record" /\ Kind(d) = "success" /\ Tx(d) \in known \ (early \cup short)
                => applied[Tx(d)] = 1

SettledInv == Settled /\ Recording /\ RecordedIsApplied

\* A call neither completes a transaction nor, unless the report overtook it,
\* makes one known whose success has been reported.
LEMMA CallSettled ==
  ASSUME IInv, SettledInv, NEW t \in Txs, CallStep(t)
  PROVE  SettledInv'
<1>1. /\ UNCHANGED <<early, reported, pc, ev, recorded, applied, crashes, short>>
      /\ \A s \in Txs \ {t} : st'[s] = st[s] /\ (s \in known' <=> s \in known)
      /\ st'[t] # "completed" /\ call[t] # "over" /\ known' \subseteq Txs
  BY DEF CallStep, CheckLimit, SavePending, AskProvider, SaveProcessing, SaveFailed,
     provider, webhook, IInv, TypeOK, RowShape
<1>2. t \in early \/ <<t, "success">> \notin reported
  BY <1>1 DEF IInv, ReportShape
<1>3. Settled'
  BY <1>1 DEF SettledInv, Settled, Tx
<1>4. Recording'
  <2>1. ASSUME NEW d \in Deliveries, pc[d] = "record", Kind(d) = "success",
               Tx(d) \in known' \ (early \cup short)
        PROVE  Tx(d) \in known \ (early \cup short)
    <3>1. ev[d] = <<Tx(d), "success">> /\ ev[d] \in reported
      BY <2>1 DEF IInv, TypeOK, ReportShape, Tx, Kind
    <3> QED
      BY <1>1, <1>2, <2>1, <3>1
  <2> QED
    BY <1>1, <2>1 DEF SettledInv, Recording, Tx, Kind
<1>5. RecordedIsApplied'
  BY <1>1, <1>2 DEF SettledInv, RecordedIsApplied, IInv, ReportShape
<1> QED
  BY <1>3, <1>4, <1>5 DEF SettledInv

\* A delivery that finds its transaction completed may record it: nobody else
\* works on it, so it has been applied.
LEMMA HandleSettled ==
  ASSUME IInv, SettledInv, NEW d \in Deliveries, Handle(d)
  PROVE  SettledInv'
<1> DEFINE t == Tx(d)
<1>1. /\ pc[d] # "idle" /\ t \in Txs /\ ev[d] = <<t, Kind(d)>> /\ ev[d] \in reported
      /\ \A o \in Deliveries : o # d /\ pc[o] # "idle" => Tx(o) # t
  BY DEF Handle, Check, Find, Save, Adjust, Record, IInv, TypeOK, ReportShape, Alone, Tx, Kind
<1>2. /\ UNCHANGED <<known, early, ev, crashes>>
      /\ \A o \in Deliveries \ {d} : pc'[o] = pc[o]
  BY DEF Handle, Check, Find, Save, Adjust, Record, Go, provider, IInv, TypeOK
<1>3. CASE Check(d) \/ Find(d) \/ Record(d)
  <2>1. /\ UNCHANGED <<st, applied, short>> /\ pc[d] # "adjust"
        /\ recorded' = recorded \/ (pc[d] = "record" /\ recorded' = recorded \cup {ev[d]})
        /\ pc'[d] = "record" => t \notin known \/ st[t] = "completed"
    BY <1>1, <1>2, <1>3 DEF Check, Find, Record, Go, IInv, TypeOK
  <2>2. Settled'
    BY <1>2, <2>1 DEF SettledInv, Settled, Tx
  <2>3. Recording'
    <3>1. crashes = 0 /\ st[t] = "completed" /\ t \notin short => applied[t] = 1
      BY <1>1, <2>1 DEF SettledInv, Settled
    <3> QED
      BY <1>1, <1>2, <2>1, <3>1 DEF SettledInv, Recording, Tx, Kind
  <2>4. RecordedIsApplied'
    <3>1. ASSUME NEW s \in known \ (early \cup short), <<s, "success">> \in recorded', crashes = 0
          PROVE  applied[s] = 1
      <4>1. CASE <<s, "success">> \in recorded
        BY <3>1, <4>1 DEF SettledInv, RecordedIsApplied
      <4>2. CASE pc[d] = "record" /\ <<s, "success">> = ev[d]
        <5>1. s = t /\ Kind(d) = "success"
          BY <1>1, <4>2
        <5> QED
          BY <3>1, <4>2, <5>1 DEF SettledInv, Recording
      <4> QED
        BY <2>1, <3>1, <4>1, <4>2
    <3> QED
      BY <1>2, <2>1, <3>1 DEF RecordedIsApplied
  <2> QED
    BY <2>2, <2>3, <2>4 DEF SettledInv
<1>4. CASE Save(d)
  <2>1. /\ UNCHANGED <<applied, short, recorded>> /\ pc[d] = "save"
        /\ \A s \in Txs \ {t} : st'[s] = st[s]
        /\ st'[t] = "completed" => pc'[d] = "adjust"
        /\ pc'[d] = "record" => Kind(d) # "success"
    BY <1>1, <1>2, <1>4 DEF Save, Go, IInv, TypeOK
  <2>2. Settled'
    <3> SUFFICES ASSUME crashes = 0, NEW s \in Txs \ short, st'[s] = "completed"
                 PROVE  applied[s] = 1 \/ \E o \in Deliveries : pc'[o] = "adjust" /\ Tx(o) = s
      BY <1>2, <2>1 DEF Settled, Tx
    <3>1. CASE s = t
      BY <1>2, <2>1, <3>1
    <3>2. CASE s # t
      BY <1>2, <2>1, <3>2 DEF SettledInv, Settled, IInv, TypeOK
    <3> QED
      BY <3>1, <3>2
  <2>3. Recording' /\ RecordedIsApplied'
    BY <1>2, <2>1 DEF SettledInv, Recording, RecordedIsApplied, Tx, Kind, IInv, TypeOK
  <2> QED
    BY <2>2, <2>3 DEF SettledInv
<1>5. CASE Adjust(d)
  <2>1. /\ UNCHANGED <<st, recorded>> /\ pc[d] = "adjust" /\ short \subseteq short'
        /\ \/ pc'[d] = "idle" /\ t \in short' /\ applied' = applied
           \/ applied'[t] = 1 /\ \A s \in Txs \ {t} : applied'[s] = applied[s]
    BY <1>1, <1>2, <1>5 DEF Adjust, Go, IInv, TypeOK, DeliveryShape
  <2>2. \A s \in Txs \ short' : applied[s] = 1 => applied'[s] = 1
    BY <2>1
  <2>3. Settled'
    <3> SUFFICES ASSUME crashes = 0, NEW s \in Txs \ short', st[s] = "completed"
                 PROVE  applied'[s] = 1 \/ \E o \in Deliveries : pc'[o] = "adjust" /\ Tx(o) = s
      BY <1>2, <2>1 DEF Settled, Tx
    <3>1. CASE s = t
      BY <2>1, <3>1
    <3>2. CASE s # t
      <4>1. applied[s] = 1 \/ \E o \in Deliveries : pc[o] = "adjust" /\ Tx(o) = s
        BY <2>1 DEF SettledInv, Settled
      <4> QED
        BY <1>2, <2>2, <3>2, <4>1 DEF IInv, TypeOK
    <3> QED
      BY <3>1, <3>2
  <2>4. Recording'
    <3> SUFFICES ASSUME crashes = 0, NEW o \in Deliveries, pc'[o] = "record",
                        Kind(o) = "success", Tx(o) \in known \ (early \cup short')
                 PROVE  applied'[Tx(o)] = 1
      BY <1>2 DEF Recording, Tx, Kind
    <3>1. Tx(o) \in Txs
      BY DEF IInv, TypeOK
    <3>2. CASE o = d
      BY <2>1, <3>2
    <3>3. CASE o # d
      <4>1. pc[o] = "record" /\ Tx(o) \notin early \cup short
        BY <1>2, <2>1, <3>3
      <4>2. applied[Tx(o)] = 1
        BY <4>1 DEF SettledInv, Recording
      <4> QED
        BY <2>2, <3>1, <4>2
    <3> QED
      BY <3>2, <3>3
  <2>5. RecordedIsApplied'
    BY <1>2, <2>1, <2>2 DEF SettledInv, RecordedIsApplied, IInv, TypeOK
  <2> QED
    BY <2>3, <2>4, <2>5 DEF SettledInv
<1> QED
  BY <1>3, <1>4, <1>5 DEF Handle

\* A success recorded as processed has moved the balance, for any number of
\* deliveries, and whichever of the provider's reports comes first.
THEOREM RecordedCorrect ==
  ASSUME Overlap = FALSE
  PROVE  Spec => []RecordedIsApplied
<1>1. Init => SettledInv
  BY DEF Init, SettledInv, Settled, Recording, RecordedIsApplied
<1>2. ASSUME IInv, SettledInv, [Next]_vars
      PROVE  SettledInv'
  <2>1. ASSUME NEW t \in Txs, NEW k \in Kinds, Report(t, k)
        PROVE  SettledInv'
    BY <1>2, <2>1 DEF Report, webhook, SettledInv, Settled, Recording, RecordedIsApplied, Tx, Kind
  <2>2. ASSUME NEW d \in Deliveries, NEW e \in reported, Deliver(d, e)
        PROVE  SettledInv'
    <3>1. /\ UNCHANGED <<st, known, early, recorded, applied, crashes, short>>
          /\ pc[d] = "idle" /\ pc'[d] = "check"
          /\ \A o \in Deliveries \ {d} : pc'[o] = pc[o] /\ ev'[o] = ev[o]
      BY <1>2, <2>2 DEF Deliver, provider, IInv, TypeOK
    <3>2. Settled'
      BY <1>2, <3>1 DEF SettledInv, Settled, Tx
    <3>3. Recording'
      BY <1>2, <3>1 DEF SettledInv, Recording, Tx, Kind
    <3>4. RecordedIsApplied'
      BY <1>2, <3>1 DEF SettledInv, RecordedIsApplied
    <3> QED
      BY <3>2, <3>3, <3>4 DEF SettledInv
  <2>3. CASE Crash
    <3>1. crashes' # 0
      BY <1>2, <2>3, FacilitatorAssumption DEF Crash, IInv, TypeOK
    <3> QED
      BY <3>1 DEF SettledInv, Settled, Recording, RecordedIsApplied
  <2>4. CASE UNCHANGED vars
    BY <1>2, <2>4 DEF vars, SettledInv, Settled, Recording, RecordedIsApplied, Tx, Kind
  <2> QED
    BY <1>2, <2>1, <2>2, <2>3, <2>4, CallSettled, HandleSettled DEF Next
<1>3. SettledInv => RecordedIsApplied
  BY DEF SettledInv
<1> QED
  BY Invariance, <1>1, <1>2, <1>3, PTL DEF Spec

-----------------------------------------------------------------------------
(* The balance is the transactions applied.                                 *)

AppliedIn(S) == {t \in S : applied[t] = 1}

Credits == AppliedIn(Txs \ Withdrawals)
Debits  == AppliedIn(Withdrawals)

\* Sets of transactions can be counted.
LEMMA TxsFinite ==
  ASSUME NEW S \in SUBSET Txs
  PROVE  IsFiniteSet(S) /\ Cardinality(S) \in Nat
<1>1. IsFiniteSet(S)
  BY FacilitatorAssumption, FS_Subset
<1> QED
  BY <1>1, FS_CardinalityType

\* The balance is the opening balance with every deposit applied added and
\* every withdrawal applied taken away, whatever happens in which order.
THEOREM BalanceCorrect ==
  ASSUME Overlap = FALSE
  PROVE  Spec => []BalanceExplained
<1> DEFINE Sums == bal = Genesis + Cardinality(Credits) - Cardinality(Debits)
<1>1. Init => Sums
  <2> SUFFICES ASSUME Init PROVE Sums
    OBVIOUS
  <2>1. Credits = {} /\ Debits = {}
    BY FacilitatorAssumption DEF Init, Credits, Debits, AppliedIn
  <2>2. Cardinality({}) = 0
    BY FS_EmptySet
  <2>3. bal = Genesis /\ Genesis \in Nat
    BY FacilitatorAssumption DEF Init
  <2> QED
    BY <2>1, <2>2, <2>3
<1>2. ASSUME IInv, Sums, [Next]_vars
      PROVE  Sums'
  <2>1. CASE UNCHANGED <<bal, applied>>
    BY <1>2, <2>1 DEF Credits, Debits, AppliedIn
  <2>2. ASSUME NEW d \in Deliveries, Adjust(d)
        PROVE  Sums'
    <3> DEFINE t == Tx(d)
    <3>1. t \in Txs /\ applied[t] = 0
      BY <1>2, <2>2 DEF Adjust, IInv, TypeOK, DeliveryShape
    <3>2. /\ Credits \in SUBSET Txs /\ Debits \in SUBSET Txs
          /\ t \notin Credits /\ t \notin Debits
      BY <3>1, FacilitatorAssumption DEF Credits, Debits, AppliedIn
    <3>3. /\ IsFiniteSet(Credits) /\ Cardinality(Credits) \in Nat
          /\ IsFiniteSet(Debits) /\ Cardinality(Debits) \in Nat
      BY <3>2, TxsFinite
    <3>4. CASE t \in Withdrawals /\ bal # 0
      <4>1. bal' = bal - 1 /\ applied' = [applied EXCEPT ![t] = 1]
        BY <2>2, <3>1, <3>4 DEF Adjust
      <4>2. Credits' = Credits /\ Debits' = Debits \cup {t}
        BY <1>2, <3>1, <3>4, <4>1 DEF Credits, Debits, AppliedIn, IInv, TypeOK
      <4>3. Cardinality(Debits \cup {t}) = Cardinality(Debits) + 1
        BY <3>2, <3>3, FS_AddElement
      <4> QED
        BY <1>2, <3>3, <4>1, <4>2, <4>3, FacilitatorAssumption DEF IInv, TypeOK
    <3>5. CASE t \notin Withdrawals
      <4>1. bal' = bal + 1 /\ applied' = [applied EXCEPT ![t] = 1]
        BY <2>2, <3>1, <3>5 DEF Adjust
      <4>2. Credits' = Credits \cup {t} /\ Debits' = Debits
        BY <1>2, <3>1, <3>5, <4>1, FacilitatorAssumption
           DEF Credits, Debits, AppliedIn, IInv, TypeOK
      <4>3. Cardinality(Credits \cup {t}) = Cardinality(Credits) + 1
        BY <3>2, <3>3, FS_AddElement
      <4> QED
        BY <1>2, <3>3, <4>1, <4>2, <4>3, FacilitatorAssumption DEF IInv, TypeOK
    <3> QED
      BY <2>1, <2>2, <3>4, <3>5 DEF Adjust
  <2>3. CASE ~\E d \in Deliveries : Adjust(d)
    BY <1>2, <2>1, <2>3
       DEF Next, CallStep, Handle, CheckLimit, SavePending, AskProvider, SaveProcessing,
           SaveFailed, Report, Deliver, Check, Find, Save, Record, Crash, vars, webhook
  <2> QED
    BY <2>2, <2>3
<1>3. IInv /\ Sums => BalanceExplained
  <2>1. IInv => \A t \in AppliedIn(Txs) : st[t] = "completed" /\ <<t, "success">> \in reported
    BY DEF IInv, AppliedShape, AppliedIn
  <2> QED
    BY <2>1 DEF BalanceExplained, Credits, Debits, AppliedIn
<1> QED
  BY Invariance, <1>1, <1>2, <1>3, PTL DEF Spec

-----------------------------------------------------------------------------
(* The daily limit.                                                         *)

\* What counts against the limit, or will once its row is saved.
Room(t) == (Today(t) \cup Between(t)) \ loose

Limited == \A t \in Txs : Cardinality(Room(t)) <= Limit

\* Only a check takes room: a row keeps what the check that preceded it took.
LEMMA RoomShrinks ==
  ASSUME Overlap = FALSE, IInv, [Next]_vars,
         ~\E s \in Txs : CheckLimit(s) /\ call'[s] = "checked" /\ s \notin loose',
         NEW t \in Txs
  PROVE  Room(t)' \subseteq Room(t)
<1> DEFINE Counts(s) == st[s] \in {"pending", "processing", "completed"} \/ call[s] = "checked"
<1>1. ASSUME NEW s \in Txs, s \notin loose', Counts(s)'
      PROVE  s \notin loose /\ Counts(s)
  <2>1. CASE UNCHANGED <<st, call>> /\ loose \subseteq loose'
    BY <1>1, <2>1
  <2>2. ASSUME NEW u \in Txs, CallStep(u)
        PROVE  s \notin loose /\ Counts(s)
    <3>1. loose \subseteq loose'
      BY <2>2 DEF CallStep, CheckLimit, SavePending, AskProvider, SaveProcessing, SaveFailed
    <3>2. CASE u # s
      <4>1. st'[s] = st[s] /\ call'[s] = call[s]
        BY <2>2, <3>2 DEF CallStep, CheckLimit, SavePending, AskProvider, SaveProcessing,
           SaveFailed, IInv, TypeOK
      <4> QED
        BY <1>1, <3>1, <4>1
    <3>3. CASE u = s
      BY <1>1, <2>2, <3>1, <3>3
         DEF CallStep, CheckLimit, SavePending, AskProvider, SaveProcessing, SaveFailed,
             IInv, TypeOK, RowShape
    <3> QED
      BY <3>2, <3>3
  <2>3. ASSUME NEW d \in Deliveries, Save(d)
        PROVE  s \notin loose /\ Counts(s)
    <3>1. /\ Tx(d) \in known /\ Tx(d) \in Txs /\ st[Tx(d)] \in {"processing", "failed"}
          /\ UNCHANGED call /\ loose \subseteq loose'
          /\ Kind(d) = "success" /\ st[Tx(d)] = "failed" => Tx(d) \in loose'
          /\ st' = [st EXCEPT ![Tx(d)] = IF Kind(d) = "success" THEN "completed" ELSE "failed"]
      BY <2>3 DEF Save, IInv, TypeOK, RowShape, DeliveryShape
    <3> QED
      BY <1>1, <3>1 DEF IInv, TypeOK
  <2>4. CASE Crash
    BY <1>1, <2>4 DEF Crash, IInv, TypeOK
  <2>5. ASSUME NEW d \in Deliveries, Check(d) \/ Find(d) \/ Adjust(d) \/ Record(d)
        PROVE  s \notin loose /\ Counts(s)
    BY <2>1, <2>5 DEF Check, Find, Adjust, Record
  <2>6. ASSUME NEW u \in Txs, NEW k \in Kinds, Report(u, k)
        PROVE  s \notin loose /\ Counts(s)
    BY <2>1, <2>6 DEF Report
  <2>7. ASSUME NEW d \in Deliveries, NEW e \in reported, Deliver(d, e)
        PROVE  s \notin loose /\ Counts(s)
    BY <2>1, <2>7 DEF Deliver
  <2>8. CASE UNCHANGED vars
    BY <2>1, <2>8 DEF vars
  <2> QED
    BY <2>2, <2>3, <2>4, <2>5, <2>6, <2>7, <2>8 DEF Next, Handle
<1> QED
  BY <1>1 DEF Room, Today, Between

\* A check that finds no other call before its row leaves the type within the limit.
LEMMA CheckTakesRoom ==
  ASSUME IInv, NEW s \in Txs, CheckLimit(s), call'[s] = "checked", s \notin loose',
         NEW t \in Txs, s \in Withdrawals <=> t \in Withdrawals
  PROVE  Cardinality(Room(t)') <= Limit
<1>1. Between(s) = {} /\ UNCHANGED <<st, loose>>
      /\ call' = [call EXCEPT ![s] = "checked"]
      /\ ~(Cardinality(Today(s)) + 1 > Limit)
  BY DEF CheckLimit, IInv, TypeOK
<1>2. Today(t) = Today(s) /\ Between(t) = Between(s)
  BY DEF Today, Between
<1>3. Room(t)' \subseteq Today(s) \cup {s}
  <2> SUFFICES ASSUME NEW r \in Txs, r # s, call'[r] = "checked",
                      r \in Withdrawals <=> t \in Withdrawals
               PROVE  FALSE
    BY <1>1, <1>2 DEF Room, Today, Between
  <2>1. call[r] = "checked"
    BY <1>1 DEF IInv, TypeOK
  <2> QED
    BY <1>1, <2>1 DEF Between
<1>4. /\ Today(s) \in SUBSET Txs /\ Room(t)' \in SUBSET Txs
      /\ Today(s) \cup {s} \in SUBSET Txs
  BY <1>3 DEF Today
<1>5. /\ Cardinality(Today(s)) \in Nat /\ IsFiniteSet(Today(s))
      /\ Cardinality(Room(t)') \in Nat
      /\ IsFiniteSet(Today(s) \cup {s})
  BY <1>4, TxsFinite
<1>6. Cardinality(Today(s) \cup {s}) <= Cardinality(Today(s)) + 1
  BY <1>5, FS_AddElement
<1>7. Cardinality(Room(t)') <= Cardinality(Today(s) \cup {s})
  BY <1>3, <1>5, FS_Subset
<1>8. Cardinality(Today(s) \cup {s}) \in Nat
  BY <1>5, FS_CardinalityType
<1> QED
  BY <1>1, <1>5, <1>6, <1>7, <1>8, FacilitatorAssumption

\* The transactions of a type that no race and no late success lets escape stay
\* within the daily limit, for any number of calls that check it at once.
THEOREM LimitCorrect ==
  ASSUME Overlap = FALSE
  PROVE  Spec => []WithinDailyLimit
<1>1. Init => Limited
  <2> SUFFICES ASSUME Init, NEW t \in Txs PROVE Cardinality(Room(t)) <= Limit
    BY DEF Limited
  <2>1. Room(t) = {}
    BY DEF Init, Room, Today, Between
  <2>2. Cardinality({}) = 0
    BY FS_EmptySet
  <2> QED
    BY <2>1, <2>2, FacilitatorAssumption
<1>2. ASSUME IInv, Limited, [Next]_vars
      PROVE  Limited'
  <2> SUFFICES ASSUME NEW t \in Txs PROVE Cardinality(Room(t)') <= Limit
    BY DEF Limited
  <2>1. /\ Room(t) \in SUBSET Txs /\ IsFiniteSet(Room(t)) /\ Cardinality(Room(t)) \in Nat
        /\ Cardinality(Room(t)) <= Limit
    <3>1. Room(t) \in SUBSET Txs
      BY DEF Room, Today, Between
    <3> QED
      BY <1>2, <3>1, TxsFinite DEF Limited
  <2>2. CASE Room(t)' \subseteq Room(t)
    <3>1. Room(t)' \in SUBSET Txs
      BY <2>1, <2>2
    <3>2. Cardinality(Room(t)') \in Nat
      BY <3>1, TxsFinite
    <3>3. Cardinality(Room(t)') <= Cardinality(Room(t))
      BY <2>1, <2>2, FS_Subset
    <3> QED
      BY <2>1, <3>2, <3>3, FacilitatorAssumption
  <2>3. ASSUME NEW s \in Txs, CheckLimit(s), call'[s] = "checked", s \notin loose'
        PROVE  Cardinality(Room(t)') <= Limit
    <3>1. CASE s \in Withdrawals <=> t \in Withdrawals
      BY <1>2, <2>3, <3>1, CheckTakesRoom
    <3>2. CASE ~(s \in Withdrawals <=> t \in Withdrawals)
      <4>1. /\ UNCHANGED st /\ loose \subseteq loose'
            /\ \A r \in Txs \ {s} : call'[r] = call[r]
        BY <1>2, <2>3 DEF CheckLimit, IInv, TypeOK
      <4>2. Room(t)' \subseteq Room(t)
        BY <3>2, <4>1 DEF Room, Today, Between
      <4> QED
        BY <2>2, <4>2
    <3> QED
      BY <3>1, <3>2
  <2> QED
    BY <1>2, <2>2, <2>3, RoomShrinks
<1>3. IInv /\ Limited => WithinDailyLimit
  <2> SUFFICES ASSUME Limited, NEW t \in Txs PROVE Cardinality(Today(t) \ loose) <= Limit
    BY DEF WithinDailyLimit
  <2>1. Room(t) \in SUBSET Txs /\ Today(t) \ loose \subseteq Room(t)
    BY DEF Room, Today, Between
  <2>2. /\ IsFiniteSet(Room(t)) /\ Cardinality(Room(t)) \in Nat
        /\ Cardinality(Today(t) \ loose) \in Nat
    BY <2>1, TxsFinite
  <2>3. Cardinality(Today(t) \ loose) <= Cardinality(Room(t)) /\ Cardinality(Room(t)) <= Limit
    BY <2>1, <2>2, FS_Subset DEF Limited
  <2> QED
    BY <2>2, <2>3, FacilitatorAssumption
<1> QED
  BY Invariance, <1>1, <1>2, <1>3, PTL DEF Spec
=============================================================================
