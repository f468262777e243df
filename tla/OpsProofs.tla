------------------------------ MODULE OpsProofs ------------------------------
(***************************************************************************)
(* Reports, their cards and the queue of alerts, for every set of          *)
(* reporters, alerts and jobs, every number of filings and requests, every *)
(* retry limit and every batch size.                                       *)
(***************************************************************************)
EXTENDS OpsAlerts, Reports, LeaseQueueProofs

(* A request that has stored a report has numbered its filing. *)
StoredInv == \A r \in Filers : req[r] = "stored" => filing[r] \in Filings

ReportsInv == ReportsTypeOK /\ StoredInv

(* A click tells only whom it settled, or whom another click settled first. *)
TellInv ==
    /\ ReportersAreTold
    /\ \A c \in Callers : At(c, "tell") =>
          \A r \in call[c].list : call[c].outcome \in had[r] \/ r \in crossed

(* Tokens are of filings there have been; a card is in the hands of the click that spent its token. *)
TokenInv ==
    /\ \A r \in Filers : \A f \in raised[r] : f <= filing[r]
    /\ \A r \in Filers, f \in Filings, a \in Acts : <<r, f, a>> \in spent => f <= filing[r]
    /\ \A c \in Callers : At(c, "idle") \/ At(c, "tell") => call[c].card = {}
    /\ SpentTokensSettle

-----------------------------------------------------------------------------
(* Typing. *)
LEMMA Bounds == MaxFilings \in Nat \ {0} /\ MaxCalls \in Nat /\ MaxMishaps \in Nat
BY ReportsAssumption

Places == {"idle", "act", "list", "settle", "tell"}
Cards == SUBSET (Filers \X Filings)

LEMMA OfCalls ==
    ASSUME NEW x \in CallType
    PROVE  /\ x.at \in Places /\ x.outcome \in Outcomes /\ x.list \in SUBSET Filers /\ x.card \in Cards
           /\ \A p \in Places : [x EXCEPT !.at = p] \in CallType
           /\ \A p \in Places, l \in SUBSET Filers : [x EXCEPT !.at = p, !.list = l] \in CallType
           /\ \A p \in Places : [x EXCEPT !.at = p, !.card = {}] \in CallType
BY DEF CallType, Places, Cards

LEMMA NewCalls ==
    /\ Idle \in CallType
    /\ \A p \in Places, o \in Outcomes, l \in SUBSET Filers, k \in Cards :
          [at |-> p, outcome |-> o, list |-> l, card |-> k] \in CallType
BY DEF Idle, CallType, Places, Outcomes, Cards

LEMMA Counters ==
    /\ calls \in 0..MaxCalls /\ (Call \/ UNCHANGED calls) => calls' \in 0..MaxCalls
    /\ mishaps \in 0..MaxMishaps /\ (Mishap \/ UNCHANGED mishaps) => mishaps' \in 0..MaxMishaps
BY Bounds DEF Call, Mishap

LEMMA ReportsInit == InitReports => ReportsInv
<1> SUFFICES ASSUME InitReports PROVE ReportsInv
  OBVIOUS
<1>1. last \in 0..MaxFilings /\ filing \in [Filers -> 0..last] /\ calls \in 0..MaxCalls /\ mishaps \in 0..MaxMishaps
  BY Bounds DEF InitReports
<1>2. call \in [Callers -> CallType]
  BY NewCalls DEF InitReports
<1>3. QED
  BY <1>1, <1>2 DEF InitReports, ReportsInv, ReportsTypeOK, StoredInv, Outcomes

LEMMA StoreTypes ==
    ASSUME ReportsInv, NEW r \in Filers, Store(r)
    PROVE  ReportsInv'
<1>1. last \in Nat /\ last < MaxFilings /\ last' = last + 1 /\ filing \in [Filers -> 0..last]
  BY Bounds DEF ReportsInv, ReportsTypeOK, Store
<1>2. last' \in 0..MaxFilings /\ last' \in Filings /\ last' \in 0..last'
  BY <1>1, Bounds DEF Filings
<1>3. \A x \in Filers : filing[x] \in 0..last'
  BY <1>1
<1>4. filing' = [filing EXCEPT ![r] = last']
  BY <1>1 DEF Store
<1>5. filing' \in [Filers -> 0..last']
  BY <1>1, <1>2, <1>3, <1>4
<1>6. StoredInv'
  BY <1>1, <1>2, <1>4 DEF Store, ReportsInv, ReportsTypeOK, StoredInv, Filings
<1>7. ReportsTypeOK'
  BY <1>2, <1>5 DEF Store, ReportsInv, ReportsTypeOK, Outcomes, Filings
<1>8. QED
  BY <1>6, <1>7 DEF ReportsInv

LEMMA RaiseTypes ==
    ASSUME ReportsInv, NEW r \in Filers, RaiseReport(r) \/ DropRequest(r)
    PROVE  ReportsInv'
<1>1. mishaps' \in 0..MaxMishaps
  BY Counters DEF ReportsInv, ReportsTypeOK, RaiseReport, DropRequest
<1>2. CASE RaiseReport(r)
  <2>1. filing[r] \in Filings
    BY <1>2 DEF RaiseReport, ReportsInv, StoredInv
  <2>2. raised' \in [Filers -> SUBSET Filings]
    <3>1. PICK cards \in SUBSET {filing[r]} : raised' = [raised EXCEPT ![r] = raised[r] \union cards]
      BY <1>2 DEF RaiseReport
    <3>2. cards \subseteq Filings /\ raised \in [Filers -> SUBSET Filings]
      BY <2>1 DEF ReportsInv, ReportsTypeOK
    <3>3. raised[r] \union cards \in SUBSET Filings
      BY <3>2
    <3>4. QED
      BY <3>1, <3>2, <3>3
  <2>3. QED
    BY <1>2, <2>2 DEF RaiseReport, ReportsInv, ReportsTypeOK, StoredInv, Filings, tellingVars
<1>3. CASE DropRequest(r)
  BY <1>1, <1>3 DEF DropRequest, ReportsInv, ReportsTypeOK, StoredInv, Filings, tellingVars
<1>4. QED
  BY <1>2, <1>3

LEMMA CallTypes ==
    ASSUME ReportsInv, NEW c \in Callers, Answering(c)
    PROVE  ReportsInv'
<1>1. StoredInv'
  BY DEF ReportsInv, StoredInv, Answering, Click, Review, Act, ActOnNothing, ListPending, Settle, Tell, CallDies,
         filingVars, Filings
<1>2. calls' \in 0..MaxCalls /\ mishaps' \in 0..MaxMishaps
  BY Counters DEF ReportsInv, ReportsTypeOK, Answering, Click, Review, Act, ActOnNothing, ListPending, Settle, Tell, CallDies
<1>3. ReportsTypeOK /\ call[c] \in CallType
  BY DEF ReportsInv, ReportsTypeOK
<1>4. /\ call[c].outcome \in Outcomes /\ call[c].list \in SUBSET Filers /\ call[c].card \in Cards
      /\ \A p \in Places : [call[c] EXCEPT !.at = p] \in CallType
      /\ [call[c] EXCEPT !.at = "settle", !.list = Pending] \in CallType
      /\ [call[c] EXCEPT !.at = "tell", !.card = {}] \in CallType
  BY <1>3, OfCalls DEF Pending, Places
<1>5. CASE \E r \in Filers, f \in Filings, a \in Acts : Click(c, r, f, a)
  <2>1. PICK r \in Filers, f \in Filings, a \in Acts : Click(c, r, f, a)
    BY <1>5
  <2>2. [at |-> "act", outcome |-> Outcome(a), list |-> {}, card |-> {<<r, f>>}] \in CallType
    <3>1. Outcome(a) \in Outcomes /\ {<<r, f>>} \in Cards
      BY DEF Outcome, Outcomes, Cards
    <3>2. QED
      BY <3>1, NewCalls DEF Places
  <2>3. spent' \subseteq Filers \X Filings \X Acts
    BY <2>1 DEF Click, ReportsInv, ReportsTypeOK
  <2>4. QED
    BY <1>1, <1>2, <1>3, <2>1, <2>2, <2>3 DEF Click, ReportsInv, ReportsTypeOK, filingVars, tellingVars
<1>6. CASE \E r \in Filers, o \in Outcomes : Review(c, r, o)
  <2>1. PICK r \in Filers, o \in Outcomes : Review(c, r, o)
    BY <1>6
  <2>2. [at |-> "tell", outcome |-> o, list |-> {r}, card |-> {}] \in CallType
    BY NewCalls DEF Places, Cards
  <2>3. QED
    BY <1>1, <1>2, <1>3, <2>1, <2>2 DEF Review, ReportsInv, ReportsTypeOK, filingVars
<1>7. CASE Act(c)
  <2>1. gone' \in BOOLEAN
    BY <1>7 DEF Act
  <2>2. QED
    BY <1>1, <1>2, <1>3, <1>4, <1>7, <2>1 DEF Act, ReportsInv, ReportsTypeOK, filingVars, tellingVars, Places
<1>8. CASE ActOnNothing(c)
  BY <1>1, <1>2, <1>3, <1>4, <1>8, NewCalls DEF ActOnNothing, ReportsInv, ReportsTypeOK, filingVars, tellingVars, Cards
<1>9. CASE ListPending(c)
  BY <1>1, <1>2, <1>3, <1>4, <1>9 DEF ListPending, ReportsInv, ReportsTypeOK, filingVars, tellingVars, Places
<1>10. CASE Settle(c)
  <2>1. /\ report' = [r \in Filers |-> IF r \in Pending THEN call[c].outcome ELSE report[r]]
        /\ had' = [r \in Filers |-> IF r \in Pending THEN had[r] \union {call[c].outcome} ELSE had[r]]
        /\ unheard' = unheard \union (Pending \ call[c].list) /\ crossed' = crossed \union (call[c].list \ Pending)
    BY <1>10 DEF Settle, Settled
  <2>2. /\ report' \in [Filers -> {"none", "pending"} \union Outcomes] /\ had' \in [Filers -> SUBSET Outcomes]
        /\ unheard' \subseteq Filers /\ crossed' \subseteq Filers
    BY <1>3, <1>4, <2>1 DEF ReportsTypeOK, Pending
  <2>3. QED
    BY <1>1, <1>2, <1>3, <1>4, <1>10, <2>2 DEF Settle, ReportsInv, ReportsTypeOK, filingVars
<1>11. CASE Tell(c)
  <2>1. told' \in [Filers -> SUBSET Outcomes]
    BY <1>3, <1>4, <1>11 DEF Tell, Tells, ReportsTypeOK
  <2>2. QED
    BY <1>1, <1>2, <1>3, <1>11, <2>1, NewCalls DEF Tell, ReportsInv, ReportsTypeOK, filingVars
<1>12. CASE CallDies(c)
  <2>1. told' \in [Filers -> SUBSET Outcomes]
    BY <1>3, <1>4, <1>12 DEF CallDies, Tells, ReportsTypeOK
  <2>2. unheard' \subseteq Filers /\ wasted' \subseteq Filers \X Filings
    BY <1>3, <1>4, <1>12 DEF CallDies, ReportsTypeOK, Cards
  <2>3. QED
    BY <1>1, <1>2, <1>3, <1>12, <2>1, <2>2, NewCalls DEF CallDies, ReportsInv, ReportsTypeOK, filingVars
<1>13. QED
  BY <1>5, <1>6, <1>7, <1>8, <1>9, <1>10, <1>11, <1>12 DEF Answering

LEMMA ModerateTypes == ASSUME ReportsInv, Moderate PROVE ReportsInv'
BY DEF Moderate, ReportsInv, ReportsTypeOK, StoredInv, filingVars, tellingVars, Filings

LEMMA RestTypes == ASSUME ReportsInv, UNCHANGED reportVars PROVE ReportsInv'
BY DEF reportVars, ReportsInv, ReportsTypeOK, StoredInv, filingVars, tellingVars, Filings

LEMMA ReportsInvariant == ReportsSpec => []ReportsInv
<1>1. ReportsInv /\ [ReportsNext]_reportVars => ReportsInv'
  BY StoreTypes, RaiseTypes, CallTypes, ModerateTypes, RestTypes DEF ReportsNext, Reporting
<1>2. QED
  BY <1>1, ReportsInit, PTL DEF ReportsSpec

-----------------------------------------------------------------------------
(* Notices. *)
LEMMA TellInit == InitReports => TellInv
BY DEF InitReports, TellInv, ReportersAreTold, At, Idle, Outcomes

(* A request or the job's scan that neither settles nor tells. *)
LEMMA TellSame ==
    ASSUME TellInv, UNCHANGED <<report, told, had, unheard, crossed>>,
           \A x \in Callers : (At(x, "tell") \/ At(x, "tell")') => call'[x] = call[x]
    PROVE  TellInv'
<1>1. \A x \in Callers : At(x, "tell")' => At(x, "tell") /\ call'[x] = call[x]
  BY DEF At
<1>2. \A x \in Callers : At(x, "tell") => At(x, "tell")' /\ call'[x] = call[x]
  BY DEF At
<1>3. ReportersAreTold'
  BY <1>2 DEF TellInv, ReportersAreTold, Outcomes
<1>4. QED
  BY <1>1, <1>3 DEF TellInv

LEMMA TellStore ==
    ASSUME ReportsTypeOK, TellInv, NEW r \in Filers, Store(r)
    PROVE  TellInv'
<1>1. /\ call' = call /\ told' = told /\ had' = had /\ crossed' = crossed /\ unheard' = unheard \ {r}
      /\ report'[r] = "pending" /\ \A x \in Filers : x # r => report'[x] = report[x]
  BY DEF Store, ReportsTypeOK
<1>2. "pending" \notin Outcomes /\ Outcomes' = Outcomes
  BY DEF Outcomes
<1>3. QED
  BY <1>1, <1>2 DEF TellInv, ReportersAreTold, At

LEMMA TellSettle ==
    ASSUME ReportsTypeOK, TellInv, NEW c \in Callers, Settle(c)
    PROVE  TellInv'
<1>1. PICK S, o : S = Pending /\ o = call[c].outcome
  OBVIOUS
<1>2. /\ \A r \in Filers : report'[r] = IF r \in S THEN o ELSE report[r]
      /\ \A r \in Filers : had'[r] = IF r \in S THEN had[r] \union {o} ELSE had[r]
      /\ unheard' = unheard \union (S \ call[c].list) /\ crossed' = crossed \union (call[c].list \ S)
      /\ told' = told
  BY <1>1 DEF Settle, Settled
<1>3. call[c] \in CallType /\ call' = [call EXCEPT ![c] = [call[c] EXCEPT !.at = "tell", !.card = {}]] /\ call \in [Callers -> CallType]
  BY DEF Settle, ReportsTypeOK
<1>4. call'[c].at = "tell" /\ call'[c].list = call[c].list /\ call'[c].outcome = o /\ call[c].list \subseteq Filers
  BY <1>1, <1>3 DEF CallType
<1>5. call[c].at = "settle" /\ \A x \in Callers : x # c => call'[x] = call[x]
  BY <1>3 DEF Settle, At
<1>6. ASSUME NEW r \in Filers, report'[r] \in Outcomes
      PROVE  \/ report'[r] \in told'[r] \/ r \in unheard'
             \/ \E x \in Callers : At(x, "tell")' /\ r \in call'[x].list /\ call'[x].outcome = report'[r]
  <2>1. CASE r \in S
    BY <1>2, <1>4, <2>1 DEF At
  <2>2. CASE r \notin S
    <3>1. report'[r] = report[r]
      BY <1>2, <2>2
    <3>2. \A x \in Callers : At(x, "tell") => At(x, "tell")' /\ call'[x] = call[x]
      BY <1>5 DEF At
    <3>3. QED
      BY <1>2, <1>6, <3>1, <3>2 DEF TellInv, ReportersAreTold
  <2>3. QED
    BY <2>1, <2>2
<1>7. ASSUME NEW x \in Callers, At(x, "tell")', NEW r \in call'[x].list
      PROVE  call'[x].outcome \in had'[r] \/ r \in crossed'
  <2>1. CASE x = c
    BY <1>2, <1>4, <1>7, <2>1
  <2>2. CASE x # c
    <3>1. call'[x] = call[x] /\ At(x, "tell") /\ call[x] \in CallType
      BY <1>3, <1>5, <1>7, <2>2 DEF At
    <3>2. r \in Filers /\ (call[x].outcome \in had[r] \/ r \in crossed)
      BY <1>7, <3>1 DEF TellInv, CallType
    <3>3. QED
      BY <1>2, <3>1, <3>2
  <2>3. QED
    BY <2>1, <2>2
<1>8. \A r \in Filers : told'[r] \subseteq had'[r] \/ r \in crossed'
  BY <1>2 DEF TellInv, ReportersAreTold
<1>9. Outcomes' = Outcomes
  BY DEF Outcomes
<1>10. QED
  BY <1>6, <1>7, <1>8, <1>9 DEF TellInv, ReportersAreTold

(* A request ends that has told S: with the rest of its list it has nothing to say of r. *)
LEMMA TellEnds ==
    ASSUME ReportsTypeOK, TellInv, NEW c \in Callers, NEW S \in SUBSET call[c].list,
           At(c, "tell") \/ S = {}, Tells(c, S), call' = [call EXCEPT ![c] = Idle],
           UNCHANGED <<report, had, crossed>>,
           \A r \in Filers : r \in unheard => r \in unheard' \/ (r \in S /\ report[r] = call[c].outcome),
           \A r \in Filers : At(c, "tell") /\ r \in call[c].list => r \in S \/ r \in unheard'
    PROVE  TellInv'
<1>1. PICK o : o = call[c].outcome
  OBVIOUS
<1>2. \A r \in Filers : told'[r] = IF r \in S THEN told[r] \union {o} ELSE told[r]
  BY <1>1 DEF Tells
<1>3. /\ call'[c].at = "idle" /\ \A x \in Callers : x # c => call'[x] = call[x]
  BY DEF ReportsTypeOK, Idle
<1>4. ASSUME NEW r \in Filers, report[r] \in Outcomes
      PROVE  \/ report[r] \in told'[r] \/ r \in unheard'
             \/ \E x \in Callers : At(x, "tell")' /\ r \in call'[x].list /\ call'[x].outcome = report[r]
  <2>1. CASE report[r] \in told[r] \/ r \in unheard
    BY <1>1, <1>2, <2>1
  <2>2. CASE \E x \in Callers : At(x, "tell") /\ r \in call[x].list /\ call[x].outcome = report[r]
    <3>1. PICK x \in Callers : At(x, "tell") /\ r \in call[x].list /\ call[x].outcome = report[r]
      BY <2>2
    <3>2. CASE x = c
      BY <1>1, <1>2, <3>1, <3>2
    <3>3. CASE x # c
      BY <1>3, <3>1, <3>3 DEF At
    <3>4. QED
      BY <3>2, <3>3
  <2>3. QED
    BY <1>4, <2>1, <2>2 DEF TellInv, ReportersAreTold
<1>5. ASSUME NEW r \in Filers PROVE told'[r] \subseteq had[r] \/ r \in crossed
  <2>1. r \in S => o \in had[r] \/ r \in crossed
    BY <1>1 DEF TellInv
  <2>2. told[r] \subseteq had[r] \/ r \in crossed
    BY DEF TellInv, ReportersAreTold
  <2>3. QED
    BY <1>2, <2>1, <2>2
<1>6. \A x \in Callers : At(x, "tell")' => At(x, "tell") /\ call'[x] = call[x]
  BY <1>3 DEF At
<1>7. Outcomes' = Outcomes
  BY DEF Outcomes
<1>8. ReportersAreTold'
  BY <1>4, <1>5, <1>7 DEF ReportersAreTold
<1>9. QED
  BY <1>6, <1>8 DEF TellInv

LEMMA TellReview ==
    ASSUME ReportsTypeOK, TellInv, NEW c \in Callers, NEW r \in Filers, NEW o \in Outcomes, Review(c, r, o)
    PROVE  TellInv'
<1>1. /\ call'[c] = [at |-> "tell", outcome |-> o, list |-> {r}, card |-> {}] /\ call[c].at = "idle"
      /\ \A x \in Callers : x # c => call'[x] = call[x]
      /\ report'[r] = o /\ (\A x \in Filers : x # r => report'[x] = report[x])
      /\ had'[r] = had[r] \union {o} /\ (\A x \in Filers : x # r => had'[x] = had[x])
      /\ told' = told /\ unheard' = unheard /\ crossed' = crossed
  BY DEF Review, At, ReportsTypeOK
<1>2. \A x \in Callers : At(x, "tell") => At(x, "tell")' /\ call'[x] = call[x]
  BY <1>1 DEF At
<1>3. call'[c].at = "tell" /\ call'[c].outcome = o /\ call'[c].list = {r}
  BY <1>1
<1>4. ASSUME NEW y \in Filers
      PROVE  /\ report'[y] \in Outcomes =>
                    \/ report'[y] \in told'[y] \/ y \in unheard'
                    \/ \E x \in Callers : At(x, "tell")' /\ y \in call'[x].list /\ call'[x].outcome = report'[y]
             /\ told'[y] \subseteq had'[y] \/ y \in crossed'
  <2>1. told'[y] \subseteq had'[y] \/ y \in crossed'
    BY <1>1 DEF TellInv, ReportersAreTold
  <2>2. CASE y = r
    BY <1>1, <1>3, <2>1, <2>2 DEF At
  <2>3. CASE y # r
    BY <1>1, <1>2, <2>1, <2>3 DEF TellInv, ReportersAreTold
  <2>4. QED
    BY <2>2, <2>3
<1>5. ASSUME NEW x \in Callers, At(x, "tell")', NEW y \in call'[x].list
      PROVE  call'[x].outcome \in had'[y] \/ y \in crossed'
  <2>1. CASE x = c
    BY <1>1, <1>3, <1>5, <2>1
  <2>2. CASE x # c
    <3>1. call'[x] = call[x] /\ At(x, "tell") /\ call[x] \in CallType
      BY <1>1, <1>5, <2>2 DEF At, ReportsTypeOK
    <3>2. y \in Filers /\ (call[x].outcome \in had[y] \/ y \in crossed)
      BY <1>5, <3>1 DEF TellInv, CallType
    <3>3. QED
      BY <1>1, <3>1, <3>2
  <2>3. QED
    BY <2>1, <2>2
<1>6. Outcomes' = Outcomes
  BY DEF Outcomes
<1>7. QED
  BY <1>4, <1>5, <1>6 DEF TellInv, ReportersAreTold

LEMMA TellCalls ==
    ASSUME ReportsTypeOK, TellInv, NEW c \in Callers, Answering(c)
    PROVE  TellInv'
<1>1. call \in [Callers -> CallType] /\ call[c] \in CallType
  BY DEF ReportsTypeOK
<1>2. CASE \E r \in Filers, f \in Filings, a \in Acts : Click(c, r, f, a)
  <2>1. PICK r \in Filers, f \in Filings, a \in Acts : Click(c, r, f, a)
    BY <1>2
  <2>2. call[c].at = "idle" /\ call'[c].at = "act" /\ \A x \in Callers : x # c => call'[x] = call[x]
    BY <1>1, <2>1 DEF Click, At
  <2>3. \A x \in Callers : (At(x, "tell") \/ At(x, "tell")') => call'[x] = call[x]
    BY <2>2 DEF At
  <2>4. QED
    BY <2>1, <2>3, TellSame DEF Click, tellingVars
<1>3. CASE Act(c) \/ ActOnNothing(c) \/ ListPending(c)
  <2>1. call[c].at # "tell" /\ call'[c].at # "tell" /\ \A x \in Callers : x # c => call'[x] = call[x]
    BY <1>1, <1>3 DEF Act, ActOnNothing, ListPending, At, Idle, CallType
  <2>2. \A x \in Callers : (At(x, "tell") \/ At(x, "tell")') => call'[x] = call[x]
    BY <2>1 DEF At
  <2>3. QED
    BY <1>3, <2>2, TellSame DEF Act, ActOnNothing, ListPending, tellingVars
<1>4. CASE Tell(c)
  <2>1. \A r \in Filers : r \in unheard => r \in unheard' \/ (r \in call[c].list /\ report[r] = call[c].outcome)
    BY <1>4 DEF Tell
  <2>2. QED
    BY <1>4, <2>1, TellEnds DEF Tell
<1>5. CASE CallDies(c)
  <2>1. PICK out \in SUBSET call[c].list :
           /\ At(c, "tell") \/ out = {}
           /\ Tells(c, out)
           /\ unheard' = unheard \union IF At(c, "tell") THEN call[c].list \ out ELSE {}
    BY <1>5 DEF CallDies
  <2>2. QED
    BY <1>5, <2>1, TellEnds DEF CallDies
<1>6. QED
  BY <1>2, <1>3, <1>4, <1>5, TellSettle, TellReview DEF Answering

(* Who filed a report hears of what came of it, and of nothing else, but for clicks that cross a
   filing or each other, or die (markReportsHandledByTarget, enqueueReportHandledNotifications). *)
THEOREM ReportersHear == ReportsSpec => []ReportersAreTold
<1>1. ReportsInv /\ TellInv /\ [ReportsNext]_reportVars => TellInv'
  <2> SUFFICES ASSUME ReportsTypeOK, TellInv, [ReportsNext]_reportVars PROVE TellInv'
    BY DEF ReportsInv
  <2>1. CASE UNCHANGED reportVars
    BY <2>1, TellSame DEF reportVars, tellingVars
  <2>2. ASSUME NEW r \in Filers, RaiseReport(r) \/ DropRequest(r) PROVE TellInv'
    BY <2>2, TellSame DEF RaiseReport, DropRequest, tellingVars
  <2>3. CASE Moderate
    BY <2>3, TellSame DEF Moderate, tellingVars
  <2>4. QED
    BY <2>1, <2>2, <2>3, TellStore, TellCalls DEF ReportsNext, Reporting
<1>2. ReportsSpec => []TellInv
  BY <1>1, TellInit, ReportsInvariant, PTL DEF ReportsSpec
<1>3. TellInv => ReportersAreTold
  BY DEF TellInv
<1>4. QED
  BY <1>2, <1>3, PTL

-----------------------------------------------------------------------------
(* Tokens. *)
Spent(r, f, a) ==
    \/ report[r] # "pending" \/ filing[r] > f
    \/ <<r, f>> \in wasted
    \/ \E c \in Callers : <<r, f>> \in call[c].card

LEMMA TokenInit == InitReports => TokenInv
BY DEF InitReports, TokenInv, SpentTokensSettle, At, Idle

(* A step that files nothing and spends nothing new: what settles a token goes on doing so. *)
LEMMA TokenSame ==
    ASSUME TokenInv, UNCHANGED <<filing, raised, spent>>,
           \A x \in Callers : At(x, "idle")' \/ At(x, "tell")' => call'[x].card = {},
           \A r \in Filers : report'[r] = "pending" => report[r] = "pending",
           \A x \in Callers : \A k \in call[x].card :
               \/ k \in wasted' \/ k \in call'[x].card
               \/ \A r \in Filers : report'[r] # "pending",
           wasted \subseteq wasted'
    PROVE  TokenInv'
<1>1. \A r \in Filers, f \in Filings, a \in Acts : <<r, f, a>> \in spent => Spent(r, f, a)
  BY DEF TokenInv, SpentTokensSettle, Spent
<1>2. \A r \in Filers, f \in Filings, a \in Acts : Spent(r, f, a) => Spent(r, f, a)'
  BY DEF Spent
<1>3. SpentTokensSettle'
  BY <1>1, <1>2 DEF SpentTokensSettle, Spent, Filings, Acts
<1>4. QED
  BY <1>3 DEF TokenInv, Filings, Acts

LEMMA TokenStore ==
    ASSUME ReportsTypeOK, TokenInv, NEW r \in Filers, Store(r)
    PROVE  TokenInv'
<1>1. /\ last \in Nat /\ filing \in [Filers -> 0..last] /\ filing' = [filing EXCEPT ![r] = last + 1]
      /\ raised' = raised /\ spent' = spent /\ call' = call /\ wasted' = wasted
      /\ \A x \in Filers : x # r => report'[x] = report[x]
  BY Bounds DEF Store, ReportsTypeOK
<1>2. /\ \A x \in Filers : x # r => filing'[x] = filing[x]
      /\ filing'[r] = last + 1 /\ filing[r] \in Nat /\ filing[r] <= last
      /\ \A f \in Filings : f \in Nat
  BY <1>1, Bounds DEF Filings
<1>3. raised[r] \subseteq Filings
  BY DEF ReportsTypeOK
<1>4. ASSUME NEW f \in Nat, f <= filing[r] PROVE f <= last + 1 /\ last + 1 > f
  BY <1>1, <1>2, <1>4
<1>5. \A x \in Filers : \A f \in raised[x] : f <= filing'[x]
  <2>1. \A f \in raised[r] : f <= filing'[r]
    BY <1>2, <1>3, <1>4 DEF TokenInv
  <2>2. QED
    BY <1>2, <2>1 DEF TokenInv
<1>6. ASSUME NEW x \in Filers, NEW f \in Filings, NEW a \in Acts, <<x, f, a>> \in spent
      PROVE  f <= filing'[x] /\ Spent(x, f, a)'
  <2>1. f <= filing[x] /\ Spent(x, f, a) /\ f \in Nat
    BY <1>2, <1>6 DEF TokenInv, SpentTokensSettle, Spent
  <2>2. CASE x = r
    BY <1>2, <1>4, <2>1, <2>2 DEF Spent
  <2>3. CASE x # r
    BY <1>1, <1>2, <2>1, <2>3 DEF Spent
  <2>4. QED
    BY <2>2, <2>3
<1>7. SpentTokensSettle'
  BY <1>1, <1>6 DEF SpentTokensSettle, Spent, Filings, Acts
<1>8. \A c \in Callers : (At(c, "idle") \/ At(c, "tell"))' => call'[c].card = {}
  BY <1>1 DEF TokenInv, At
<1>9. QED
  BY <1>1, <1>5, <1>6, <1>7, <1>8 DEF TokenInv, Filings, Acts

LEMMA TokenRaise ==
    ASSUME ReportsTypeOK, StoredInv, TokenInv, NEW r \in Filers, RaiseReport(r)
    PROVE  TokenInv'
<1>1. PICK cards \in SUBSET {filing[r]} : raised' = [raised EXCEPT ![r] = raised[r] \union cards]
  BY DEF RaiseReport
<1>2. UNCHANGED <<report, filing, spent, call, wasted>>
  BY DEF RaiseReport
<1>3. filing[r] <= filing[r]
  BY Bounds DEF ReportsTypeOK
<1>4. \A x \in Filers : \A f \in raised'[x] : f <= filing'[x]
  BY <1>1, <1>2, <1>3 DEF TokenInv, ReportsTypeOK
<1>5. SpentTokensSettle'
  BY <1>2 DEF TokenInv, SpentTokensSettle, Filings, Acts
<1>6. QED
  BY <1>2, <1>4, <1>5 DEF TokenInv, At, Filings, Acts

LEMMA TokenClick ==
    ASSUME ReportsTypeOK, TokenInv, NEW c \in Callers, NEW r \in Filers, NEW f \in Filings, NEW a \in Acts, Click(c, r, f, a)
    PROVE  TokenInv'
<1>1. /\ f \in raised[r] /\ spent' = spent \union {<<r, f, a>>} /\ call[c].at = "idle"
      /\ UNCHANGED <<report, filing, raised, wasted>>
      /\ call'[c] = [at |-> "act", outcome |-> Outcome(a), list |-> {}, card |-> {<<r, f>>}]
      /\ \A x \in Callers : x # c => call'[x] = call[x]
  BY DEF Click, At, ReportsTypeOK, filingVars
<1>2. call'[c].at = "act" /\ call'[c].card = {<<r, f>>} /\ call[c].card = {}
  BY <1>1 DEF TokenInv, At
<1>3. ASSUME NEW x \in Filers, NEW g \in Filings, NEW b \in Acts, <<x, g, b>> \in spent'
      PROVE  g <= filing[x] /\ Spent(x, g, b)'
  <2>1. CASE <<x, g, b>> \in spent
    <3>1. g <= filing[x] /\ Spent(x, g, b)
      BY <2>1 DEF TokenInv, SpentTokensSettle, Spent
    <3>2. QED
      BY <1>1, <1>2, <3>1 DEF Spent
  <2>2. CASE <<x, g, b>> \notin spent
    <3>1. x = r /\ g = f
      BY <1>1, <1>3, <2>2
    <3>2. g <= filing[x]
      BY <1>1, <3>1 DEF TokenInv
    <3>3. QED
      BY <1>2, <3>1, <3>2 DEF Spent
  <2>3. QED
    BY <2>1, <2>2
<1>4. SpentTokensSettle'
  BY <1>3 DEF SpentTokensSettle, Spent, Filings, Acts
<1>5. \A x \in Callers : (At(x, "idle") \/ At(x, "tell"))' => call'[x].card = {}
  BY <1>1, <1>2 DEF TokenInv, At
<1>6. QED
  BY <1>1, <1>3, <1>4, <1>5 DEF TokenInv, Filings, Acts

LEMMA TokenCalls ==
    ASSUME ReportsTypeOK, TokenInv, NEW c \in Callers, Answering(c)
    PROVE  TokenInv'
<1>1. call \in [Callers -> CallType] /\ call[c] \in CallType
  BY DEF ReportsTypeOK
<1>2. CASE Act(c) \/ ListPending(c)
  <2>1. /\ call[c].at \notin {"idle", "tell"} /\ call'[c].at \notin {"idle", "tell"} /\ call'[c].card = call[c].card
        /\ \A x \in Callers : x # c => call'[x] = call[x]
    BY <1>1, <1>2 DEF Act, ListPending, At, CallType
  <2>2. \A x \in Callers : At(x, "idle")' \/ At(x, "tell")' => call'[x].card = {}
    BY <2>1 DEF At, TokenInv
  <2>3. \A x \in Callers : call'[x].card = call[x].card
    BY <2>1
  <2>4. QED
    BY <1>2, <2>2, <2>3, TokenSame DEF Act, ListPending, filingVars
<1>3. CASE Settle(c)
  <2>1. call'[c].card = {} /\ \A x \in Callers : x # c => call'[x] = call[x]
    BY <1>1, <1>3 DEF Settle, CallType
  <2>2. \A x \in Callers : At(x, "idle")' \/ At(x, "tell")' => call'[x].card = {}
    BY <2>1 DEF At, TokenInv
  <2>3. "pending" \notin Outcomes /\ call[c].outcome \in Outcomes
    BY <1>1, OfCalls DEF Outcomes
  <2>4. \A r \in Filers : report'[r] # "pending"
    BY <1>3, <2>3 DEF Settle, Settled, Pending
  <2>5. QED
    BY <1>3, <2>2, <2>4, TokenSame DEF Settle, filingVars
<1>4. CASE \E r \in Filers, o \in Outcomes : Review(c, r, o)
  <2>1. PICK r \in Filers, o \in Outcomes : Review(c, r, o)
    BY <1>4
  <2>2. call[c].card = {} /\ call'[c].card = {} /\ \A x \in Callers : x # c => call'[x] = call[x]
    BY <1>1, <2>1 DEF Review, TokenInv
  <2>3. \A x \in Callers : At(x, "idle")' \/ At(x, "tell")' => call'[x].card = {}
    BY <2>2 DEF At, TokenInv
  <2>4. \A x \in Callers : call'[x].card = call[x].card
    BY <2>2
  <2>5. \A x \in Filers : report'[x] = "pending" => report[x] = "pending"
    BY <2>1 DEF Review, ReportsTypeOK, Outcomes
  <2>6. QED
    BY <2>1, <2>3, <2>4, <2>5, TokenSame DEF Review, filingVars
<1>5. CASE ActOnNothing(c) \/ CallDies(c) \/ Tell(c)
  <2>1. call'[c] = Idle /\ \A x \in Callers : x # c => call'[x] = call[x]
    BY <1>1, <1>5 DEF ActOnNothing, CallDies, Tell
  <2>2. \A x \in Callers : At(x, "idle")' \/ At(x, "tell")' => call'[x].card = {}
    BY <2>1 DEF At, TokenInv, Idle
  <2>3. call[c].card \subseteq wasted'
    BY <1>5 DEF ActOnNothing, CallDies, Tell, TokenInv
  <2>4. \A x \in Callers : \A k \in call[x].card : k \in wasted' \/ k \in call'[x].card
    BY <2>1, <2>3
  <2>5. report' = report /\ wasted \subseteq wasted' /\ UNCHANGED <<filing, raised, spent>>
    BY <1>5 DEF ActOnNothing, CallDies, Tell, filingVars
  <2>6. QED
    BY <2>2, <2>4, <2>5, TokenSame
<1>6. QED
  BY <1>2, <1>3, <1>4, <1>5, TokenClick DEF Answering

(* UseOpsActionToken spends the token first: no filing is left pending by a click that spent its
   token, unless the click died or found its post deleted. *)
THEOREM TokensSettle == ReportsSpec => []SpentTokensSettle
<1>1. ReportsInv /\ TokenInv /\ [ReportsNext]_reportVars => TokenInv'
  <2> SUFFICES ASSUME ReportsTypeOK, StoredInv, TokenInv, [ReportsNext]_reportVars PROVE TokenInv'
    BY DEF ReportsInv
  <2>1. \A x \in Callers : At(x, "idle") \/ At(x, "tell") => call[x].card = {}
    BY DEF TokenInv
  <2>2. CASE UNCHANGED <<report, filing, raised, spent, call, wasted>>
    BY <2>1, <2>2, TokenSame DEF At
  <2>3. CASE UNCHANGED reportVars
    BY <2>2, <2>3 DEF reportVars, filingVars
  <2>4. ASSUME NEW r \in Filers, DropRequest(r) PROVE TokenInv'
    BY <2>2, <2>4 DEF DropRequest
  <2>5. CASE Moderate
    BY <2>2, <2>5 DEF Moderate, filingVars
  <2>6. QED
    BY <2>3, <2>4, <2>5, TokenStore, TokenRaise, TokenCalls DEF ReportsNext, Reporting
<1>2. ReportsSpec => []TokenInv
  BY <1>1, TokenInit, ReportsInvariant, PTL DEF ReportsSpec
<1>3. TokenInv => SpentTokensSettle
  BY DEF TokenInv
<1>4. QED
  BY <1>2, <1>3, PTL

-----------------------------------------------------------------------------
(* Alerts: what the proofs need to know of the values. *)
AlertsShape ==
    /\ state \in [Items -> States]
    /\ retry \in [Items -> Nat]
    /\ claim \in [Workers -> [Items -> Nat \union {NotHeld}]]
    /\ content \in [Items -> Nat]
    /\ feishuStatus \in [Items -> FeishuStatuses]
    /\ seen \in [Workers -> [Items -> Nat]]
    /\ stage \in [Workers -> {"send", "sent", "skipped", "failed"}]
    /\ sent \in [Items -> SUBSET Nat]
    /\ tried \in [Items -> SUBSET Nat]
    /\ failures \in [Items -> Nat]
    /\ raced \in [Items -> BOOLEAN]

(* A job has read the payload of now, unless the alert was raised again under it; what it
   says it has sent is in the group. *)
Fresh(w, i) == Holds(w, i) => raced[i] \/ seen[w][i] = content[i]
Delivered(w) == Held(w) # {} /\ stage[w] = "sent" => seen[w][Cur(w)] \in sent[Cur(w)]

(* The retry count of a row, and the one a job carries, were paid for by failures. *)
Paid(w, i) == Holds(w, i) => claim[w][i] <= failures[i]

SentInv == (\A w \in Workers : Delivered(w) /\ \A i \in Items : Fresh(w, i)) /\ LatestIsSent

PaidInv == (\A i \in Items : retry[i] <= failures[i]) /\ \A w \in Workers, i \in Items : Paid(w, i)

AlertsInv == AlertsShape /\ SentInv /\ PaidInv /\ GivenUpWasTried

LEMMA AlertsInit == InitAlerts => AlertsInv
<1> SUFFICES ASSUME InitAlerts PROVE AlertsInv
  OBVIOUS
<1>1. AlertsShape
  BY DEF InitAlerts, InitQueue, AlertsShape, States, FeishuStatuses, NotHeld
<1>2. \A w \in Workers, i \in Items : ~Holds(w, i)
  BY DEF InitAlerts, InitQueue, Holds
<1>3. \A w \in Workers : stage[w] = "send"
  BY DEF InitAlerts
<1>4. SentInv
  BY <1>2, <1>3 DEF InitAlerts, InitQueue, SentInv, Fresh, Delivered, LatestIsSent
<1>5. PaidInv /\ GivenUpWasTried
  BY <1>2 DEF InitAlerts, InitQueue, PaidInv, Paid, GivenUpWasTried
<1>6. QED
  BY <1>1, <1>4, <1>5 DEF AlertsInv

(* A job whose claim is left alone is at work on the row it was at work on. *)
LEMMA LeftAlone ==
    ASSUME NEW u, claim'[u] = claim[u]
    PROVE  Held(u)' = Held(u) /\ Cur(u)' = Cur(u) /\ \A i : Holds(u, i)' <=> Holds(u, i)
<1>1. \A i : Holds(u, i)' <=> Holds(u, i)
  BY DEF Holds
<1>2. Held(u)' = Held(u)
  BY <1>1 DEF Held
<1>3. QED
  BY <1>1, <1>2, SameBatch

(* Steps that leave alerts and claims alone. *)
LEMMA AlertsRest ==
    ASSUME AlertsInv, UNCHANGED <<state, retry, claim, content, feishuStatus, seen, stage, sent, tried, failures, raced>>
    PROVE  AlertsInv'
<1>1. \A u \in Workers : Held(u)' = Held(u) /\ Cur(u)' = Cur(u) /\ \A i : Holds(u, i)' <=> Holds(u, i)
  BY LeftAlone
<1>2. SentInv'
  BY <1>1 DEF AlertsInv, SentInv, Fresh, Delivered, LatestIsSent
<1>3. PaidInv' /\ GivenUpWasTried'
  BY <1>1 DEF AlertsInv, PaidInv, Paid, GivenUpWasTried
<1>4. QED
  BY <1>2, <1>3 DEF AlertsInv, AlertsShape, States, FeishuStatuses

LEMMA AlertsCreate ==
    ASSUME AlertsInv, NEW i \in Items, CreateOpsAlert(i)
    PROVE  AlertsInv'
<1>1. AlertsShape'
  BY DEF AlertsInv, AlertsShape, CreateOpsAlert, States, FeishuStatuses
<1>2. \A u \in Workers : Held(u)' = Held(u) /\ Cur(u)' = Cur(u) /\ \A x : Holds(u, x)' <=> Holds(u, x)
  BY LeftAlone DEF CreateOpsAlert
<1>3. /\ state'[i] = "pending" /\ UNCHANGED <<retry, claim, seen, stage, sent, tried, failures>>
      /\ \A x \in Items : x # i => /\ state'[x] = state[x] /\ content'[x] = content[x] /\ raced'[x] = raced[x]
                                   /\ feishuStatus'[x] = feishuStatus[x]
  BY DEF CreateOpsAlert, AlertsInv, AlertsShape
<1>4. ASSUME NEW w \in Workers, Holds(w, i) PROVE raced'[i]
  BY <1>4 DEF CreateOpsAlert, AlertsInv, AlertsShape
<1>5. ASSUME NEW w \in Workers, NEW x \in Items PROVE Fresh(w, x)'
  <2>1. CASE x = i
    BY <1>2, <1>4, <2>1 DEF Fresh
  <2>2. CASE x # i
    BY <1>2, <1>3, <2>2 DEF Fresh, AlertsInv, SentInv
  <2>3. QED
    BY <2>1, <2>2
<1>6. \A w \in Workers : Delivered(w)'
  BY <1>2, <1>3 DEF AlertsInv, SentInv, Delivered
<1>7. LatestIsSent'
  BY <1>3 DEF AlertsInv, SentInv, LatestIsSent
<1>8. PaidInv'
  BY <1>2, <1>3 DEF AlertsInv, PaidInv, Paid
<1>9. GivenUpWasTried'
  BY <1>3 DEF AlertsInv, GivenUpWasTried
<1>10. QED
  BY <1>1, <1>5, <1>6, <1>7, <1>8, <1>9 DEF AlertsInv, SentInv

LEMMA AlertsClaim ==
    ASSUME AlertsInv, NEW w \in Workers, NEW S \in SUBSET Items, ClaimAlerts(w, S)
    PROVE  AlertsInv'
<1>1. /\ claim' = [claim EXCEPT ![w] = [i \in Items |-> IF i \in S THEN retry[i] ELSE NotHeld]]
      /\ state' = [i \in Items |-> IF i \in S THEN "processing" ELSE state[i]]
      /\ seen' = [seen EXCEPT ![w] = [i \in Items |-> IF i \in S THEN content[i] ELSE 0]]
      /\ stage' = [stage EXCEPT ![w] = "send"]
      /\ UNCHANGED <<retry, content, feishuStatus, sent, tried, failures, raced>>
  BY DEF ClaimAlerts, ClaimRows
<1>2. AlertsShape'
  BY <1>1 DEF AlertsInv, AlertsShape, States, FeishuStatuses, NotHeld
<1>3. ASSUME NEW u \in Workers, u # w
      PROVE  /\ Held(u)' = Held(u) /\ Cur(u)' = Cur(u) /\ (\A x : Holds(u, x)' <=> Holds(u, x))
             /\ seen'[u] = seen[u] /\ stage'[u] = stage[u] /\ claim'[u] = claim[u]
  <2>1. claim'[u] = claim[u]
    BY <1>1, <1>3 DEF AlertsInv, AlertsShape
  <2>2. seen'[u] = seen[u] /\ stage'[u] = stage[u]
    BY <1>1, <1>3 DEF AlertsInv, AlertsShape
  <2>3. QED
    BY <2>1, <2>2, LeftAlone
<1>4. ASSUME NEW i \in Items, Holds(w, i)' PROVE i \in S /\ claim'[w][i] = retry[i] /\ seen'[w][i] = content[i]
  BY <1>1, <1>4 DEF AlertsInv, AlertsShape, Holds
<1>5. stage'[w] = "send"
  BY <1>1 DEF AlertsInv, AlertsShape
<1>6. ASSUME NEW u \in Workers PROVE Delivered(u)' /\ \A i \in Items : Fresh(u, i)' /\ Paid(u, i)'
  <2>1. CASE u = w
    BY <1>1, <1>4, <1>5, <2>1 DEF Delivered, Fresh, Paid, AlertsInv, PaidInv
  <2>2. CASE u # w
    BY <1>1, <1>3, <2>2 DEF Delivered, Fresh, Paid, AlertsInv, SentInv, PaidInv
  <2>3. QED
    BY <2>1, <2>2
<1>7. LatestIsSent' /\ GivenUpWasTried'
  BY <1>1 DEF AlertsInv, SentInv, LatestIsSent, GivenUpWasTried
<1>8. QED
  BY <1>1, <1>2, <1>6, <1>7 DEF AlertsInv, SentInv, PaidInv

(* A job's message, sent or not: rows and claims stay. *)
LEMMA AlertsSend ==
    ASSUME AlertsInv, NEW w \in Workers, Send(w) \/ SendFails(w) \/ MarkFails(w)
    PROVE  AlertsInv'
<1>1. /\ UNCHANGED <<queueVars, content, feishuStatus, seen, tried, failures, raced>> /\ Held(w) # {}
      /\ \A u \in Workers : u # w => stage'[u] = stage[u]
  BY DEF Send, SendFails, MarkFails, AlertsInv, AlertsShape
<1>2. Cur(w) \in Items
  BY <1>1, CurInBatch
<1>3. PICK c \in Items : c = Cur(w)
  BY <1>2
<1>4. AlertsShape' /\ (\A i \in Items : sent[i] \subseteq sent'[i]) /\ (stage'[w] = "sent" => seen[w][c] \in sent'[c])
  <2>0. seen[w][c] \in Nat /\ sent \in [Items -> SUBSET Nat] /\ stage \in [Workers -> {"send", "sent", "skipped", "failed"}]
    BY DEF AlertsInv, AlertsShape
  <2>1. CASE Send(w)
    <3>1. \/ sent' = [sent EXCEPT ![c] = sent[c] \union {seen[w][c]}] /\ stage' = [stage EXCEPT ![w] = "sent"]
          \/ sent' = sent /\ stage' = [stage EXCEPT ![w] = "skipped"]
      BY <1>3, <2>1 DEF Send, Unsent
    <3>2. sent' \in [Items -> SUBSET Nat] /\ stage' \in [Workers -> {"send", "sent", "skipped", "failed"}]
      BY <2>0, <3>1
    <3>3. (\A i \in Items : sent[i] \subseteq sent'[i]) /\ (stage'[w] = "sent" => seen[w][c] \in sent'[c])
      BY <2>0, <3>1
    <3>4. QED
      BY <1>1, <3>2, <3>3 DEF AlertsInv, AlertsShape, queueVars, rowVars, States, FeishuStatuses
  <2>2. CASE SendFails(w)
    <3>1. PICK arrived \in SUBSET {seen[w][c]} : sent' = [sent EXCEPT ![c] = sent[c] \union arrived]
      BY <1>3, <2>2 DEF SendFails
    <3>2. sent[c] \union arrived \in SUBSET Nat
      BY <2>0
    <3>3. sent' \in [Items -> SUBSET Nat] /\ (\A i \in Items : sent[i] \subseteq sent'[i])
      BY <2>0, <3>1, <3>2
    <3>4. QED
      BY <1>1, <2>2, <3>3 DEF SendFails, AlertsInv, AlertsShape, queueVars, rowVars, States, FeishuStatuses
  <2>3. CASE MarkFails(w)
    BY <1>1, <2>3 DEF MarkFails, AlertsInv, AlertsShape, queueVars, rowVars, States, FeishuStatuses
  <2>4. QED
    BY <2>1, <2>2, <2>3
<1>5. UNCHANGED <<state, retry, claim>>
  BY <1>1 DEF queueVars, rowVars
<1>6. \A u \in Workers : Held(u)' = Held(u) /\ Cur(u)' = Cur(u) /\ \A x : Holds(u, x)' <=> Holds(u, x)
  BY <1>5, LeftAlone
<1>7. ASSUME NEW u \in Workers PROVE Delivered(u)' /\ \A i \in Items : Fresh(u, i)' /\ Paid(u, i)'
  <2>1. \A i \in Items : Fresh(u, i)' /\ Paid(u, i)'
    BY <1>1, <1>5, <1>6 DEF Fresh, Paid, AlertsInv, SentInv, PaidInv
  <2>2. CASE u = w
    BY <1>1, <1>3, <1>4, <1>6, <2>1, <2>2 DEF Delivered
  <2>3. CASE u # w
    <3>1. Held(u) # {} => Cur(u) \in Items
      BY CurInBatch
    <3>2. Delivered(u)'
      BY <1>1, <1>4, <1>6, <2>3, <3>1 DEF Delivered, AlertsInv, SentInv
    <3>3. QED
      BY <2>1, <3>2
  <2>4. QED
    BY <2>2, <2>3
<1>8. LatestIsSent' /\ GivenUpWasTried'
  BY <1>1, <1>4, <1>5 DEF AlertsInv, SentInv, LatestIsSent, GivenUpWasTried
<1>9. QED
  BY <1>1, <1>4, <1>5, <1>7, <1>8 DEF AlertsInv, SentInv, PaidInv

(* The end of a row's turn, with what the mark has left of the row. *)
LEMMA AlertsTurn ==
    ASSUME AlertsInv, NEW w \in Workers, NEW c \in Items, Forget(w, {c}), Turn(w, c),
           AlertsShape', UNCHANGED <<content, sent, raced>>,
           \A i \in Items : failures[i] <= failures'[i] /\ retry'[i] <= failures'[i],
           LatestIsSent', GivenUpWasTried'
    PROVE  AlertsInv'
<1>1. /\ claim' = [claim EXCEPT ![w] = [i \in Items |-> IF i \in {c} THEN NotHeld ELSE claim[w][i]]]
      /\ seen' = [seen EXCEPT ![w] = [seen[w] EXCEPT ![c] = 0]]
      /\ stage' = [stage EXCEPT ![w] = "send"]
  BY DEF Forget, Turn
<1>2. ASSUME NEW u \in Workers, u # w
      PROVE  /\ Held(u)' = Held(u) /\ Cur(u)' = Cur(u) /\ (\A x : Holds(u, x)' <=> Holds(u, x))
             /\ seen'[u] = seen[u] /\ stage'[u] = stage[u] /\ claim'[u] = claim[u]
  <2>1. claim'[u] = claim[u]
    BY <1>1, <1>2 DEF AlertsInv, AlertsShape
  <2>2. seen'[u] = seen[u] /\ stage'[u] = stage[u]
    BY <1>1, <1>2 DEF AlertsInv, AlertsShape
  <2>3. QED
    BY <2>1, <2>2, LeftAlone
<1>3. ASSUME NEW i \in Items, Holds(w, i)' PROVE Holds(w, i) /\ claim'[w][i] = claim[w][i] /\ seen'[w][i] = seen[w][i]
  BY <1>1, <1>3 DEF AlertsInv, AlertsShape, Holds
<1>4. stage'[w] = "send"
  BY <1>1 DEF AlertsInv, AlertsShape
<1>5. ASSUME NEW u \in Workers, NEW i \in Items PROVE Fresh(u, i)' /\ Paid(u, i)'
  <2>1. Fresh(u, i) /\ Paid(u, i)
    BY DEF AlertsInv, SentInv, PaidInv
  <2>2. Holds(u, i)' => Holds(u, i) /\ claim'[u][i] = claim[u][i] /\ seen'[u][i] = seen[u][i]
    BY <1>2, <1>3
  <2>3. Fresh(u, i)'
    BY <2>1, <2>2 DEF Fresh
  <2>4. claim[u][i] <= failures[i] => claim[u][i] <= failures'[i]
    <3>1. claim[u][i] \in Int /\ failures[i] \in Int
      BY DEF AlertsInv, AlertsShape, NotHeld
    <3>2. failures'[i] \in Int /\ failures[i] <= failures'[i]
      BY DEF AlertsShape
    <3>3. QED
      BY <3>1, <3>2
  <2>5. QED
    BY <2>1, <2>2, <2>3, <2>4 DEF Paid
<1>6. ASSUME NEW u \in Workers PROVE Delivered(u)'
  BY <1>2, <1>4 DEF Delivered, AlertsInv, SentInv
<1>7. QED
  BY <1>5, <1>6 DEF AlertsInv, SentInv, PaidInv

LEMMA AlertsMarkSent ==
    ASSUME AlertsInv, NEW w \in Workers, MarkSent(w)
    PROVE  AlertsInv'
<1>1. PICK c \in Items : c = Cur(w) /\ Holds(w, c) /\ Held(w) # {}
  BY CurInBatch DEF MarkSent
<1>2. /\ state' = [state EXCEPT ![c] = "done"] /\ feishuStatus' = [feishuStatus EXCEPT ![c] = stage[w]]
      /\ Forget(w, {c}) /\ Turn(w, c) /\ UNCHANGED <<retry, content, sent, tried, failures, raced>>
      /\ stage[w] \in {"sent", "skipped"}
  BY <1>1 DEF MarkSent, MarkDone
<1>3. AlertsShape'
  BY <1>2 DEF AlertsInv, AlertsShape, Forget, Turn, States, FeishuStatuses, NotHeld
<1>4. stage[w] = "sent" /\ ~raced[c] => content[c] \in sent[c]
  BY <1>1 DEF AlertsInv, SentInv, Delivered, Fresh
<1>5. LatestIsSent'
  BY <1>2, <1>4 DEF AlertsInv, AlertsShape, SentInv, LatestIsSent
<1>6. GivenUpWasTried'
  BY <1>2 DEF AlertsInv, AlertsShape, GivenUpWasTried
<1>7. \A i \in Items : failures[i] <= failures'[i] /\ retry'[i] <= failures'[i]
  BY <1>2 DEF AlertsInv, AlertsShape, PaidInv
<1>8. QED
  BY <1>2, <1>3, <1>5, <1>6, <1>7, AlertsTurn

LEMMA AlertsRetryLater ==
    ASSUME AlertsInv, NEW w \in Workers, RetryLater(w)
    PROVE  AlertsInv'
<1>1. PICK c \in Items : c = Cur(w) /\ Holds(w, c)
  BY CurInBatch DEF RetryLater
<1>2. PICK n : n = claim[w][c] + 1
  OBVIOUS
<1>3. /\ state' = [state EXCEPT ![c] = IF n >= MaxRetry THEN "failed" ELSE "pending"]
      /\ retry' = [retry EXCEPT ![c] = n]
      /\ feishuStatus' = [feishuStatus EXCEPT ![c] = "failed"]
      /\ tried' = [tried EXCEPT ![c] = tried[c] \union {seen[w][c]}]
      /\ failures' = [failures EXCEPT ![c] = failures[c] + 1]
      /\ Forget(w, {c}) /\ Turn(w, c) /\ UNCHANGED <<content, sent, raced>>
  BY <1>1, <1>2 DEF RetryLater, MarkRetry, Final
<1>4. claim[w][c] \in Nat /\ n \in Nat /\ n <= failures[c] + 1 /\ failures[c] \in Nat /\ seen[w][c] \in Nat
  <2>1. claim[w][c] \in Nat /\ failures[c] \in Nat /\ seen[w][c] \in Nat
    BY <1>1 DEF AlertsInv, AlertsShape, Holds
  <2>2. claim[w][c] <= failures[c]
    BY <1>1 DEF AlertsInv, PaidInv, Paid
  <2>3. QED
    BY <1>2, <2>1, <2>2
<1>5. AlertsShape'
  <2>1. retry' \in [Items -> Nat] /\ failures' \in [Items -> Nat] /\ tried' \in [Items -> SUBSET Nat]
    BY <1>3, <1>4 DEF AlertsInv, AlertsShape
  <2>2. state' \in [Items -> States] /\ feishuStatus' \in [Items -> FeishuStatuses]
    BY <1>3 DEF AlertsInv, AlertsShape, States, FeishuStatuses
  <2>3. QED
    BY <1>3, <2>1, <2>2 DEF AlertsInv, AlertsShape, Forget, Turn, NotHeld
<1>6. ASSUME NEW i \in Items
      PROVE  /\ failures[i] <= failures'[i] /\ retry'[i] <= failures'[i]
             /\ state'[i] = "failed" => (raced[i] \/ content[i] \in tried'[i]) /\ failures'[i] >= MaxRetry
             /\ ~(state'[i] = "done" /\ feishuStatus'[i] = "sent" /\ ~raced[i] /\ content[i] \notin sent[i])
  <2>1. CASE i = c
    <3>1. failures'[c] = failures[c] + 1 /\ retry'[c] = n /\ state'[c] = IF n >= MaxRetry THEN "failed" ELSE "pending"
      BY <1>3 DEF AlertsInv, AlertsShape
    <3>2. tried'[c] = tried[c] \union {seen[w][c]}
      BY <1>3 DEF AlertsInv, AlertsShape
    <3>3. raced[c] \/ seen[w][c] = content[c]
      BY <1>1 DEF AlertsInv, SentInv, Fresh
    <3>4. state'[c] = "failed" => failures'[c] >= MaxRetry
      BY <1>4, <3>1, LeaseQueueAssumption
    <3>5. failures[c] <= failures'[c] /\ retry'[c] <= failures'[c]
      BY <1>4, <3>1
    <3>6. QED
      BY <2>1, <3>1, <3>2, <3>3, <3>4, <3>5
  <2>2. CASE i # c
    <3>1. /\ failures'[i] = failures[i] /\ retry'[i] = retry[i] /\ state'[i] = state[i]
          /\ tried'[i] = tried[i] /\ feishuStatus'[i] = feishuStatus[i] /\ failures[i] \in Nat
      BY <1>3, <2>2 DEF AlertsInv, AlertsShape
    <3>2. QED
      BY <3>1 DEF AlertsInv, PaidInv, SentInv, LatestIsSent, GivenUpWasTried
  <2>3. QED
    BY <2>1, <2>2
<1>7. LatestIsSent' /\ GivenUpWasTried'
  BY <1>3, <1>6 DEF LatestIsSent, GivenUpWasTried
<1>8. QED
  BY <1>3, <1>5, <1>6, <1>7, AlertsTurn

LEMMA AlertsRetryFails ==
    ASSUME AlertsInv, NEW w \in Workers, RetryFails(w)
    PROVE  AlertsInv'
<1>1. PICK c \in Items : c = Cur(w) /\ Holds(w, c)
  BY CurInBatch DEF RetryFails
<1>2. Forget(w, {c}) /\ Turn(w, c) /\ UNCHANGED <<state, retry, content, feishuStatus, sent, tried, failures, raced>>
  BY <1>1 DEF RetryFails, Drop, rowVars
<1>3. AlertsShape'
  BY <1>2 DEF AlertsInv, AlertsShape, Forget, Turn, States, FeishuStatuses, NotHeld
<1>4. \A i \in Items : failures[i] <= failures'[i] /\ retry'[i] <= failures'[i]
  BY <1>2 DEF AlertsInv, AlertsShape, PaidInv
<1>5. LatestIsSent' /\ GivenUpWasTried'
  BY <1>2 DEF AlertsInv, SentInv, LatestIsSent, GivenUpWasTried
<1>6. QED
  BY <1>2, <1>3, <1>4, <1>5, AlertsTurn

LEMMA AlertsGiveUp ==
    ASSUME AlertsInv, NEW w \in Workers, GiveUp(w)
    PROVE  AlertsInv'
<1>1. /\ claim' = [claim EXCEPT ![w] = [i \in Items |-> IF i \in Held(w) THEN NotHeld ELSE claim[w][i]]]
      /\ seen' = [seen EXCEPT ![w] = [i \in Items |-> 0]] /\ stage' = [stage EXCEPT ![w] = "send"]
      /\ UNCHANGED <<state, retry, content, feishuStatus, sent, tried, failures, raced>>
  BY DEF GiveUp, Drop, Forget, rowVars
<1>2. AlertsShape'
  BY <1>1 DEF AlertsInv, AlertsShape, States, FeishuStatuses, NotHeld
<1>3. \A i \in Items : ~Holds(w, i)'
  BY <1>1 DEF AlertsInv, AlertsShape, Holds, Held
<1>4. Held(w)' = {}
  BY <1>3 DEF Held
<1>5. ASSUME NEW u \in Workers PROVE Delivered(u)' /\ \A i \in Items : Fresh(u, i)' /\ Paid(u, i)'
  <2>1. CASE u = w
    BY <1>3, <1>4, <2>1 DEF Delivered, Fresh, Paid
  <2>2. CASE u # w
    <3>1. claim'[u] = claim[u] /\ seen'[u] = seen[u] /\ stage'[u] = stage[u]
      BY <1>1, <2>2 DEF AlertsInv, AlertsShape
    <3>2. Held(u)' = Held(u) /\ Cur(u)' = Cur(u) /\ \A x : Holds(u, x)' <=> Holds(u, x)
      BY <3>1, LeftAlone
    <3>3. QED
      BY <1>1, <3>1, <3>2 DEF Delivered, Fresh, Paid, AlertsInv, SentInv, PaidInv
  <2>3. QED
    BY <2>1, <2>2
<1>6. LatestIsSent' /\ GivenUpWasTried'
  BY <1>1 DEF AlertsInv, SentInv, LatestIsSent, GivenUpWasTried
<1>7. QED
  BY <1>1, <1>2, <1>5, <1>6 DEF AlertsInv, SentInv, PaidInv

(* A scan raises alerts of the hour only. *)
ScanInv == scan \in [Scanners -> SUBSET HourKeys]

LEMMA ScanInvariant == AlertsSpec => []ScanInv
<1>1. InitAlerts => ScanInv
  BY DEF InitAlerts, ScanInv
<1>2. ScanInv /\ [AlertsNext]_alertsVars => ScanInv'
  <2> SUFFICES ASSUME ScanInv, [AlertsNext]_alertsVars PROVE ScanInv'
    OBVIOUS
  <2>1. ASSUME NEW s \in Scanners, Snapshot(s) \/ RaiseOverdue(s) \/ ScanFails(s) PROVE ScanInv'
    BY <2>1 DEF Snapshot, RaiseOverdue, ScanFails, ScanInv, HourKeys
  <2>2. CASE UNCHANGED scan
    BY <2>2 DEF ScanInv, HourKeys
  <2>3. ASSUME NEW i \in Items, Raise(i) \/ Time(i) PROVE UNCHANGED scan
    BY <2>3 DEF Raise, Time, alertVars
  <2>4. ASSUME NEW w \in Workers, Job(w) \/ JobFaults(w) PROVE UNCHANGED scan
    BY <2>4 DEF Job, JobFaults, ClaimAlerts, Send, SendFails, MarkSent, MarkFails, RetryLater, RetryFails, GiveUp
  <2>5. QED
    BY <2>1, <2>2, <2>3, <2>4 DEF AlertsNext, SwitchFeishu, alertsVars, alertVars
<1>3. QED
  BY <1>1, <1>2, PTL DEF AlertsSpec

LEMMA AlertsInvariant == AlertsSpec => []AlertsInv
<1>1. ScanInv /\ AlertsInv /\ [AlertsNext]_alertsVars => AlertsInv'
  <2> SUFFICES ASSUME ScanInv, AlertsInv, [AlertsNext]_alertsVars PROVE AlertsInv'
    OBVIOUS
  <2>1. CASE UNCHANGED alertsVars
    BY <2>1, AlertsRest DEF alertsVars, queueVars, rowVars, alertVars
  <2>2. ASSUME NEW i \in Items, Raise(i) \/ Time(i) PROVE AlertsInv'
    <3>1. CASE Raise(i)
      BY <3>1, AlertsCreate DEF Raise
    <3>2. CASE Time(i)
      BY <3>2, AlertsRest DEF Time, FallDue, LeaseExpire, alertVars
    <3>3. QED
      BY <2>2, <3>1, <3>2
  <2>3. ASSUME NEW s \in Scanners, Snapshot(s) \/ RaiseOverdue(s) \/ ScanFails(s) PROVE AlertsInv'
    <3>1. ASSUME scan[s] # {}, CreateOpsAlert(First(scan[s])) PROVE AlertsInv'
      <4>1. scan[s] \subseteq Items
        BY OpsAlertsAssumption DEF ScanInv
      <4>2. scan[s] \in SUBSET Nat
        BY <4>1, LeaseQueueAssumption
      <4>3. First(scan[s]) \in Items
        BY <3>1, <4>1, <4>2, FirstIsLeast
      <4>4. QED
        BY <3>1, <4>3, AlertsCreate
    <3>2. QED
      BY <2>3, <3>1, AlertsRest DEF Snapshot, RaiseOverdue, ScanFails, queueVars, rowVars
  <2>4. ASSUME NEW w \in Workers, Job(w) PROVE AlertsInv'
    BY <2>4, AlertsClaim, AlertsSend, AlertsMarkSent, AlertsRetryLater DEF Job
  <2>5. ASSUME NEW w \in Workers, JobFaults(w) PROVE AlertsInv'
    BY <2>5, AlertsSend, AlertsRetryFails, AlertsGiveUp DEF JobFaults
  <2>6. CASE SwitchFeishu
    BY <2>6, AlertsRest DEF SwitchFeishu, queueVars, rowVars
  <2>7. QED
    BY <2>1, <2>2, <2>3, <2>4, <2>5, <2>6 DEF AlertsNext
<1>2. QED
  BY <1>1, AlertsInit, ScanInvariant, PTL DEF AlertsSpec

(* MarkOpsAlertSent says WHERE id and no more: an alert is closed as sent with a payload that was
   sent, unless it was raised again while a job was sending. *)
THEOREM ClosedAlertsWereSent == AlertsSpec => []LatestIsSent
<1>1. AlertsInv => LatestIsSent
  BY DEF AlertsInv, SentInv
<1>2. QED
  BY <1>1, AlertsInvariant, PTL

(* The retry count is not reset when an alert is raised again: it is given up after MaxRetry
   failures in all, the last of them with the payload of now. *)
THEOREM GivenUpAlertsWereTried == AlertsSpec => []GivenUpWasTried
<1>1. AlertsInv => GivenUpWasTried
  BY DEF AlertsInv
<1>2. QED
  BY <1>1, AlertsInvariant, PTL

-----------------------------------------------------------------------------
(* A row that is there has a payload, and a job reads one with each row it claims. *)
PayloadInv ==
    /\ \A i \in Items : state[i] # "none" => content[i] \in Contents
    /\ \A w \in Workers, i \in Items : Holds(w, i) => seen[w][i] \in Contents /\ content[i] \in Contents

LEMMA PayloadInit == InitAlerts => AlertsTypeOK /\ PayloadInv
<1> SUFFICES ASSUME InitAlerts PROVE AlertsTypeOK /\ PayloadInv
  OBVIOUS
<1>1. faults \in 0..MaxFaults
  BY OpsAlertsAssumption DEF InitAlerts
<1>2. AlertsTypeOK
  BY <1>1 DEF InitAlerts, InitQueue, AlertsTypeOK, States, FeishuStatuses, NotHeld, Contents
<1>3. PayloadInv
  BY DEF InitAlerts, InitQueue, PayloadInv, Holds
<1>4. QED
  BY <1>2, <1>3

LEMMA FaultType == ASSUME faults \in 0..MaxFaults, Fault \/ UNCHANGED faults PROVE faults' \in 0..MaxFaults
BY OpsAlertsAssumption DEF Fault

LEMMA PayloadRest ==
    ASSUME AlertsTypeOK, PayloadInv, faults' \in 0..MaxFaults, feishu' \in BOOLEAN, due' \in [Items -> BOOLEAN],
           leased' \in [Items -> BOOLEAN], scan' \in [Scanners -> SUBSET HourKeys],
           UNCHANGED <<state, retry, claim, content, feishuStatus, seen, sent, tried, failures, raced>>,
           stage' \in [Workers -> {"send", "sent", "skipped", "failed"}]
    PROVE  AlertsTypeOK' /\ PayloadInv'
BY DEF AlertsTypeOK, PayloadInv, Holds, States, FeishuStatuses, Contents, HourKeys

LEMMA PayloadCreate ==
    ASSUME AlertsTypeOK, PayloadInv, NEW i \in Items, CreateOpsAlert(i), scan' \in [Scanners -> SUBSET HourKeys]
    PROVE  AlertsTypeOK' /\ PayloadInv'
<1>1. content[i] + 1 \in Contents /\ content \in [Items -> {0} \union Contents]
  <2>1. content \in [Items -> {0} \union Contents] /\ content[i] < MaxContent
    BY DEF CreateOpsAlert, AlertsTypeOK
  <2>2. content[i] \in {0} \union Contents
    BY <2>1
  <2>3. content[i] + 1 \in Contents
    BY <2>1, <2>2, OpsAlertsAssumption DEF Contents
  <2>4. QED
    BY <2>1, <2>3
<1>2. /\ content' = [content EXCEPT ![i] = content[i] + 1]
      /\ UNCHANGED <<retry, claim, feishu, seen, stage, sent, tried, failures, faults>>
  BY DEF CreateOpsAlert
<1>3. content' \in [Items -> {0} \union Contents] /\ content'[i] \in Contents
  BY <1>1, <1>2
<1>4. /\ state' \in [Items -> States] /\ due' \in [Items -> BOOLEAN] /\ leased' \in [Items -> BOOLEAN]
      /\ feishuStatus' \in [Items -> FeishuStatuses]
      /\ \A x \in Items : x # i => state'[x] = state[x]
  BY DEF CreateOpsAlert, AlertsTypeOK, States, FeishuStatuses
<1>5. raced' \in [Items -> BOOLEAN]
  BY DEF CreateOpsAlert, AlertsTypeOK
<1>6. AlertsTypeOK'
  BY <1>2, <1>3, <1>4, <1>5 DEF AlertsTypeOK, States, FeishuStatuses, Contents, HourKeys
<1>7. PayloadInv'
  BY <1>1, <1>2, <1>3, <1>4 DEF PayloadInv, Holds, Contents
<1>8. QED
  BY <1>6, <1>7

LEMMA PayloadClaim ==
    ASSUME AlertsTypeOK, PayloadInv, NEW w \in Workers, NEW S \in SUBSET Items, ClaimAlerts(w, S)
    PROVE  AlertsTypeOK' /\ PayloadInv'
<1>1. /\ claim' = [claim EXCEPT ![w] = [i \in Items |-> IF i \in S THEN retry[i] ELSE NotHeld]]
      /\ state' = [i \in Items |-> IF i \in S THEN "processing" ELSE state[i]]
      /\ leased' = [i \in Items |-> i \in S \/ leased[i]]
      /\ seen' = [seen EXCEPT ![w] = [i \in Items |-> IF i \in S THEN content[i] ELSE 0]]
      /\ stage' = [stage EXCEPT ![w] = "send"]
      /\ UNCHANGED <<retry, due, content, feishuStatus, feishu, sent, tried, failures, raced, scan, faults>>
  BY DEF ClaimAlerts, ClaimRows
<1>2. \A i \in S : state[i] # "none"
  BY DEF ClaimAlerts, ClaimRows, Oldest, Ready
<1>3. claim' \in [Workers -> [Items -> Nat \union {NotHeld}]] /\ leased' \in [Items -> BOOLEAN]
  BY <1>1 DEF AlertsTypeOK, NotHeld
<1>4. seen' \in [Workers -> [Items -> {0} \union Contents]]
  BY <1>1 DEF AlertsTypeOK
<1>5. AlertsTypeOK'
  BY <1>1, <1>3, <1>4 DEF AlertsTypeOK, States, FeishuStatuses, Contents, HourKeys, NotHeld
<1>6. ASSUME NEW i \in Items, Holds(w, i)' PROVE seen'[w][i] \in Contents /\ content'[i] \in Contents
  BY <1>1, <1>2, <1>6 DEF AlertsTypeOK, PayloadInv, Holds
<1>7. ASSUME NEW u \in Workers, u # w, NEW i \in Items, Holds(u, i)' PROVE seen'[u][i] \in Contents /\ content'[i] \in Contents
  BY <1>1, <1>7 DEF AlertsTypeOK, PayloadInv, Holds
<1>8. PayloadInv'
  BY <1>1, <1>2, <1>6, <1>7 DEF PayloadInv, Contents
<1>9. QED
  BY <1>5, <1>8

LEMMA PayloadSend ==
    ASSUME AlertsTypeOK, PayloadInv, NEW w \in Workers, Send(w) \/ SendFails(w) \/ MarkFails(w)
    PROVE  AlertsTypeOK' /\ PayloadInv'
<1>1. Cur(w) \in Items /\ seen[w][Cur(w)] \in Contents
  BY CurInBatch DEF Send, SendFails, MarkFails, PayloadInv
<1>2. UNCHANGED <<state, retry, due, leased, claim, content, feishuStatus, feishu, seen, tried, failures, raced, scan>>
  BY DEF Send, SendFails, MarkFails, queueVars, rowVars
<1>3. sent' \in [Items -> SUBSET Contents]
  <2>1. CASE Send(w) \/ MarkFails(w)
    BY <1>1, <2>1 DEF Send, MarkFails, AlertsTypeOK
  <2>2. CASE SendFails(w)
    <3>1. PICK arrived \in SUBSET {seen[w][Cur(w)]} : sent' = [sent EXCEPT ![Cur(w)] = sent[Cur(w)] \union arrived]
      BY <2>2 DEF SendFails
    <3>2. sent[Cur(w)] \union arrived \in SUBSET Contents
      BY <1>1 DEF AlertsTypeOK
    <3>3. QED
      BY <1>1, <3>1, <3>2 DEF AlertsTypeOK
  <2>3. QED
    BY <2>1, <2>2
<1>4. stage' \in [Workers -> {"send", "sent", "skipped", "failed"}]
  BY DEF Send, SendFails, MarkFails, AlertsTypeOK, Unsent
<1>5. faults' \in 0..MaxFaults
  BY FaultType DEF Send, SendFails, MarkFails, AlertsTypeOK
<1>6. AlertsTypeOK'
  BY <1>2, <1>3, <1>4, <1>5 DEF AlertsTypeOK, States, FeishuStatuses, Contents, HourKeys
<1>7. PayloadInv'
  BY <1>2 DEF PayloadInv, Holds, Contents
<1>8. QED
  BY <1>6, <1>7

(* What a job turns from it holds no more. *)
LEMMA PayloadForget ==
    ASSUME AlertsTypeOK, PayloadInv, NEW w \in Workers, NEW S \in SUBSET Items, Forget(w, S),
           seen' = [seen EXCEPT ![w] = [i \in Items |-> IF i \in S THEN 0 ELSE seen[w][i]]],
           stage' = [stage EXCEPT ![w] = "send"],
           state' \in [Items -> States], retry' \in [Items -> Nat], due' \in [Items -> BOOLEAN],
           leased' \in [Items -> BOOLEAN], feishuStatus' \in [Items -> FeishuStatuses],
           tried' \in [Items -> SUBSET Contents], failures' \in [Items -> Nat],
           \A i \in Items : state'[i] # "none" => content[i] \in Contents,
           UNCHANGED <<content, feishu, sent, raced, scan>>, faults' \in 0..MaxFaults
    PROVE  AlertsTypeOK' /\ PayloadInv'
<1>1. claim' = [claim EXCEPT ![w] = [i \in Items |-> IF i \in S THEN NotHeld ELSE claim[w][i]]]
  BY DEF Forget
<1>2. claim' \in [Workers -> [Items -> Nat \union {NotHeld}]]
  BY <1>1 DEF AlertsTypeOK
<1>3. seen' \in [Workers -> [Items -> {0} \union Contents]]
  BY DEF AlertsTypeOK
<1>4. stage' \in [Workers -> {"send", "sent", "skipped", "failed"}]
  BY DEF AlertsTypeOK
<1>5. AlertsTypeOK'
  BY <1>2, <1>3, <1>4 DEF AlertsTypeOK, States, FeishuStatuses, Contents, HourKeys, NotHeld
<1>6. ASSUME NEW u \in Workers, NEW i \in Items, Holds(u, i)' PROVE seen'[u][i] = seen[u][i] /\ Holds(u, i)
  <2>1. CASE u = w
    BY <1>1, <1>6, <2>1 DEF AlertsTypeOK, Holds
  <2>2. CASE u # w
    BY <1>1, <1>6, <2>2 DEF AlertsTypeOK, Holds
  <2>3. QED
    BY <2>1, <2>2
<1>7. PayloadInv'
  BY <1>6 DEF PayloadInv, Contents
<1>8. QED
  BY <1>5, <1>7

LEMMA PayloadMarks ==
    ASSUME AlertsTypeOK, PayloadInv, NEW w \in Workers, MarkSent(w) \/ RetryLater(w) \/ RetryFails(w)
    PROVE  AlertsTypeOK' /\ PayloadInv'
<1> DEFINE i == Cur(w)
<1>1. i \in Items /\ Holds(w, i) /\ seen[w][i] \in Contents /\ content[i] \in Contents
  BY CurInBatch DEF MarkSent, RetryLater, RetryFails, PayloadInv
<1>2. claim[w][i] \in Nat /\ state[i] \in States /\ stage[w] \in {"send", "sent", "skipped", "failed"}
  BY <1>1 DEF AlertsTypeOK, Holds
<1> HIDE DEF i
<1>3. Forget(w, {i}) /\ Turn(w, i)
  BY DEF MarkSent, RetryLater, RetryFails, MarkDone, MarkRetry, Drop, i
<1>4. /\ seen' = [seen EXCEPT ![w] = [x \in Items |-> IF x \in {i} THEN 0 ELSE seen[w][x]]]
      /\ stage' = [stage EXCEPT ![w] = "send"]
  BY <1>1, <1>3 DEF Turn, AlertsTypeOK
<1>5. UNCHANGED <<content, feishu, sent, raced, scan>> /\ faults' \in 0..MaxFaults
  BY FaultType DEF MarkSent, RetryLater, RetryFails, AlertsTypeOK
<1>6. {i} \in SUBSET Items
  BY <1>1
<1>7. ASSUME state' \in [Items -> States], retry' \in [Items -> Nat], due' \in [Items -> BOOLEAN],
             leased' \in [Items -> BOOLEAN], feishuStatus' \in [Items -> FeishuStatuses],
             tried' \in [Items -> SUBSET Contents], failures' \in [Items -> Nat],
             \A x \in Items : x # i => state'[x] = state[x]
      PROVE  AlertsTypeOK' /\ PayloadInv'
  <2>1. \A x \in Items : state'[x] # "none" => content[x] \in Contents
    BY <1>1, <1>7 DEF PayloadInv
  <2>2. QED
    BY <1>3, <1>4, <1>5, <1>6, <1>7, <2>1, PayloadForget
<1>8. CASE MarkSent(w)
  <2>1. MarkDone(w, i) /\ feishuStatus' = [feishuStatus EXCEPT ![i] = stage[w]] /\ stage[w] \in {"sent", "skipped"}
        /\ UNCHANGED <<tried, failures>>
    BY <1>8 DEF MarkSent, i
  <2>2. /\ state' = [state EXCEPT ![i] = "done"] /\ retry' = retry
        /\ due' = [due EXCEPT ![i] = FALSE] /\ leased' = [leased EXCEPT ![i] = FALSE]
    BY <2>1 DEF MarkDone
  <2>3. QED
    BY <1>7, <2>1, <2>2 DEF AlertsTypeOK, States, FeishuStatuses
<1>9. CASE RetryLater(w)
  <2>1. /\ MarkRetry(w, i) /\ feishuStatus' = [feishuStatus EXCEPT ![i] = "failed"]
        /\ tried' = [tried EXCEPT ![i] = tried[i] \union {seen[w][i]}]
        /\ failures' = [failures EXCEPT ![i] = failures[i] + 1]
    BY <1>9 DEF RetryLater, i
  <2>2. /\ state' = [state EXCEPT ![i] = IF Final(claim[w][i] + 1) THEN "failed" ELSE "pending"]
        /\ retry' = [retry EXCEPT ![i] = claim[w][i] + 1]
        /\ due' = [due EXCEPT ![i] = FALSE] /\ leased' = [leased EXCEPT ![i] = FALSE]
    BY <2>1 DEF MarkRetry
  <2>3. tried[i] \union {seen[w][i]} \in SUBSET Contents /\ failures[i] + 1 \in Nat
    BY <1>1 DEF AlertsTypeOK
  <2>4. tried' \in [Items -> SUBSET Contents] /\ failures' \in [Items -> Nat] /\ retry' \in [Items -> Nat]
    <3>1. claim[w][i] + 1 \in Nat /\ retry \in [Items -> Nat]
      BY <1>2 DEF AlertsTypeOK
    <3>2. retry' \in [Items -> Nat]
      BY <2>2, <3>1
    <3>3. QED
      BY <2>1, <2>3, <3>2 DEF AlertsTypeOK
  <2>5. /\ state' \in [Items -> States] /\ feishuStatus' \in [Items -> FeishuStatuses]
        /\ due' \in [Items -> BOOLEAN] /\ leased' \in [Items -> BOOLEAN]
        /\ \A x \in Items : x # i => state'[x] = state[x]
    BY <2>1, <2>2 DEF AlertsTypeOK, States, FeishuStatuses
  <2>6. QED
    BY <1>7, <2>4, <2>5
<1>10. CASE RetryFails(w)
  <2>1. UNCHANGED <<state, retry, due, leased, feishuStatus, tried, failures>>
    BY <1>10 DEF RetryFails, Drop, rowVars
  <2>2. QED
    BY <1>7, <2>1 DEF AlertsTypeOK, States, FeishuStatuses
<1>11. QED
  BY <1>8, <1>9, <1>10

LEMMA PayloadGivesUp ==
    ASSUME AlertsTypeOK, PayloadInv, NEW w \in Workers, GiveUp(w)
    PROVE  AlertsTypeOK' /\ PayloadInv'
<1>1. Held(w) \in SUBSET Items /\ Forget(w, Held(w)) /\ stage' = [stage EXCEPT ![w] = "send"]
      /\ UNCHANGED <<state, retry, due, leased, content, feishuStatus, feishu, sent, tried, failures, raced, scan>>
  BY DEF GiveUp, Drop, rowVars, Held
<1>2. faults' \in 0..MaxFaults
  BY FaultType DEF GiveUp, AlertsTypeOK
<1>3. claim' = [claim EXCEPT ![w] = [i \in Items |-> IF i \in Held(w) THEN NotHeld ELSE claim[w][i]]]
  BY <1>1 DEF Forget
<1>4. AlertsTypeOK'
  <2>1. claim' \in [Workers -> [Items -> Nat \union {NotHeld}]]
    BY <1>3 DEF AlertsTypeOK
  <2>2. seen' \in [Workers -> [Items -> {0} \union Contents]]
    BY DEF GiveUp, AlertsTypeOK
  <2>3. stage' \in [Workers -> {"send", "sent", "skipped", "failed"}]
    BY <1>1 DEF AlertsTypeOK
  <2>4. QED
    BY <1>1, <1>2, <2>1, <2>2, <2>3 DEF AlertsTypeOK, States, FeishuStatuses, Contents, HourKeys, NotHeld
<1>5. ASSUME NEW i \in Items PROVE ~Holds(w, i)'
  BY <1>3 DEF AlertsTypeOK, Holds, Held
<1>6. ASSUME NEW u \in Workers, u # w, NEW i \in Items, Holds(u, i)' PROVE Holds(u, i) /\ seen'[u][i] = seen[u][i]
  BY <1>3, <1>6 DEF AlertsTypeOK, Holds, GiveUp
<1>7. PayloadInv'
  BY <1>1, <1>5, <1>6 DEF PayloadInv, Contents
<1>8. QED
  BY <1>4, <1>7

LEMMA PayloadStep == AlertsTypeOK /\ PayloadInv /\ [AlertsNext]_alertsVars => AlertsTypeOK' /\ PayloadInv'
<1> SUFFICES ASSUME AlertsTypeOK, PayloadInv, [AlertsNext]_alertsVars PROVE AlertsTypeOK' /\ PayloadInv'
  OBVIOUS
<1>0. /\ due \in [Items -> BOOLEAN] /\ leased \in [Items -> BOOLEAN] /\ scan \in [Scanners -> SUBSET HourKeys]
      /\ stage \in [Workers -> {"send", "sent", "skipped", "failed"}] /\ faults \in 0..MaxFaults /\ feishu \in BOOLEAN
  BY DEF AlertsTypeOK
<1>1. CASE UNCHANGED alertsVars
  <2>1. UNCHANGED <<state, retry, due, leased, claim, content, feishuStatus, feishu, seen, stage, sent, tried,
                    failures, raced, scan, faults>>
    BY <1>1 DEF alertsVars, queueVars, rowVars, alertVars
  <2>2. QED
    BY <1>0, <2>1, PayloadRest
<1>2. ASSUME NEW i \in Items, Raise(i) PROVE AlertsTypeOK' /\ PayloadInv'
  BY <1>0, <1>2, PayloadCreate DEF Raise
<1>3. ASSUME NEW i \in Items, Time(i) PROVE AlertsTypeOK' /\ PayloadInv'
  <2>1. due' \in [Items -> BOOLEAN] /\ leased' \in [Items -> BOOLEAN]
    BY <1>0, <1>3 DEF Time, FallDue, LeaseExpire
  <2>2. UNCHANGED <<state, retry, claim, content, feishuStatus, feishu, seen, stage, sent, tried, failures, raced, scan, faults>>
    BY <1>3 DEF Time, FallDue, LeaseExpire, alertVars
  <2>3. QED
    BY <1>0, <2>1, <2>2, PayloadRest
<1>4. ASSUME NEW s \in Scanners, Snapshot(s) \/ RaiseOverdue(s) \/ ScanFails(s) PROVE AlertsTypeOK' /\ PayloadInv'
  <2>1. scan' \in [Scanners -> SUBSET HourKeys]
    BY <1>0, <1>4 DEF Snapshot, RaiseOverdue, ScanFails
  <2>2. ASSUME scan[s] # {}, CreateOpsAlert(First(scan[s])) PROVE AlertsTypeOK' /\ PayloadInv'
    <3>1. scan[s] \subseteq Items
      BY <1>0, OpsAlertsAssumption
    <3>2. scan[s] \in SUBSET Nat
      BY <3>1, LeaseQueueAssumption
    <3>3. First(scan[s]) \in Items
      BY <2>2, <3>1, <3>2, FirstIsLeast
    <3>4. QED
      BY <2>1, <2>2, <3>3, PayloadCreate
  <2>3. \/ scan[s] # {} /\ CreateOpsAlert(First(scan[s]))
        \/ /\ UNCHANGED <<state, retry, due, leased, claim, content, feishuStatus, feishu, seen, stage, sent, tried,
                          failures, raced>>
           /\ Fault \/ UNCHANGED faults
    BY <1>4 DEF Snapshot, RaiseOverdue, ScanFails, queueVars, rowVars
  <2>4. CASE /\ UNCHANGED <<state, retry, due, leased, claim, content, feishuStatus, feishu, seen, stage, sent, tried,
                            failures, raced>>
             /\ Fault \/ UNCHANGED faults
    BY <1>0, <2>1, <2>4, FaultType, PayloadRest
  <2>5. QED
    BY <2>2, <2>3, <2>4
<1>5. ASSUME NEW w \in Workers, Job(w) \/ JobFaults(w) PROVE AlertsTypeOK' /\ PayloadInv'
  BY <1>5, PayloadClaim, PayloadSend, PayloadMarks, PayloadGivesUp DEF Job, JobFaults
<1>6. CASE SwitchFeishu
  <2>1. UNCHANGED <<state, retry, due, leased, claim, content, feishuStatus, seen, stage, sent, tried,
                    failures, raced, scan, faults>> /\ feishu' \in BOOLEAN
    BY <1>0, <1>6 DEF SwitchFeishu, queueVars, rowVars
  <2>2. QED
    BY <1>0, <2>1, PayloadRest
<1>7. QED
  BY <1>1, <1>2, <1>3, <1>4, <1>5, <1>6 DEF AlertsNext

(* Ops alerts, for every set of rows, jobs and scans: a job that has claimed an alert has a payload
   to send, and what is sent or fails is a payload that was written. *)
THEOREM AlertsTypeCorrect == AlertsSpec => []AlertsTypeOK
BY PayloadInit, PayloadStep, PTL DEF AlertsSpec

(* Reports, feedback and cards, for every set of people, operators and filings. *)
THEOREM ReportsTypeCorrect == ReportsSpec => []ReportsTypeOK
<1>1. ReportsInv => ReportsTypeOK
  BY DEF ReportsInv
<1>2. QED
  BY <1>1, ReportsInvariant, PTL

=============================================================================
