------------------------------ MODULE Reports ------------------------------
(***************************************************************************)
(* Reports of one piece of content (a post or a comment; biz/campus.go,    *)
(* data/campus.go).  A user files a report, and again; each filing raises  *)
(* the alert of the report, a card with two one-use tokens: take the       *)
(* content down, or dismiss.  A click settles every pending report of the  *)
(* content and tells the reporters by notices, one per reporter and        *)
(* outcome (dedupe key).  Operators also settle reports one by one.  What  *)
(* happens to an alert between its insert and the group is OpsAlerts:      *)
(* here a card may be clicked any time after it was raised.                *)
(***************************************************************************)
EXTENDS Integers, FiniteSets

CONSTANTS
    Filers,       \* users who report the content: one row each
    MaxFilings,   \* bound: filings in all
    Callers,      \* requests of operators
    MaxCalls,     \* bound: how many of them
    MaxMishaps    \* bound: errors and crashes

ASSUME ReportsAssumption == MaxFilings \in Nat \ {0} /\ MaxCalls \in Nat /\ MaxMishaps \in Nat

VARIABLES
    report,   \* status of each report
    last,     \* filings so far, which number them
    filing,   \* the latest filing of each report, 0 for none
    raised,   \* filings whose alert, a card with its tokens, was raised
    req,      \* what ReportContent is doing for its reporter
    gone,     \* the content is a post that is deleted: GetAnyPostByID does not find it
    spent,    \* tokens used: <<report, filing, act>>
    call,     \* what each request of an operator is doing
    told,     \* outcomes whose notice to the reporter is in the outbox
    had,      \* history: outcomes each report has had
    unheard,  \* history: settled by a call that had not listed it or died
    crossed,  \* history: listed by a call that found it settled by another
    wasted,   \* history: filings <<r, f>> with a token spent by a call that died, or on a post that is gone
    calls,
    mishaps

filingVars == <<last, filing, raised, req>>
tellingVars == <<told, had, unheard, crossed>>
reportVars == <<report, filingVars, gone, spent, call, tellingVars, wasted, calls, mishaps>>

Filings == 1..MaxFilings
Acts == {"delete_reported", "dismiss_report"}
Outcomes == {"handled", "dismissed"}
Outcome(a) == IF a = "delete_reported" THEN "handled" ELSE "dismissed"

Idle == [at |-> "idle", outcome |-> "handled", list |-> {}, card |-> {}]
At(c, place) == call[c].at = place
Pending == {r \in Filers : report[r] = "pending"}

InitReports ==
    /\ report = [r \in Filers |-> "none"]
    /\ last = 0 /\ filing = [r \in Filers |-> 0]
    /\ raised = [r \in Filers |-> {}]
    /\ req = [r \in Filers |-> "idle"]
    /\ gone = FALSE
    /\ spent = {}
    /\ call = [c \in Callers |-> Idle]
    /\ told = [r \in Filers |-> {}]
    /\ had = [r \in Filers |-> {}]
    /\ unheard = {} /\ crossed = {} /\ wasted = {}
    /\ calls = 0 /\ mishaps = 0

Call == calls < MaxCalls /\ calls' = calls + 1
Mishap == mishaps < MaxMishaps /\ mishaps' = mishaps + 1

(* ReportContent: the content was there when it was looked up, whatever it is by now; the
   report is inserted or, ON CONFLICT, made pending again, *)
Store(r) ==
    /\ req[r] = "idle" /\ last < MaxFilings
    /\ last' = last + 1
    /\ report' = [report EXCEPT ![r] = "pending"]
    /\ filing' = [filing EXCEPT ![r] = last + 1]
    /\ req' = [req EXCEPT ![r] = "stored"]
    /\ unheard' = unheard \ {r}
    /\ UNCHANGED <<raised, gone, spent, call, told, had, crossed, wasted, calls, mishaps>>

(* and its alert raised with two new tokens, if Feishu is to have reports. *)
RaiseReport(r) ==
    /\ req[r] = "stored"
    /\ \E cards \in SUBSET {filing[r]} : raised' = [raised EXCEPT ![r] = @ \union cards]
    /\ req' = [req EXCEPT ![r] = "idle"]
    /\ UNCHANGED <<report, last, filing, gone, spent, call, tellingVars, wasted, calls, mishaps>>

(* The end of the process. *)
DropRequest(r) ==
    /\ req[r] # "idle"
    /\ req' = [req EXCEPT ![r] = "idle"]
    /\ Mishap
    /\ UNCHANGED <<report, last, filing, raised, gone, spent, call, tellingVars, wasted, calls>>

(* HandleFeishuCardAction: a token is spent before anything else (UseOpsActionToken), *)
Click(c, r, f, a) ==
    /\ At(c, "idle") /\ Call
    /\ f \in raised[r] /\ <<r, f, a>> \notin spent
    /\ spent' = spent \union {<<r, f, a>>}
    /\ call' = [call EXCEPT ![c] = [at |-> "act", outcome |-> Outcome(a), list |-> {}, card |-> {<<r, f>>}]]
    /\ UNCHANGED <<report, filingVars, gone, tellingVars, wasted, mishaps>>

(* then the content is taken down, or left as it is, *)
Act(c) ==
    /\ At(c, "act") /\ ~gone
    /\ gone' = (call[c].outcome = "handled")
    /\ call' = [call EXCEPT ![c].at = "list"]
    /\ UNCHANGED <<report, filingVars, spent, tellingVars, wasted, calls, mishaps>>

(* unless it is not found: the branch that would settle the reports of a deleted post is
   not reached. *)
ActOnNothing(c) ==
    /\ At(c, "act") /\ gone
    /\ wasted' = wasted \union call[c].card
    /\ call' = [call EXCEPT ![c] = Idle]
    /\ UNCHANGED <<report, filingVars, gone, spent, tellingVars, calls, mishaps>>

(* the pending reports are listed; an error of the list is only logged, *)
ListPending(c) ==
    /\ At(c, "list")
    /\ \/ call' = [call EXCEPT ![c].at = "settle", ![c].list = Pending] /\ UNCHANGED mishaps
       \/ call' = [call EXCEPT ![c].at = "settle"] /\ Mishap
    /\ UNCHANGED <<report, filingVars, gone, spent, tellingVars, wasted, calls>>

(* Faulty variant: only the listed ones are settled. *)
SettledAsListed(c) == call[c].list \intersect Pending

(* all that are pending by now are settled by one statement, *)
Settled(c) == Pending

Settle(c) ==
    /\ At(c, "settle")
    /\ LET S == Settled(c)
           o == call[c].outcome
       IN  /\ report' = [r \in Filers |-> IF r \in S THEN o ELSE report[r]]
           /\ had' = [r \in Filers |-> IF r \in S THEN had[r] \union {o} ELSE had[r]]
           /\ unheard' = unheard \union (S \ call[c].list)
           /\ crossed' = crossed \union (call[c].list \ S)
    /\ call' = [call EXCEPT ![c].at = "tell", ![c].card = {}]
    /\ UNCHANGED <<filingVars, gone, spent, told, wasted, calls, mishaps>>

(* Faulty variant: a key without the reporter, so that one of them is told. *)
TellsOne(c, S) ==
    told' = [r \in Filers |-> IF S # {} /\ r = CHOOSE x \in S : TRUE THEN told[r] \union {call[c].outcome} ELSE told[r]]

(* and those listed are told: a notice whose key is there already is dropped. *)
Tells(c, S) == told' = [r \in Filers |-> IF r \in S THEN told[r] \union {call[c].outcome} ELSE told[r]]

Tell(c) ==
    /\ At(c, "tell")
    /\ Tells(c, call[c].list)
    /\ unheard' = unheard \ {r \in call[c].list : report[r] = call[c].outcome}
    /\ call' = [call EXCEPT ![c] = Idle]
    /\ UNCHANGED <<report, filingVars, gone, spent, had, crossed, wasted, calls, mishaps>>

(* AdminReviewReport: one report, whatever its status, and its notice. *)
Review(c, r, o) ==
    /\ At(c, "idle") /\ Call /\ report[r] # "none"
    /\ report' = [report EXCEPT ![r] = o]
    /\ had' = [had EXCEPT ![r] = @ \union {o}]
    /\ call' = [call EXCEPT ![c] = [at |-> "tell", outcome |-> o, list |-> {r}, card |-> {}]]
    /\ UNCHANGED <<filingVars, gone, spent, told, unheard, crossed, wasted, mishaps>>

(* An error or a crash between two calls; some of the notices may be out. *)
CallDies(c) ==
    /\ ~At(c, "idle")
    /\ \E out \in SUBSET call[c].list :
           /\ At(c, "tell") \/ out = {}
           /\ Tells(c, out)
           /\ unheard' = unheard \union IF At(c, "tell") THEN call[c].list \ out ELSE {}
    /\ wasted' = wasted \union call[c].card
    /\ call' = [call EXCEPT ![c] = Idle]
    /\ Mishap
    /\ UNCHANGED <<report, filingVars, gone, spent, had, crossed, calls>>

(* ReviewContent, DeletePost and the other ways content goes and comes back. *)
Moderate ==
    /\ gone' = ~gone
    /\ UNCHANGED <<report, filingVars, spent, call, tellingVars, wasted, calls, mishaps>>

Reporting(r) == Store(r) \/ RaiseReport(r) \/ DropRequest(r)

Answering(c) ==
    \/ \E r \in Filers, f \in Filings, a \in Acts : Click(c, r, f, a)
    \/ \E r \in Filers, o \in Outcomes : Review(c, r, o)
    \/ Act(c) \/ ActOnNothing(c) \/ ListPending(c) \/ Settle(c) \/ Tell(c) \/ CallDies(c)

ReportsNext ==
    \/ \E r \in Filers : Reporting(r)
    \/ \E c \in Callers : Answering(c)
    \/ Moderate

ReportsSpec == InitReports /\ [][ReportsNext]_reportVars

-----------------------------------------------------------------------------
CallType ==
    [at : {"idle", "act", "list", "settle", "tell"}, outcome : Outcomes,
     list : SUBSET Filers, card : SUBSET (Filers \X Filings)]

(* Reports and requests hold values the code can write. *)
ReportsTypeOK ==
    /\ report \in [Filers -> {"none", "pending"} \union Outcomes]
    /\ last \in 0..MaxFilings /\ filing \in [Filers -> 0..last]
    /\ raised \in [Filers -> SUBSET Filings]
    /\ req \in [Filers -> {"idle", "stored"}]
    /\ gone \in BOOLEAN
    /\ spent \subseteq Filers \X Filings \X Acts
    /\ call \in [Callers -> CallType]
    /\ told \in [Filers -> SUBSET Outcomes]
    /\ had \in [Filers -> SUBSET Outcomes]
    /\ unheard \subseteq Filers /\ crossed \subseteq Filers
    /\ wasted \subseteq Filers \X Filings
    /\ calls \in 0..MaxCalls /\ mishaps \in 0..MaxMishaps

(* A settled report has the notice of its outcome in the outbox, or a request is about to
   write it, unless it was filed between the list and the update of a card's click, or that click
   died; and no reporter is told of an outcome the report never had, unless
   two clicks crossed. *)
ReportersAreTold ==
    \A r \in Filers :
        /\ report[r] \in Outcomes =>
               \/ report[r] \in told[r] \/ r \in unheard
               \/ \E c \in Callers : At(c, "tell") /\ r \in call[c].list /\ call[c].outcome = report[r]
        /\ told[r] \subseteq had[r] \/ r \in crossed

(* A token is spent before anything is done: the filing on whose card it was is settled
   nevertheless, or being settled, unless the click died on the way or found its post deleted. *)
SpentTokensSettle ==
    \A r \in Filers, f \in Filings, a \in Acts : <<r, f, a>> \in spent =>
        \/ report[r] # "pending" \/ filing[r] > f
        \/ <<r, f>> \in wasted
        \/ \E c \in Callers : <<r, f>> \in call[c].card

=============================================================================
