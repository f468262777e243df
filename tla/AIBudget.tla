------------------------------ MODULE AIBudget ------------------------------
(***************************************************************************)
(* What the model may cost (biz/campus.go): a caller asks whether the      *)
(* logged cost of the day and of the month leave room, asks the model, and *)
(* logs the cost of the answer; then each share of the month's budget that *)
(* is used up is announced by one alert, for which a setting is the mark.  *)
(* Costs are counted in a small unit, over one month.                      *)
(***************************************************************************)
EXTENDS Integers, FiniteSets

CONSTANTS
    Askers,        \* replies, audits, previews and agent runs at one time
    DayBudget,     \* ai_daily_budget_cny
    MonthBudget,   \* ai_monthly_budget_cny
    Marks,         \* costs of the month that are announced: budget * ratio, 0 < ratio < 1, rounded up
    MaxCost,       \* the most an answer costs
    MaxAsked,      \* bound: calls
    MaxSlips       \* bound: errors and crashes

ASSUME AIBudgetAssumption ==
    /\ IsFiniteSet(Askers)
    /\ DayBudget \in Nat \ {0} /\ MonthBudget \in Nat \ {0} /\ MaxCost \in Nat
    /\ Marks \subseteq 1..MonthBudget
    /\ MaxAsked \in Nat /\ MaxSlips \in Nat

VARIABLES
    day,        \* cost logged today
    month,      \* cost logged this month
    asker,      \* what each caller is doing, the cost it has to log, marks it has to look at
    blind,      \* history: calls allowed because the sums could not be read
    announced,  \* marks whose setting is stored
    alerted,    \* marks whose alert is in the queue
    muted,      \* history: marks whose alert met the Feishu switch off
    ops,        \* feishuOpsEnabled
    asked,
    slips

costVars == <<day, month, blind>>
warnVars == <<announced, alerted, muted>>
budgetVars == <<costVars, warnVars, asker, ops, asked, slips>>

Costs == 0..MaxCost
AtRest == [at |-> "idle", cost |-> 0, marks |-> {}]
Asks(c, place) == asker[c].at = place

InitBudget ==
    /\ day = 0 /\ month = 0 /\ blind = 0
    /\ announced = {} /\ alerted = {} /\ muted = {}
    /\ asker = [c \in Askers |-> AtRest]
    /\ ops = TRUE
    /\ asked = 0 /\ slips = 0

Slip == slips < MaxSlips /\ slips' = slips + 1

(* Faulty variant: a budget counts as exceeded when both are. *)
ExceededBoth == day >= DayBudget /\ month >= MonthBudget

Exceeded == day >= DayBudget \/ month >= MonthBudget

(* aiBudgetAllowsModel, from what is logged; most callers log a refusal, without a cost. *)
Allowed == ~Exceeded

Ask(c) ==
    /\ Asks(c, "idle") /\ asked < MaxAsked /\ asked' = asked + 1
    /\ \/ Allowed /\ asker' = [asker EXCEPT ![c].at = "model"]
       \/ ~Allowed /\ asker' = [asker EXCEPT ![c].at = "log"]
       \/ ~Allowed /\ asker' = asker
    /\ UNCHANGED <<costVars, warnVars, ops, slips>>

(* The sums cannot be read: the call is allowed. *)
AskBlindly(c) ==
    /\ Asks(c, "idle") /\ asked < MaxAsked /\ asked' = asked + 1
    /\ asker' = [asker EXCEPT ![c].at = "model"]
    /\ blind' = blind + 1
    /\ Slip
    /\ UNCHANGED <<day, month, warnVars, ops>>

(* The model answers, and says what that has cost; a call that ends without an answer is
   logged without a cost. *)
Answer(c, cost) ==
    /\ Asks(c, "model")
    /\ asker' = [asker EXCEPT ![c].at = "log", ![c].cost = cost]
    /\ UNCHANGED <<costVars, warnVars, ops, asked, slips>>

(* recordAIUsage; then maybeEnqueueAIBudgetWarning, if Feishu is on, sums up the month *)
Record(c) ==
    /\ Asks(c, "log")
    /\ day' = day + asker[c].cost /\ month' = month + asker[c].cost
    /\ asker' = [asker EXCEPT ![c] = [AtRest EXCEPT !.at = "sum"]]
    /\ UNCHANGED <<blind, warnVars, ops, asked, slips>>

(* Faulty variant: a mark that is met exactly is not used up. *)
UsedBeyond == {t \in Marks : month > t}

Used == {t \in Marks : month >= t}

Sum(c) ==
    /\ Asks(c, "sum")
    /\ IF ops
       THEN asker' = [asker EXCEPT ![c].at = "warn", ![c].marks = Used] /\ muted' = muted
       ELSE asker' = [asker EXCEPT ![c] = AtRest] /\ muted' = muted \union Used
    /\ UNCHANGED <<costVars, announced, alerted, ops, asked, slips>>

(* and looks at one mark after the other, whether its setting is stored. *)
MarkOf(c) == CHOOSE t \in asker[c].marks : \A u \in asker[c].marks : t <= u

Skip(c) ==
    /\ Asks(c, "warn") /\ asker[c].marks # {} /\ MarkOf(c) \in announced
    /\ asker' = [asker EXCEPT ![c].marks = @ \ {MarkOf(c)}]
    /\ UNCHANGED <<costVars, warnVars, ops, asked, slips>>

(* enqueueOpsAlert looks at the switch again, and says nothing if it is off. *)
Warn(c) ==
    /\ Asks(c, "warn") /\ asker[c].marks # {} /\ MarkOf(c) \notin announced
    /\ IF ops THEN alerted' = alerted \union {MarkOf(c)} /\ muted' = muted
              ELSE alerted' = alerted /\ muted' = muted \union {MarkOf(c)}
    /\ asker' = [asker EXCEPT ![c].at = "set"]
    /\ UNCHANGED <<costVars, announced, ops, asked, slips>>

(* Its error leaves the mark to the next call. *)
WarnFails(c) ==
    /\ Asks(c, "warn") /\ asker[c].marks # {} /\ MarkOf(c) \notin announced
    /\ asker' = [asker EXCEPT ![c].marks = @ \ {MarkOf(c)}]
    /\ Slip
    /\ UNCHANGED <<costVars, warnVars, ops, asked>>

(* SetOpsSetting, whose error is ignored. *)
Announce(c) ==
    /\ Asks(c, "set")
    /\ \/ announced' = announced \union {MarkOf(c)} /\ UNCHANGED slips
       \/ announced' = announced /\ Slip
    /\ asker' = [asker EXCEPT ![c].at = "warn", ![c].marks = @ \ {MarkOf(c)}]
    /\ UNCHANGED <<costVars, alerted, muted, ops, asked>>

Done(c) ==
    /\ Asks(c, "warn") /\ asker[c].marks = {}
    /\ asker' = [asker EXCEPT ![c] = AtRest]
    /\ UNCHANGED <<costVars, warnVars, ops, asked, slips>>

(* An error of the log or of the sum, or a crash. *)
AskerFails(c) ==
    /\ ~Asks(c, "idle")
    /\ asker' = [asker EXCEPT ![c] = AtRest]
    /\ Slip
    /\ UNCHANGED <<costVars, warnVars, ops, asked>>

NewDay == day > 0 /\ day' = 0 /\ UNCHANGED <<month, blind, warnVars, asker, ops, asked, slips>>

SwitchOps == ops' = ~ops /\ UNCHANGED <<costVars, warnVars, asker, asked, slips>>

Asking(c) ==
    \/ Ask(c) \/ AskBlindly(c) \/ Record(c) \/ Sum(c)
    \/ \E cost \in Costs : Answer(c, cost)
    \/ Skip(c) \/ Warn(c) \/ WarnFails(c) \/ Announce(c) \/ Done(c) \/ AskerFails(c)

BudgetNext == (\E c \in Askers : Asking(c)) \/ NewDay \/ SwitchOps

BudgetSpec == InitBudget /\ [][BudgetNext]_budgetVars

-----------------------------------------------------------------------------
(* Callers and sums hold values the code can write. *)
BudgetTypeOK ==
    /\ day \in Nat /\ month \in Nat /\ blind \in Nat
    /\ announced \subseteq Marks /\ alerted \subseteq Marks /\ muted \subseteq Marks
    /\ asker \in [Askers -> [at : {"idle", "model", "log", "sum", "warn", "set"}, cost : Costs, marks : SUBSET Marks]]
    /\ ops \in BOOLEAN
    /\ asked \in 0..MaxAsked /\ slips \in 0..MaxSlips

(* The budget is checked before a call and charged after it: it is overrun by no more than one
   answer for each call that may run at the same time, and for each that was allowed blindly. *)
OverspendIsBounded ==
    LET over == (Cardinality(Askers) + blind) * MaxCost
    IN  day < DayBudget + over /\ month < MonthBudget + over

(* No mark counts as announced without an alert, and none is reached without one although
   callers race for it, unless the alert met the switch off, or an error. *)
WarningsAreGiven ==
    /\ announced \subseteq alerted \union muted
    /\ slips = 0 => \A t \in Marks : month >= t =>
           \/ t \in alerted \union muted
           \/ \E c \in Askers : Asks(c, "sum") \/ t \in asker[c].marks

=============================================================================
