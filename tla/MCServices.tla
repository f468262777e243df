----------------------------- MODULE MCServices -----------------------------
(***************************************************************************)
(* Eight components that share no state, in one run: a behaviour picks one *)
(* of them and lets the others rest, which shows the same of each as a run *)
(* of its own would.                                                       *)
(***************************************************************************)
EXTENDS OpsAlerts, Reports, PostCache, TaskServer, AIBudget, KnowledgeIndex, WechatLogin, Registration

VARIABLE component

servicesVars == <<component, alertsVars, reportVars, cacheVars, taskVars, budgetVars, knowledgeVars,
                  loginVars, registrationVars>>

InitServices ==
    /\ component \in {"alerts", "reports", "cache", "tasks", "budget", "knowledge", "logins", "signups"}
    /\ InitAlerts /\ InitReports /\ InitCache /\ InitTasks /\ InitBudget /\ InitKnowledge
    /\ InitLogins /\ InitRegistration

Alerts == component = "alerts" /\ UNCHANGED <<component, reportVars, cacheVars, taskVars, budgetVars, knowledgeVars, loginVars, registrationVars>>
Reporters == component = "reports" /\ UNCHANGED <<component, alertsVars, cacheVars, taskVars, budgetVars, knowledgeVars, loginVars, registrationVars>>
Cache == component = "cache" /\ UNCHANGED <<component, alertsVars, reportVars, taskVars, budgetVars, knowledgeVars, loginVars, registrationVars>>
Tasks == component = "tasks" /\ UNCHANGED <<component, alertsVars, reportVars, cacheVars, budgetVars, knowledgeVars, loginVars, registrationVars>>
Budget == component = "budget" /\ UNCHANGED <<component, alertsVars, reportVars, cacheVars, taskVars, knowledgeVars, loginVars, registrationVars>>
Knowledge == component = "knowledge" /\ UNCHANGED <<component, alertsVars, reportVars, cacheVars, taskVars, budgetVars, loginVars, registrationVars>>
Entrance == component = "logins" /\ UNCHANGED <<component, alertsVars, reportVars, cacheVars, taskVars, budgetVars, knowledgeVars, registrationVars>>
SignUps == component = "signups" /\ UNCHANGED <<component, alertsVars, reportVars, cacheVars, taskVars, budgetVars, knowledgeVars, loginVars>>

ServicesNext ==
    \/ Alerts /\ AlertsNext
    \/ Reporters /\ ReportsNext
    \/ Cache /\ CacheNext
    \/ Tasks /\ TasksNext
    \/ Budget /\ BudgetNext
    \/ Knowledge /\ KnowledgeNext
    \/ Entrance /\ LoginsNext
    \/ SignUps /\ RegistrationNext

(* The fairness of each component, for the one that is picked. *)
ServicesFairness ==
    /\ \A w \in Workers : WF_alertsVars(component = "alerts" /\ Job(w))
    /\ \A i \in Items : WF_alertsVars(component = "alerts" /\ Time(i))
    /\ WF_cacheVars(component = "cache" /\ Tick)
    /\ WF_cacheVars(component = "cache" /\ \E w \in Writers : Changing(w))
    /\ WF_cacheVars(component = "cache" /\ Listing(Refresher))
    /\ WF_taskVars(component = "tasks" /\ \E f \in Flushers : Persist(f))
    /\ WF_taskVars(component = "tasks" /\ \E j \in Jobs : EndJob(j))
    /\ WF_taskVars(component = "tasks" /\ LoopGoesOn)
    /\ SF_taskVars(component = "tasks" /\ LoopEnds)
    /\ WF_taskVars(component = "tasks" /\ Stopping)
    /\ WF_knowledgeVars(component = "knowledge" /\ \E o \in Editors : Finishing(o))
    /\ WF_knowledgeVars(component = "knowledge" /\ \E w \in Indexers : Indexing(w))
    /\ WF_knowledgeVars(component = "knowledge" /\ StrayRuns)

ServicesSpec == InitServices /\ [][ServicesNext]_servicesVars /\ ServicesFairness

(* Every component keeps values the code can write. *)
ServicesTypeOK ==
    /\ AlertsTypeOK /\ ReportsTypeOK /\ CacheTypeOK /\ TasksTypeOK
    /\ BudgetTypeOK /\ KnowledgeTypeOK /\ LoginsTypeOK /\ RegistrationTypeOK

(* The batch of events and the sign-ups implement what they promise: an event is written or given
   up, never both, and has a second row only where the reply of a commit was lost; an address has
   one owner. *)
ServicesImplement == IsEventLog /\ IsAddressBook

=============================================================================
