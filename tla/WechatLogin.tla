---------------------------- MODULE WechatLogin ----------------------------
(***************************************************************************)
(* The logins of one WeChat identity (WechatLogin, ensureProfile). A first *)
(* login registers an account under an address made from the open_id,      *)
(* creates a user for it and stores the identity, each in a call of its    *)
(* own to another service; later ones go by the identity. Every row it     *)
(* names is of this open_id, so one identity stands for all of them.       *)
(***************************************************************************)
EXTENDS Integers

CONSTANTS
    Logins,        \* logins under way at one time
    MaxSecrets,    \* bound: values of the auth secret, which makes the account's password
    MaxEntries,    \* bound: logins in all
    MaxLapses      \* bound: errors, lost replies and crashes

ASSUME WechatLoginAssumption ==
    MaxSecrets \in Nat \ {0} /\ MaxEntries \in Nat /\ MaxLapses \in Nat

VARIABLES
    password,    \* the secret the account's password was made with, 0 if there is no account
    users,       \* user rows of the account: `user.account_id` is not unique
    identity,    \* user_id of the campus_wechat_identity row, 0 if there is none
    profile,     \* user_id of the campus_profile row with this open_id, 0 if there is none
    secret,      \* the auth secret replicas start with
    login,       \* where each login is, its user and secret, whether a call of its own failed
    given,       \* history: users that tokens were made for
    overlapped,  \* history: a first login began while another was under way
    entries,
    lapses

accountVars == <<password, users, identity, profile>>
boundVars == <<secret, entries, lapses>>
loginVars == <<accountVars, boundVars, login, given, overlapped>>

UserIds == 1..MaxEntries
NoLogin == [at |-> "out", user |-> 0, secret |-> 1, hurt |-> TRUE]
Stands(l, place) == login[l].at = place
Moves(l, place) == login' = [login EXCEPT ![l].at = place]
Lapse == lapses < MaxLapses /\ lapses' = lapses + 1

(* Steps of a first login that has found no identity and stored none. *)
FirstSteps == {"register", "check", "find", "lookup", "create", "save"}
IsFirst(l) == login[l].at \in FirstSteps

InitLogins ==
    /\ password = 0 /\ users = {} /\ identity = 0 /\ profile = 0
    /\ secret = 1
    /\ login = [l \in Logins |-> NoLogin]
    /\ given = {} /\ overlapped = FALSE
    /\ entries = 0 /\ lapses = 0

(* GetWechatIdentity *)
Enter(l) ==
    /\ login[l].at \in {"in", "out"} /\ entries < MaxEntries
    /\ entries' = entries + 1
    /\ login' = [login EXCEPT ![l] = [at |-> IF identity = 0 THEN "register" ELSE "load",
                                      user |-> identity, secret |-> secret, hurt |-> FALSE]]
    /\ overlapped' = (overlapped \/ (identity = 0 /\ \E k \in Logins \ {l} : IsFirst(k)))
    /\ UNCHANGED <<accountVars, secret, lapses, given>>

(* The unique address lets one Register through; who meets the account logs in to it. *)
RegisterWechat(l) ==
    /\ Stands(l, "register")
    /\ password' = IF password = 0 THEN login[l].secret ELSE password
    /\ Moves(l, IF password = 0 THEN "lookup" ELSE "check")
    /\ UNCHANGED <<users, identity, profile, boundVars, given, overlapped>>

(* Its error, or the loss of its reply, says the same. *)
RegisterFails(l) ==
    /\ Stands(l, "register")
    /\ password' \in {password, IF password = 0 THEN login[l].secret ELSE password}
    /\ login' = [login EXCEPT ![l].at = "check", ![l].hurt = TRUE]
    /\ Lapse
    /\ UNCHANGED <<users, identity, profile, secret, entries, given, overlapped>>

(* Faulty variant: an account whose password is of an older secret is not looked for. *)
CheckOnly(l) ==
    /\ Stands(l, "check")
    /\ Moves(l, IF password = login[l].secret THEN "lookup" ELSE "out")
    /\ UNCHANGED <<accountVars, boundVars, given, overlapped>>

Check(l) ==
    /\ Stands(l, "check")
    /\ Moves(l, IF password = login[l].secret THEN "lookup" ELSE "find")
    /\ UNCHANGED <<accountVars, boundVars, given, overlapped>>

CheckFails(l) ==
    /\ Stands(l, "check")
    /\ login' = [login EXCEPT ![l].at = "find", ![l].hurt = TRUE]
    /\ Lapse
    /\ UNCHANGED <<accountVars, secret, entries, given, overlapped>>

(* GetAccountIDByEmail *)
Find(l) ==
    /\ Stands(l, "find")
    /\ Moves(l, IF password # 0 THEN "lookup" ELSE "out")
    /\ UNCHANGED <<accountVars, boundVars, given, overlapped>>

(* GetUserByAccountId takes the first by primary key. *)
FirstUser == CHOOSE u \in users : \A v \in users : u <= v

LookUp(l) ==
    /\ Stands(l, "lookup")
    /\ login' = [login EXCEPT ![l].at = IF users = {} THEN "create" ELSE "save",
                              ![l].user = IF users = {} THEN 0 ELSE FirstUser]
    /\ UNCHANGED <<accountVars, boundVars, given, overlapped>>

(* An error counts as no user. *)
LookUpFails(l) ==
    /\ Stands(l, "lookup")
    /\ login' = [login EXCEPT ![l].at = "create", ![l].hurt = TRUE]
    /\ Lapse
    /\ UNCHANGED <<accountVars, secret, entries, given, overlapped>>

AddUser(l) ==
    /\ Stands(l, "create")
    /\ \E u \in UserIds \ users :
           /\ users' = users \union {u}
           /\ login' = [login EXCEPT ![l].at = "save", ![l].user = u]
    /\ UNCHANGED <<password, identity, profile, boundVars, given, overlapped>>

(* SaveWechatIdentity is an upsert by open_id: the last one stays. *)
SaveIdentity(l) ==
    /\ Stands(l, "save")
    /\ identity' = login[l].user
    /\ Moves(l, "load")
    /\ UNCHANGED <<password, users, profile, boundVars, given, overlapped>>

(* GetUserBaseInfo by the user's id *)
LoadUser(l) == Stands(l, "load") /\ Moves(l, "profile") /\ UNCHANGED <<accountVars, boundVars, given, overlapped>>

ReadProfile(l) ==
    /\ Stands(l, "profile")
    /\ Moves(l, IF profile = login[l].user THEN "in" ELSE "keep")
    /\ given' = IF profile = login[l].user THEN given \union {login[l].user} ELSE given
    /\ UNCHANGED <<accountVars, boundVars, overlapped>>

(* SaveProfile: the upsert meets the row of the open_id too, and leaves that row to its user. *)
KeptProfile(l) == IF profile = 0 THEN login[l].user ELSE profile

KeepProfile(l) ==
    /\ Stands(l, "keep")
    /\ profile' = KeptProfile(l)
    /\ given' = given \union {login[l].user}
    /\ Moves(l, "in")
    /\ UNCHANGED <<password, users, identity, boundVars, overlapped>>

(* Every other error is returned, and a replica may die: what the call wrote may be there. *)
LoginFails(l) ==
    /\ login[l].at \notin {"in", "out"}
    /\ login' = [login EXCEPT ![l].at = "out", ![l].hurt = TRUE]
    /\ Lapse
    /\ password' \in {password} \union IF Stands(l, "register") /\ password = 0 THEN {login[l].secret} ELSE {}
    /\ users' \in {users} \union IF Stands(l, "create") THEN {users \union {u} : u \in UserIds \ users} ELSE {}
    /\ identity' \in {identity} \union IF Stands(l, "save") THEN {login[l].user} ELSE {}
    /\ profile' \in {profile} \union IF Stands(l, "keep") THEN {KeptProfile(l)} ELSE {}
    /\ UNCHANGED <<secret, entries, given, overlapped>>

(* The secret is changed, and replicas start with the new one. *)
Rotate == secret < MaxSecrets /\ secret' = secret + 1
          /\ UNCHANGED <<accountVars, login, given, overlapped, entries, lapses>>

LoggingIn(l) ==
    \/ Enter(l)
    \/ RegisterWechat(l) \/ RegisterFails(l)
    \/ Check(l) \/ CheckFails(l) \/ Find(l)
    \/ LookUp(l) \/ LookUpFails(l) \/ AddUser(l)
    \/ SaveIdentity(l) \/ LoadUser(l)
    \/ ReadProfile(l) \/ KeepProfile(l)
    \/ LoginFails(l)

LoginsNext == (\E l \in Logins : LoggingIn(l)) \/ Rotate

LoginsSpec == InitLogins /\ [][LoginsNext]_loginVars

-----------------------------------------------------------------------------
(* Rows and logins hold values the code can write. *)
LoginsTypeOK ==
    /\ password \in 0..MaxSecrets /\ secret \in 1..MaxSecrets
    /\ users \subseteq UserIds /\ given \subseteq UserIds
    /\ identity \in {0} \union UserIds /\ profile \in {0} \union UserIds
    /\ login \in [Logins -> [at : FirstSteps \union {"load", "profile", "keep", "in", "out"},
                             user : {0} \union UserIds, secret : 1..MaxSecrets, hurt : BOOLEAN]]
    /\ overlapped \in BOOLEAN
    /\ entries \in 0..MaxEntries /\ lapses \in 0..MaxLapses

(* Tokens are for users of the one account, and for the user that the identity and the profile
   name unless first logins overlapped. *)
LoginsAgree ==
    /\ given \subseteq users
    /\ overlapped \/ given \subseteq {identity} \intersect {profile}

(* A login that ends without a token has met an error of its own. *)
LoginsRecover == \A l \in Logins : Stands(l, "out") => login[l].hurt

(* Whatever calls fail and whenever a replica dies, logins one after the other reach one user with
   one profile; and nothing an earlier login left behind, under an older secret even, refuses a
   later one. *)
LoginsHold == LoginsAgree /\ LoginsRecover

=============================================================================
