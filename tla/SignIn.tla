-------------------------------- MODULE SignIn --------------------------------
(***************************************************************************)
(* Signing in with one email address: the one-time codes mailed to it, the *)
(* customer row a login or the site's session bridge finds or creates, and *)
(* the Worker sessions they open.  Requests run beside each other, one     *)
(* database round trip per action, and may vanish between two.             *)
(***************************************************************************)
EXTENDS Naturals, FiniteSets

CONSTANTS
    Requests,       \* slots for concurrent requests
    CodesPerWindow, \* codes an address may be sent in ten minutes
    MaxSessions,    \* MAX_SESSIONS_PER_CUSTOMER
    MaxCodes, MaxAccounts, MaxMinted \* bounds on codes, customer rows, sessions

ASSUME LimitsAssumption == CodesPerWindow \in Nat \ {0} /\ MaxSessions \in Nat \ {0}
ASSUME BoundsAssumption == MaxCodes \in Nat /\ MaxAccounts \in Nat /\ MaxMinted \in Nat

VARIABLES
    issued,    \* codes issued so far, numbered in order of issue
    usable,    \* codes in auth_codes that are neither used nor expired
    counted,   \* codes the window's limit counts
    accounts,  \* customer rows created so far
    account,   \* the row that carries the address, 0 if none does
    admin,     \* customers.admin of each row
    sessions,  \* table sessions, numbered in order of creation
    minted,    \* sessions created so far
    pc, user, code, asked, held, \* each request: next step, row, code (0: the
                                 \* bridge), role it reports, own session
    logins,    \* which code opened which session (history)
    overtaken, \* requests whose row was deleted since they read it (history)
    late,      \* sessions opened by an overtaken request (history)
    lost       \* rows whose sessions a vanished request had to revoke (history)

codes    == <<issued, usable, counted>>
people   == <<accounts, account, admin>>
table    == <<sessions, minted>>
requests == <<pc, user, code, asked, held>>
history  == <<logins, overtaken, late, lost>>
vars     == <<codes, people, table, requests, history>>

Phases == {"idle", "claimed", "find", "insert", "adopt", "sync", "revoke",
           "mint", "session", "orphan"}

\* The phases in which a request acts for the row it has read.
Acting == {"sync", "revoke", "mint"}

Init ==
    /\ issued = 0 /\ usable = {} /\ counted = {}
    /\ accounts = 0 /\ account = 0
    /\ admin  = [a \in 1 .. MaxAccounts |-> FALSE]
    /\ sessions = {} /\ minted = 0
    /\ pc    = [r \in Requests |-> "idle"]
    /\ user  = [r \in Requests |-> 0]
    /\ code  = [r \in Requests |-> 0]
    /\ asked = [r \in Requests |-> FALSE]
    /\ held  = [r \in Requests |-> 0]
    /\ logins = {} /\ overtaken = {} /\ late = {} /\ lost = {}

Goto(r, from, to) == pc[r] = from /\ pc' = [pc EXCEPT ![r] = to]

End(r) ==
    /\ pc'    = [pc EXCEPT ![r] = "idle"]
    /\ user'  = [user EXCEPT ![r] = 0]
    /\ code'  = [code EXCEPT ![r] = 0]
    /\ asked' = [asked EXCEPT ![r] = FALSE]
    /\ held'  = [held EXCEPT ![r] = 0]

(***************************************************************************)
(* One-time codes.                                                         *)
(***************************************************************************)

\* Mutant of SendCode: an earlier code is not spent by the next one.
SendKeepingOlder ==
    /\ issued < MaxCodes /\ Cardinality(counted) < CodesPerWindow
    /\ issued'  = issued + 1
    /\ usable'  = usable \cup {issued + 1}
    /\ counted' = counted \cup {issued + 1}
    /\ UNCHANGED <<people, table, requests, history>>

\* One batch: spend the unused codes, then insert a new one under the limit.
\* Over the limit the first half has its effect all the same.
SendCode ==
    /\ \/ /\ Cardinality(counted) < CodesPerWindow /\ issued < MaxCodes
          /\ issued'  = issued + 1
          /\ usable'  = {issued + 1}
          /\ counted' = counted \cup {issued + 1}
       \/ /\ Cardinality(counted) >= CodesPerWindow
          /\ usable' = {}
          /\ UNCHANGED <<issued, counted>>
    /\ UNCHANGED <<people, table, requests, history>>

\* Ten minutes on.  The window is read in whole seconds, so a code may leave
\* it while it is still valid.
CodeAges(c) ==
    /\ c \in counted \cup usable
    /\ counted' = counted \ {c}
    /\ usable'  \in {usable, usable \ {c}}
    /\ UNCHANGED <<issued, people, table, requests, history>>

\* Mutant of ClaimCode: the code is only read, and spent by the next statement.
ReadCode(r, c) ==
    /\ c \in usable
    /\ Goto(r, "idle", "claimed")
    /\ code' = [code EXCEPT ![r] = c]
    /\ UNCHANGED <<codes, people, table, user, asked, held, history>>

\* UPDATE ... WHERE used = 0 ... RETURNING: a code is claimed once.
ClaimCode(r, c) ==
    /\ c \in usable
    /\ Goto(r, "idle", "claimed")
    /\ code'   = [code EXCEPT ![r] = c]
    /\ usable' = usable \ {c}
    /\ UNCHANGED <<issued, counted, people, table, user, asked, held, history>>

\* Every other code of the address, one sent meanwhile included.
InvalidateCodes(r) ==
    /\ Goto(r, "claimed", "find")
    /\ usable' = {}
    /\ UNCHANGED <<issued, counted, people, table, user, code, asked, held, history>>

(***************************************************************************)
(* The customer row.                                                       *)
(***************************************************************************)

\* The site reports the role its user has at the time of the request.
MintSiteSession(r, role) ==
    /\ Goto(r, "idle", "find")
    /\ asked' = [asked EXCEPT ![r] = role]
    /\ UNCHANGED <<codes, people, table, user, code, held, history>>

\* The SELECT by address found the row; the bridge compares its admin flag.
Found(r) ==
    /\ account # 0
    /\ user' = [user EXCEPT ![r] = account]
    /\ pc'   = [pc EXCEPT ![r] =
                  IF code[r] = 0 /\ admin[account] # asked[r] THEN "sync" ELSE "mint"]

FindCustomer(r) ==
    /\ pc[r] = "find"
    /\ \/ Found(r)
       \/ account = 0 /\ Goto(r, "find", "insert") /\ UNCHANGED user
    /\ UNCHANGED <<codes, people, table, code, asked, held, history>>

NewRow(isAdmin) ==
    /\ account = 0 /\ accounts < MaxAccounts
    /\ accounts' = accounts + 1
    /\ account'  = accounts + 1
    /\ admin'    = [admin EXCEPT ![accounts + 1] = isAdmin]

\* INSERT ... ON CONFLICT (email) DO NOTHING.
InsertCustomer(r) ==
    /\ Goto(r, "insert", "adopt")
    /\ \/ NewRow(code[r] = 0 /\ asked[r])
       \/ account # 0 /\ UNCHANGED people
    /\ UNCHANGED <<codes, table, user, code, asked, held, history>>

\* The second SELECT adopts whichever row won, or fails.
AdoptCustomer(r) ==
    /\ pc[r] = "adopt"
    /\ \/ Found(r) /\ UNCHANGED <<code, asked, held>>
       \/ account = 0 /\ End(r)
    /\ UNCHANGED <<codes, people, table, history>>

\* A payment inserts the row of an address that has none.
EnsureBillingCustomer ==
    /\ NewRow(FALSE)
    /\ UNCHANGED <<codes, table, requests, history>>

(***************************************************************************)
(* Sessions.                                                               *)
(***************************************************************************)
Of(a) == {s \in sessions : s.account = a}

\* Mutant of SyncRole: only a demotion revokes sessions.
SyncRoleDemoting(r) ==
    /\ Goto(r, "sync", IF asked[r] THEN "mint" ELSE "revoke")
    /\ admin' = [admin EXCEPT ![user[r]] = asked[r]]
    /\ UNCHANGED <<codes, accounts, account, table, user, code, asked, held, history>>

SyncRole(r) ==
    /\ Goto(r, "sync", "revoke")
    /\ admin' = [admin EXCEPT ![user[r]] = asked[r]]
    /\ UNCHANGED <<codes, accounts, account, table, user, code, asked, held, history>>

RevokeSessionsOnRoleChange(r) ==
    /\ Goto(r, "revoke", "mint")
    /\ sessions' = sessions \ Of(user[r])
    /\ UNCHANGED <<codes, people, minted, user, code, asked, held, history>>

\* A new session records the admin flag its row has at that time.
NewSession(r) ==
    [id |-> minted + 1, account |-> user[r], code |-> code[r], admin |-> admin[user[r]]]

\* Mutant of Pruned: the new session is not counted among those kept.
PrunedToo(S, a) ==
    {s \in S : \/ s.account # a
               \/ Cardinality({t \in S : t.account = a /\ t.id > s.id}) <= MaxSessions}

\* Of row a, the newest MaxSessions sessions.
Pruned(S, a) ==
    {s \in S : \/ s.account # a
               \/ Cardinality({t \in S : t.account = a /\ t.id > s.id}) < MaxSessions}

Opens(r) ==
    /\ minted < MaxMinted
    /\ minted' = minted + 1
    /\ late'   = IF r \in overtaken THEN late \cup {minted + 1} ELSE late

\* A login's batch: insert the session, then prune.
InsertAndPrune(r) ==
    /\ pc[r] = "mint" /\ code[r] # 0
    /\ Opens(r)
    /\ sessions' = Pruned(sessions \cup {NewSession(r)}, user[r])
    /\ logins'   = logins \cup {[code |-> code[r], id |-> minted + 1]}
    /\ overtaken' = overtaken \ {r}
    /\ End(r)
    /\ UNCHANGED <<codes, people, lost>>

\* The bridge's token is the same every time, so its row is only extended
\* while it exists.
UpsertSiteSession(r) ==
    /\ pc[r] = "mint" /\ code[r] = 0
    /\ \/ /\ \E s \in Of(user[r]) : s.code = 0
          /\ UNCHANGED <<table, late>>
       \/ /\ \A s \in Of(user[r]) : s.code # 0
          /\ Opens(r)
          /\ sessions' = sessions \cup {NewSession(r)}
    /\ overtaken' = overtaken \ {r}
    /\ End(r)
    /\ UNCHANGED <<codes, people, logins, lost>>

\* Validation of a bearer token; an "orphan" is a session of a deleted row,
\* whose address is gone.  (A session that expired validates no more.)
ValidateSession(r, s) ==
    /\ Goto(r, "idle", IF s.account = account THEN "session" ELSE "orphan")
    /\ user' = [user EXCEPT ![r] = s.account]
    /\ held' = [held EXCEPT ![r] = s.id]
    /\ UNCHANGED <<codes, people, table, code, asked, history>>

Logout(r) ==
    /\ pc[r] \in {"session", "orphan"}
    /\ sessions' = {s \in sessions : ~(s.id = held[r] /\ s.account = user[r])}
    /\ End(r)
    /\ UNCHANGED <<codes, people, minted, history>>

\* The dashboard revokes another session of the same row.
RevokeSession(r, s) ==
    /\ pc[r] \in {"session", "orphan"}
    /\ s.account = user[r] /\ s.id # held[r]
    /\ sessions' = sessions \ {s}
    /\ End(r)
    /\ UNCHANGED <<codes, people, minted, history>>

\* Mutant of DeleteMyData: sessions are not among the deleted tables.
DeleteKeepingSessions(r) ==
    /\ pc[r] \in {"session", "orphan"}
    /\ account'  = IF account = user[r] THEN 0 ELSE account
    /\ overtaken' = overtaken \cup {q \in Requests : pc[q] \in Acting /\ user[q] = user[r]}
    /\ End(r)
    /\ UNCHANGED <<codes, table, accounts, admin, logins, late, lost>>

\* The deletion batch: sessions, codes of the address, and the address itself.
DeleteMyData(r) ==
    /\ pc[r] \in {"session", "orphan"}
    /\ sessions' = sessions \ Of(user[r])
    /\ IF pc[r] = "session"
       THEN usable' = {} /\ counted' = {}
       ELSE UNCHANGED <<usable, counted>>
    /\ account'  = IF account = user[r] THEN 0 ELSE account
    /\ overtaken' = overtaken \cup {q \in Requests : pc[q] \in Acting /\ user[q] = user[r]}
    /\ End(r)
    /\ UNCHANGED <<issued, accounts, admin, minted, logins, late, lost>>

\* A failed round trip, a refused request, an evicted invocation.
Drop(r) ==
    /\ pc[r] # "idle"
    /\ lost' = IF pc[r] = "revoke" THEN lost \cup {user[r]} ELSE lost
    /\ overtaken' = overtaken \ {r}
    /\ End(r)
    /\ UNCHANGED <<codes, people, table, logins, late>>

Next ==
    \/ SendCode \/ EnsureBillingCustomer
    \/ \E c \in 1 .. issued : CodeAges(c)
    \/ \E r \in Requests :
        \/ \E c \in 1 .. issued : ClaimCode(r, c)
        \/ \E role \in BOOLEAN : MintSiteSession(r, role)
        \/ \E s \in sessions : ValidateSession(r, s) \/ RevokeSession(r, s)
        \/ InvalidateCodes(r) \/ FindCustomer(r) \/ InsertCustomer(r)
        \/ AdoptCustomer(r)   \/ SyncRole(r)     \/ RevokeSessionsOnRoleChange(r)
        \/ InsertAndPrune(r)  \/ UpsertSiteSession(r)
        \/ Logout(r) \/ DeleteMyData(r) \/ Drop(r)

Spec == Init /\ [][Next]_vars

-----------------------------------------------------------------------------
(***************************************************************************)
(* Properties.                                                             *)
(***************************************************************************)
Session == [id : Nat, account : Nat, code : Nat, admin : BOOLEAN]
Login   == [code : Nat, id : Nat]

\* Types of the tables, of the requests and of the history.
TypeOK ==
    /\ issued \in Nat /\ minted \in Nat
    /\ usable \subseteq 1 .. issued /\ counted \subseteq 1 .. issued
    /\ accounts \in 0 .. MaxAccounts /\ account \in 0 .. accounts
    /\ admin \in [1 .. MaxAccounts -> BOOLEAN]
    /\ sessions \subseteq Session
    /\ \A s \in sessions : s.account \in 1 .. accounts /\ s.id \in 1 .. minted
    /\ pc    \in [Requests -> Phases]
    /\ user  \in [Requests -> 0 .. accounts]
    /\ code  \in [Requests -> 0 .. issued]
    /\ asked \in [Requests -> BOOLEAN]
    /\ held  \in [Requests -> Nat]
    /\ logins \subseteq Login
    /\ overtaken \subseteq Requests /\ late \subseteq Nat /\ lost \subseteq Nat

\* A mailed code opens at most one session, however often and however
\* concurrently it is submitted, and wherever a submission is interrupted.
OneSessionPerCode == \A x, y \in logins : x.code = y.code => x = y

\* Only the code sent last can still be used: requests for codes, claims and
\* invalidations may interleave without bringing an earlier one back.
OnlyNewestCode == usable \subseteq {issued}

\* The ten-minute limit holds for concurrent requests.
WindowHeld == IsFiniteSet(counted) /\ Cardinality(counted) <= CodesPerWindow

\* Concurrent logins leave a customer no more than the permitted sessions;
\* the site's own one, which does not prune, may come on top.
SessionsCapped ==
    \A a \in 1 .. accounts :
        /\ Cardinality({s \in Of(a) : s.code # 0}) <= MaxSessions
        /\ Cardinality({s \in Of(a) : s.code = 0}) <= 1

\* A change of role ends the sessions opened before it, unless the request
\* that changed it is about to revoke them or vanished before it could.
RoleChangeRevokes ==
    \A s \in sessions :
        \/ s.admin = admin[s.account]
        \/ \E r \in Requests : pc[r] = "revoke" /\ user[r] = s.account
        \/ s.account \in lost

\* docs/operations/auth-ingestion-boundaries.md:11 "A role change received
\* through the authenticated site-session bridge revokes existing Worker
\* sessions before issuing the replacement login session": no session opened
\* under another role is older than the site's.  Does not hold: a request
\* lost between its two statements leaves the others, and the next one finds
\* the role in place.
RevokedBeforeReplaced ==
    \A s, t \in sessions :
        (s.account = t.account /\ s.id < t.id /\ t.code = 0) =>
            \/ s.admin = t.admin
            \/ \E r \in Requests : pc[r] = "revoke" /\ user[r] = s.account

\* A deleted customer has no session, except one opened by a login that had
\* read the row before the deletion.
DeletionEndsSessions ==
    \A s \in sessions : s.account = account \/ s.id \in late

\* What these rest on: a claimed code is spent and belongs to one request,
\* until a session records it; a request acts for the row of the address
\* unless a deletion overtook it.
ClaimsTracked ==
    /\ \A r \in Requests :
        /\ code[r] # 0 => /\ code[r] \notin usable
                          /\ \A x \in logins : x.code # code[r]
                          /\ \A q \in Requests : code[q] = code[r] => q = r
        /\ pc[r] \in Acting => /\ user[r] # 0
                               /\ user[r] = account \/ r \in overtaken
    /\ \A x \in logins : x.code \in 1 .. issued \ usable

SignInInv ==
    /\ TypeOK
    /\ OneSessionPerCode
    /\ OnlyNewestCode
    /\ WindowHeld
    /\ RoleChangeRevokes
    /\ DeletionEndsSessions
    /\ ClaimsTracked
=============================================================================
