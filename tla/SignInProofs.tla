----------------------------- MODULE SignInProofs -----------------------------
(***************************************************************************)
(* Proofs about SignIn for every number of concurrent requests, of codes,  *)
(* of customer rows and of sessions, and every limit on codes and sessions.*)
(***************************************************************************)
EXTENDS SignIn, FiniteSetTheorems, WellFoundedInduction, TLAPS

\* A request that ends is idle and holds nothing.
LEMMA EndTypes ==
    ASSUME TypeOK, NEW r \in Requests, End(r)
    PROVE  /\ pc'    \in [Requests -> Phases]
           /\ user'  \in [Requests -> 0 .. accounts]
           /\ code'  \in [Requests -> 0 .. issued]
           /\ asked' \in [Requests -> BOOLEAN]
           /\ held'  \in [Requests -> Nat]
BY DEF TypeOK, End, Phases

\* A request that acts for a row has read one, which has an admin flag.
LEMMA ActingForRow ==
    ASSUME SignInInv, NEW r \in Requests, pc[r] \in Acting
    PROVE  user[r] \in 1 .. accounts /\ user[r] \in Nat /\ admin[user[r]] \in BOOLEAN
BY BoundsAssumption DEF SignInInv, TypeOK, ClaimsTracked

\* The session such a request opens.
LEMMA NewSessionTyped ==
    ASSUME SignInInv, NEW r \in Requests, pc[r] \in Acting
    PROVE  /\ NewSession(r) \in Session
           /\ NewSession(r).account \in 1 .. accounts
           /\ NewSession(r).id \in 1 .. minted + 1
<1>1. minted + 1 \in Nat /\ minted + 1 \in 1 .. minted + 1 /\ code[r] \in Nat
  BY DEF SignInInv, TypeOK
<1>2. QED
  BY <1>1, ActingForRow DEF NewSession, Session

\* A new row takes no session and no admin flag from another.
LEMMA NewRowKeepsFlags ==
    ASSUME SignInInv, NEW isAdmin \in BOOLEAN, NewRow(isAdmin) \/ UNCHANGED people
    PROVE  \A s \in sessions : admin'[s.account] = admin[s.account]
BY BoundsAssumption DEF SignInInv, TypeOK, NewRow, people

\* Every variable keeps its type.
LEMMA TypeStep == SignInInv /\ [Next]_vars => TypeOK'
<1> SUFFICES ASSUME SignInInv, [Next]_vars PROVE TypeOK'
  OBVIOUS
<1> USE LimitsAssumption, BoundsAssumption
<1> USE DEF SignInInv, TypeOK, Session, Login, Phases, codes, people, table, requests, history
<1>1. ASSUME SendCode PROVE TypeOK'
  <2>1. issued' \in Nat /\ issued' >= issued
    BY <1>1 DEF SendCode
  <2>2. usable' \subseteq 1 .. issued' /\ counted' \subseteq 1 .. issued'
    <3>1. 1 .. issued \subseteq 1 .. issued' /\ issued + 1 \in Nat
      BY <2>1
    <3>2. CASE issued' = issued + 1 /\ usable' = {issued + 1}
               /\ counted' = counted \cup {issued + 1}
      <4>1. issued + 1 \in 1 .. issued'
        BY <3>2
      <4>2. QED
        BY <3>1, <3>2, <4>1
    <3>3. CASE usable' = {} /\ counted' = counted
      BY <3>1, <3>3
    <3>4. QED
      BY <1>1, <3>2, <3>3 DEF SendCode
  <2>3. code' \in [Requests -> 0 .. issued']
    BY <1>1, <2>1 DEF SendCode
  <2>4. QED
    BY <1>1, <2>1, <2>2, <2>3 DEF SendCode
<1>2. ASSUME EnsureBillingCustomer PROVE TypeOK'
  BY <1>2 DEF EnsureBillingCustomer, NewRow
<1>3. ASSUME NEW c \in 1 .. issued, CodeAges(c) PROVE TypeOK'
  BY <1>3 DEF CodeAges
<1>4. ASSUME NEW r \in Requests, NEW c \in 1 .. issued, ClaimCode(r, c) PROVE TypeOK'
  BY <1>4 DEF ClaimCode, Goto
<1>5. ASSUME NEW r \in Requests, NEW role \in BOOLEAN, MintSiteSession(r, role)
      PROVE  TypeOK'
  BY <1>5 DEF MintSiteSession, Goto
<1>6. ASSUME NEW r \in Requests, NEW s \in sessions, ValidateSession(r, s) PROVE TypeOK'
  BY <1>6 DEF ValidateSession, Goto
<1>7. ASSUME NEW r \in Requests, NEW s \in sessions, RevokeSession(r, s) PROVE TypeOK'
  BY <1>7 DEF RevokeSession, End
<1>8. ASSUME NEW r \in Requests, InvalidateCodes(r) PROVE TypeOK'
  BY <1>8 DEF InvalidateCodes, Goto
<1>9. ASSUME NEW r \in Requests, FindCustomer(r) PROVE TypeOK'
  BY <1>9 DEF FindCustomer, Found, Goto
<1>10. ASSUME NEW r \in Requests, InsertCustomer(r) PROVE TypeOK'
  <2>1. pc' \in [Requests -> Phases]
    BY <1>10 DEF InsertCustomer, Goto
  <2>2. CASE NewRow(code[r] = 0 /\ asked[r])
    <3>1. accounts' \in 0 .. MaxAccounts /\ accounts' >= accounts /\ account' \in 0 .. accounts'
      BY <2>2 DEF NewRow
    <3>2. admin' \in [1 .. MaxAccounts -> BOOLEAN]
      BY <2>2 DEF NewRow
    <3>3. user' \in [Requests -> 0 .. accounts']
      BY <1>10, <3>1 DEF InsertCustomer
    <3>4. QED
      BY <1>10, <2>1, <3>1, <3>2, <3>3 DEF InsertCustomer
  <2>3. CASE UNCHANGED people
    BY <1>10, <2>1, <2>3 DEF InsertCustomer
  <2>4. QED
    BY <1>10, <2>2, <2>3 DEF InsertCustomer
<1>11. ASSUME NEW r \in Requests, AdoptCustomer(r) PROVE TypeOK'
  <2>1. CASE Found(r)
    <3>1. pc' \in [Requests -> Phases] /\ user' \in [Requests -> 0 .. accounts]
      BY <2>1 DEF Found
    <3>2. CASE UNCHANGED <<code, asked, held>>
      BY <1>11, <3>1, <3>2 DEF AdoptCustomer
    <3>3. CASE End(r)
      BY <1>11, <3>3, EndTypes DEF AdoptCustomer
    <3>4. QED
      BY <1>11, <2>1, <3>2, <3>3 DEF AdoptCustomer, Found
  <2>2. CASE End(r)
    BY <1>11, <2>2, EndTypes DEF AdoptCustomer
  <2>3. QED
    BY <1>11, <2>1, <2>2 DEF AdoptCustomer
<1>12. ASSUME NEW r \in Requests, SyncRole(r) PROVE TypeOK'
  BY <1>12 DEF SyncRole, Goto
<1>13. ASSUME NEW r \in Requests, RevokeSessionsOnRoleChange(r) PROVE TypeOK'
  BY <1>13 DEF RevokeSessionsOnRoleChange, Of, Goto
<1>14. ASSUME NEW r \in Requests, InsertAndPrune(r) PROVE TypeOK'
  <2>1. minted' \in Nat /\ minted' = minted + 1 /\ late' \subseteq Nat
    BY <1>14 DEF InsertAndPrune, Opens
  <2>2. sessions' \subseteq sessions \cup {NewSession(r)}
    BY <1>14 DEF InsertAndPrune, Pruned
  <2>3. /\ NewSession(r) \in Session
        /\ NewSession(r).account \in 1 .. accounts /\ NewSession(r).id \in 1 .. minted'
    BY <1>14, <2>1, NewSessionTyped DEF InsertAndPrune, Acting
  <2>4. \A s \in sessions : s.id \in 1 .. minted'
    BY <2>1
  <2>5. sessions' \subseteq Session
        /\ \A s \in sessions' : s.account \in 1 .. accounts /\ s.id \in 1 .. minted'
    BY <2>2, <2>3, <2>4
  <2>6. logins' \subseteq Login
    BY <1>14 DEF InsertAndPrune
  <2>7. QED
    BY <1>14, <2>1, <2>5, <2>6, EndTypes DEF InsertAndPrune
<1>15. ASSUME NEW r \in Requests, UpsertSiteSession(r) PROVE TypeOK'
  <2>1. CASE UNCHANGED <<table, late>>
    BY <1>15, <2>1, EndTypes DEF UpsertSiteSession
  <2>2. CASE Opens(r) /\ sessions' = sessions \cup {NewSession(r)}
    <3>1. minted' \in Nat /\ minted' = minted + 1 /\ late' \subseteq Nat
      BY <2>2 DEF Opens
    <3>2. /\ NewSession(r) \in Session
          /\ NewSession(r).account \in 1 .. accounts /\ NewSession(r).id \in 1 .. minted'
      BY <1>15, <3>1, NewSessionTyped DEF UpsertSiteSession, Acting
    <3>3. sessions' \subseteq Session
          /\ \A s \in sessions' : s.account \in 1 .. accounts /\ s.id \in 1 .. minted'
      <4>1. \A s \in sessions : s.id \in 1 .. minted'
        BY <3>1
      <4>2. QED
        BY <2>2, <3>2, <4>1
    <3>4. QED
      BY <1>15, <3>1, <3>3, EndTypes DEF UpsertSiteSession
  <2>3. QED
    BY <1>15, <2>1, <2>2 DEF UpsertSiteSession
<1>16. ASSUME NEW r \in Requests, Logout(r) PROVE TypeOK'
  BY <1>16 DEF Logout, End
<1>17. ASSUME NEW r \in Requests, DeleteMyData(r) PROVE TypeOK'
  <2>1. usable' \subseteq 1 .. issued /\ counted' \subseteq 1 .. issued
    BY <1>17 DEF DeleteMyData
  <2>2. account' \in 0 .. accounts
    BY <1>17 DEF DeleteMyData
  <2>3. overtaken' \subseteq Requests
    BY <1>17 DEF DeleteMyData
  <2>4. sessions' \subseteq sessions
    BY <1>17 DEF DeleteMyData
  <2>5. QED
    BY <1>17, <2>1, <2>2, <2>3, <2>4, EndTypes DEF DeleteMyData
<1>18. ASSUME NEW r \in Requests, Drop(r) PROVE TypeOK'
  <2>1. user[r] \in Nat
    OBVIOUS
  <2>2. lost' \subseteq Nat /\ overtaken' \subseteq Requests
    BY <1>18, <2>1 DEF Drop
  <2>3. QED
    BY <1>18, <2>2, EndTypes DEF Drop
<1>19. CASE UNCHANGED vars
  BY <1>19 DEF vars
<1>20. QED
  BY <1>1, <1>2, <1>3, <1>4, <1>5, <1>6, <1>7, <1>8, <1>9, <1>10, <1>11,
     <1>12, <1>13, <1>14, <1>15, <1>16, <1>17, <1>18, <1>19 DEF Next

\* Every batch leaves at most the newest code usable.
LEMMA NewestStep == SignInInv /\ [Next]_vars => OnlyNewestCode'
<1> SUFFICES ASSUME SignInInv, [Next]_vars PROVE OnlyNewestCode'
  OBVIOUS
<1> USE DEF SignInInv, OnlyNewestCode, TypeOK, codes, people, table, requests, history
<1>1. ASSUME SendCode PROVE OnlyNewestCode'
  BY <1>1 DEF SendCode
<1>2. ASSUME EnsureBillingCustomer PROVE OnlyNewestCode'
  BY <1>2 DEF EnsureBillingCustomer, NewRow
<1>3. ASSUME NEW c \in 1 .. issued, CodeAges(c) PROVE OnlyNewestCode'
  BY <1>3 DEF CodeAges
<1>4. ASSUME NEW r \in Requests, NEW c \in 1 .. issued, ClaimCode(r, c)
      PROVE  OnlyNewestCode'
  BY <1>4 DEF ClaimCode, Goto
<1>5. ASSUME NEW r \in Requests, NEW role \in BOOLEAN, MintSiteSession(r, role)
      PROVE  OnlyNewestCode'
  BY <1>5 DEF MintSiteSession, Goto
<1>6. ASSUME NEW r \in Requests, NEW s \in sessions, ValidateSession(r, s)
      PROVE  OnlyNewestCode'
  BY <1>6 DEF ValidateSession, Goto
<1>7. ASSUME NEW r \in Requests, NEW s \in sessions, RevokeSession(r, s)
      PROVE  OnlyNewestCode'
  BY <1>7 DEF RevokeSession, End
<1>8. ASSUME NEW r \in Requests, InvalidateCodes(r) PROVE OnlyNewestCode'
  BY <1>8 DEF InvalidateCodes, Goto
<1>9. ASSUME NEW r \in Requests, FindCustomer(r) PROVE OnlyNewestCode'
  BY <1>9 DEF FindCustomer, Found, Goto
<1>10. ASSUME NEW r \in Requests, InsertCustomer(r) PROVE OnlyNewestCode'
  BY <1>10 DEF InsertCustomer, NewRow, Goto
<1>11. ASSUME NEW r \in Requests, AdoptCustomer(r) PROVE OnlyNewestCode'
  BY <1>11 DEF AdoptCustomer, Found, End
<1>12. ASSUME NEW r \in Requests, SyncRole(r) PROVE OnlyNewestCode'
  BY <1>12 DEF SyncRole, Goto
<1>13. ASSUME NEW r \in Requests, RevokeSessionsOnRoleChange(r) PROVE OnlyNewestCode'
  BY <1>13 DEF RevokeSessionsOnRoleChange, Of, Goto
<1>14. ASSUME NEW r \in Requests, InsertAndPrune(r) PROVE OnlyNewestCode'
  BY <1>14 DEF InsertAndPrune, Opens, NewSession, Pruned, End
<1>15. ASSUME NEW r \in Requests, UpsertSiteSession(r) PROVE OnlyNewestCode'
  BY <1>15 DEF UpsertSiteSession, Opens, NewSession, Of, End
<1>16. ASSUME NEW r \in Requests, Logout(r) PROVE OnlyNewestCode'
  BY <1>16 DEF Logout, End
<1>17. ASSUME NEW r \in Requests, DeleteMyData(r) PROVE OnlyNewestCode'
  BY <1>17 DEF DeleteMyData, Of, Acting, End
<1>18. ASSUME NEW r \in Requests, Drop(r) PROVE OnlyNewestCode'
  BY <1>18 DEF Drop, End
<1>19. CASE UNCHANGED vars
  BY <1>19 DEF vars
<1>20. QED
  BY <1>1, <1>2, <1>3, <1>4, <1>5, <1>6, <1>7, <1>8, <1>9, <1>10, <1>11,
     <1>12, <1>13, <1>14, <1>15, <1>16, <1>17, <1>18, <1>19 DEF Next

\* A code passes from the table to one request and from it to one session.
LEMMA ClaimStep == SignInInv /\ [Next]_vars => (OneSessionPerCode /\ ClaimsTracked)'
<1> SUFFICES ASSUME SignInInv, [Next]_vars PROVE (OneSessionPerCode /\ ClaimsTracked)'
  OBVIOUS
<1> USE DEF SignInInv, TypeOK, OneSessionPerCode, ClaimsTracked, Acting, Session, Login, codes, people, table, requests, history
<1>1. ASSUME SendCode PROVE (OneSessionPerCode /\ ClaimsTracked)'
  BY <1>1 DEF SendCode
<1>2. ASSUME EnsureBillingCustomer PROVE (OneSessionPerCode /\ ClaimsTracked)'
  BY <1>2 DEF EnsureBillingCustomer, NewRow
<1>3. ASSUME NEW c \in 1 .. issued, CodeAges(c)
      PROVE  (OneSessionPerCode /\ ClaimsTracked)'
  BY <1>3 DEF CodeAges
<1>4. ASSUME NEW r \in Requests, NEW c \in 1 .. issued, ClaimCode(r, c)
      PROVE  (OneSessionPerCode /\ ClaimsTracked)'
  BY <1>4 DEF ClaimCode, Goto
<1>5. ASSUME NEW r \in Requests, NEW role \in BOOLEAN, MintSiteSession(r, role)
      PROVE  (OneSessionPerCode /\ ClaimsTracked)'
  BY <1>5 DEF MintSiteSession, Goto
<1>6. ASSUME NEW r \in Requests, NEW s \in sessions, ValidateSession(r, s)
      PROVE  (OneSessionPerCode /\ ClaimsTracked)'
  BY <1>6 DEF ValidateSession, Goto
<1>7. ASSUME NEW r \in Requests, NEW s \in sessions, RevokeSession(r, s)
      PROVE  (OneSessionPerCode /\ ClaimsTracked)'
  BY <1>7 DEF RevokeSession, End
<1>8. ASSUME NEW r \in Requests, InvalidateCodes(r)
      PROVE  (OneSessionPerCode /\ ClaimsTracked)'
  BY <1>8 DEF InvalidateCodes, Goto
<1>9. ASSUME NEW r \in Requests, FindCustomer(r)
      PROVE  (OneSessionPerCode /\ ClaimsTracked)'
  BY <1>9 DEF FindCustomer, Found, Goto
<1>10. ASSUME NEW r \in Requests, InsertCustomer(r)
       PROVE  (OneSessionPerCode /\ ClaimsTracked)'
  BY <1>10 DEF InsertCustomer, NewRow, Goto
<1>11. ASSUME NEW r \in Requests, AdoptCustomer(r)
       PROVE  (OneSessionPerCode /\ ClaimsTracked)'
  BY <1>11 DEF AdoptCustomer, Found, End
<1>12. ASSUME NEW r \in Requests, SyncRole(r) PROVE (OneSessionPerCode /\ ClaimsTracked)'
  BY <1>12 DEF SyncRole, Goto
<1>13. ASSUME NEW r \in Requests, RevokeSessionsOnRoleChange(r)
       PROVE  (OneSessionPerCode /\ ClaimsTracked)'
  BY <1>13 DEF RevokeSessionsOnRoleChange, Of, Goto
<1>14. ASSUME NEW r \in Requests, InsertAndPrune(r)
       PROVE  (OneSessionPerCode /\ ClaimsTracked)'
  BY <1>14 DEF InsertAndPrune, Opens, NewSession, Pruned, End
<1>15. ASSUME NEW r \in Requests, UpsertSiteSession(r)
       PROVE  (OneSessionPerCode /\ ClaimsTracked)'
  BY <1>15 DEF UpsertSiteSession, Opens, NewSession, Of, End
<1>16. ASSUME NEW r \in Requests, Logout(r) PROVE (OneSessionPerCode /\ ClaimsTracked)'
  BY <1>16 DEF Logout, End
<1>17. ASSUME NEW r \in Requests, DeleteMyData(r)
       PROVE  (OneSessionPerCode /\ ClaimsTracked)'
  BY <1>17 DEF DeleteMyData, Of, Acting, End
<1>18. ASSUME NEW r \in Requests, Drop(r) PROVE (OneSessionPerCode /\ ClaimsTracked)'
  BY <1>18 DEF Drop, End
<1>19. CASE UNCHANGED vars
  BY <1>19 DEF vars
<1>20. QED
  BY <1>1, <1>2, <1>3, <1>4, <1>5, <1>6, <1>7, <1>8, <1>9, <1>10, <1>11,
     <1>12, <1>13, <1>14, <1>15, <1>16, <1>17, <1>18, <1>19 DEF Next

\* A request that changed a role has the revocation ahead of it, or is lost.
LEMMA RoleStep == SignInInv /\ [Next]_vars => RoleChangeRevokes'
<1> SUFFICES ASSUME SignInInv, [Next]_vars PROVE RoleChangeRevokes'
  OBVIOUS
<1> USE DEF SignInInv, TypeOK, RoleChangeRevokes, ClaimsTracked, Acting, Session, codes, people, table, requests, history
<1>1. ASSUME SendCode PROVE RoleChangeRevokes'
  BY <1>1 DEF SendCode
<1>2. ASSUME EnsureBillingCustomer PROVE RoleChangeRevokes'
  BY <1>2, NewRowKeepsFlags DEF EnsureBillingCustomer
<1>3. ASSUME NEW c \in 1 .. issued, CodeAges(c) PROVE RoleChangeRevokes'
  BY <1>3 DEF CodeAges
<1>4. ASSUME NEW r \in Requests, NEW c \in 1 .. issued, ClaimCode(r, c)
      PROVE  RoleChangeRevokes'
  BY <1>4 DEF ClaimCode, Goto
<1>5. ASSUME NEW r \in Requests, NEW role \in BOOLEAN, MintSiteSession(r, role)
      PROVE  RoleChangeRevokes'
  BY <1>5 DEF MintSiteSession, Goto
<1>6. ASSUME NEW r \in Requests, NEW s \in sessions, ValidateSession(r, s)
      PROVE  RoleChangeRevokes'
  BY <1>6 DEF ValidateSession, Goto
<1>7. ASSUME NEW r \in Requests, NEW s \in sessions, RevokeSession(r, s)
      PROVE  RoleChangeRevokes'
  BY <1>7 DEF RevokeSession, End
<1>8. ASSUME NEW r \in Requests, InvalidateCodes(r) PROVE RoleChangeRevokes'
  BY <1>8 DEF InvalidateCodes, Goto
<1>9. ASSUME NEW r \in Requests, FindCustomer(r) PROVE RoleChangeRevokes'
  BY <1>9 DEF FindCustomer, Found, Goto
<1>10. ASSUME NEW r \in Requests, InsertCustomer(r) PROVE RoleChangeRevokes'
  <2>1. \A s \in sessions : admin'[s.account] = admin[s.account]
    BY <1>10, NewRowKeepsFlags DEF InsertCustomer
  <2>2. \A q \in Requests : pc[q] = "revoke" => pc'[q] = "revoke"
    BY <1>10 DEF InsertCustomer, Goto
  <2>3. QED
    BY <1>10, <2>1, <2>2 DEF InsertCustomer
<1>11. ASSUME NEW r \in Requests, AdoptCustomer(r) PROVE RoleChangeRevokes'
  BY <1>11 DEF AdoptCustomer, Found, End
<1>12. ASSUME NEW r \in Requests, SyncRole(r) PROVE RoleChangeRevokes'
  <2>1. pc'[r] = "revoke"
        /\ \A q \in Requests : pc[q] = "revoke" => pc'[q] = "revoke"
    BY <1>12 DEF SyncRole, Goto
  <2>2. \A s \in sessions : s.account # user[r] => admin'[s.account] = admin[s.account]
    BY <1>12 DEF SyncRole
  <2>3. QED
    BY <1>12, <2>1, <2>2 DEF SyncRole
<1>13. ASSUME NEW r \in Requests, RevokeSessionsOnRoleChange(r) PROVE RoleChangeRevokes'
  BY <1>13 DEF RevokeSessionsOnRoleChange, Of, Goto
<1>14. ASSUME NEW r \in Requests, InsertAndPrune(r) PROVE RoleChangeRevokes'
  <2>1. \A q \in Requests : pc[q] = "revoke" => pc'[q] = "revoke" /\ user'[q] = user[q]
    BY <1>14 DEF InsertAndPrune, End
  <2>2. sessions' \subseteq sessions \cup {NewSession(r)}
    BY <1>14 DEF InsertAndPrune, Pruned
  <2>3. NewSession(r).admin = admin[NewSession(r).account]
    BY DEF NewSession
  <2>4. QED
    BY <1>14, <2>1, <2>2, <2>3 DEF InsertAndPrune
<1>15. ASSUME NEW r \in Requests, UpsertSiteSession(r) PROVE RoleChangeRevokes'
  <2>1. \A q \in Requests : pc[q] = "revoke" => pc'[q] = "revoke" /\ user'[q] = user[q]
    BY <1>15 DEF UpsertSiteSession, End
  <2>2. sessions' \subseteq sessions \cup {NewSession(r)}
    BY <1>15 DEF UpsertSiteSession, Opens
  <2>3. NewSession(r).admin = admin[NewSession(r).account]
    BY DEF NewSession
  <2>4. QED
    BY <1>15, <2>1, <2>2, <2>3 DEF UpsertSiteSession
<1>16. ASSUME NEW r \in Requests, Logout(r) PROVE RoleChangeRevokes'
  BY <1>16 DEF Logout, End
<1>17. ASSUME NEW r \in Requests, DeleteMyData(r) PROVE RoleChangeRevokes'
  BY <1>17 DEF DeleteMyData, Of, Acting, End
<1>18. ASSUME NEW r \in Requests, Drop(r) PROVE RoleChangeRevokes'
  BY <1>18 DEF Drop, End
<1>19. CASE UNCHANGED vars
  BY <1>19 DEF vars
<1>20. QED
  BY <1>1, <1>2, <1>3, <1>4, <1>5, <1>6, <1>7, <1>8, <1>9, <1>10, <1>11,
     <1>12, <1>13, <1>14, <1>15, <1>16, <1>17, <1>18, <1>19 DEF Next

\* Sessions are opened for the row of the address, or by an overtaken request.
LEMMA DeletionStep == SignInInv /\ [Next]_vars => DeletionEndsSessions'
<1> SUFFICES ASSUME SignInInv, [Next]_vars PROVE DeletionEndsSessions'
  OBVIOUS
<1> USE DEF SignInInv, TypeOK, DeletionEndsSessions, ClaimsTracked, Acting, Session, codes, people, table, requests, history
<1>1. ASSUME SendCode PROVE DeletionEndsSessions'
  BY <1>1 DEF SendCode
<1>2. ASSUME EnsureBillingCustomer PROVE DeletionEndsSessions'
  BY <1>2 DEF EnsureBillingCustomer, NewRow
<1>3. ASSUME NEW c \in 1 .. issued, CodeAges(c) PROVE DeletionEndsSessions'
  BY <1>3 DEF CodeAges
<1>4. ASSUME NEW r \in Requests, NEW c \in 1 .. issued, ClaimCode(r, c)
      PROVE  DeletionEndsSessions'
  BY <1>4 DEF ClaimCode, Goto
<1>5. ASSUME NEW r \in Requests, NEW role \in BOOLEAN, MintSiteSession(r, role)
      PROVE  DeletionEndsSessions'
  BY <1>5 DEF MintSiteSession, Goto
<1>6. ASSUME NEW r \in Requests, NEW s \in sessions, ValidateSession(r, s)
      PROVE  DeletionEndsSessions'
  BY <1>6 DEF ValidateSession, Goto
<1>7. ASSUME NEW r \in Requests, NEW s \in sessions, RevokeSession(r, s)
      PROVE  DeletionEndsSessions'
  BY <1>7 DEF RevokeSession, End
<1>8. ASSUME NEW r \in Requests, InvalidateCodes(r) PROVE DeletionEndsSessions'
  BY <1>8 DEF InvalidateCodes, Goto
<1>9. ASSUME NEW r \in Requests, FindCustomer(r) PROVE DeletionEndsSessions'
  BY <1>9 DEF FindCustomer, Found, Goto
<1>10. ASSUME NEW r \in Requests, InsertCustomer(r) PROVE DeletionEndsSessions'
  BY <1>10 DEF InsertCustomer, NewRow, Goto
<1>11. ASSUME NEW r \in Requests, AdoptCustomer(r) PROVE DeletionEndsSessions'
  BY <1>11 DEF AdoptCustomer, Found, End
<1>12. ASSUME NEW r \in Requests, SyncRole(r) PROVE DeletionEndsSessions'
  BY <1>12 DEF SyncRole, Goto
<1>13. ASSUME NEW r \in Requests, RevokeSessionsOnRoleChange(r)
       PROVE  DeletionEndsSessions'
  BY <1>13 DEF RevokeSessionsOnRoleChange, Of, Goto
<1>14. ASSUME NEW r \in Requests, InsertAndPrune(r) PROVE DeletionEndsSessions'
  BY <1>14 DEF InsertAndPrune, Opens, NewSession, Pruned, End
<1>15. ASSUME NEW r \in Requests, UpsertSiteSession(r) PROVE DeletionEndsSessions'
  BY <1>15 DEF UpsertSiteSession, Opens, NewSession, Of, End
<1>16. ASSUME NEW r \in Requests, Logout(r) PROVE DeletionEndsSessions'
  BY <1>16 DEF Logout, End
<1>17. ASSUME NEW r \in Requests, DeleteMyData(r) PROVE DeletionEndsSessions'
  BY <1>17 DEF DeleteMyData, Of, Acting, End
<1>18. ASSUME NEW r \in Requests, Drop(r) PROVE DeletionEndsSessions'
  BY <1>18 DEF Drop, End
<1>19. CASE UNCHANGED vars
  BY <1>19 DEF vars
<1>20. QED
  BY <1>1, <1>2, <1>3, <1>4, <1>5, <1>6, <1>7, <1>8, <1>9, <1>10, <1>11,
     <1>12, <1>13, <1>14, <1>15, <1>16, <1>17, <1>18, <1>19 DEF Next

\* The window admits a code only while it holds fewer than the limit.
LEMMA WindowStep == SignInInv /\ [Next]_vars => WindowHeld'
<1> SUFFICES ASSUME SignInInv, [Next]_vars PROVE WindowHeld'
  OBVIOUS
<1> USE DEF SignInInv, WindowHeld
<1>1. Cardinality(counted) \in Nat
  BY FS_CardinalityType
<1>2. CASE SendCode
  <2>1. CASE /\ Cardinality(counted) < CodesPerWindow
             /\ counted' = counted \cup {issued + 1}
    <3>1. issued + 1 \notin counted
      BY DEF TypeOK
    <3>2. /\ IsFiniteSet(counted \cup {issued + 1})
          /\ Cardinality(counted \cup {issued + 1}) = Cardinality(counted) + 1
      BY <3>1, FS_AddElement
    <3>3. QED
      BY <1>1, <2>1, <3>2, LimitsAssumption
  <2>2. CASE counted' = counted
    BY <2>2
  <2>3. QED
    BY <1>2, <2>1, <2>2 DEF SendCode
<1>3. CASE counted' \subseteq counted
  <2>1. /\ IsFiniteSet(counted')
        /\ Cardinality(counted') <= Cardinality(counted)
    BY <1>3, FS_Subset
  <2>2. Cardinality(counted') \in Nat
    BY <2>1, FS_CardinalityType
  <2>3. QED
    BY <1>1, <2>1, <2>2, LimitsAssumption
<1>4. ~SendCode => counted' \subseteq counted
  BY DEF Next, vars, codes, EnsureBillingCustomer, CodeAges, ClaimCode,
         MintSiteSession, ValidateSession, RevokeSession, InvalidateCodes,
         FindCustomer, InsertCustomer, AdoptCustomer, SyncRole,
         RevokeSessionsOnRoleChange, InsertAndPrune, UpsertSiteSession,
         Logout, DeleteMyData, Drop
<1>5. QED
  BY <1>2, <1>3, <1>4

\* The inductive invariant holds in every behaviour.
THEOREM SignInInvariant == Spec => []SignInInv
<1>1. Init => SignInInv
  <2> SUFFICES ASSUME Init PROVE SignInInv
    OBVIOUS
  <2>1. TypeOK
    BY BoundsAssumption DEF Init, TypeOK, Phases
  <2>2. WindowHeld
    BY FS_EmptySet, LimitsAssumption DEF Init, WindowHeld
  <2>3. OneSessionPerCode /\ OnlyNewestCode /\ RoleChangeRevokes /\ DeletionEndsSessions
    BY DEF Init, OneSessionPerCode, OnlyNewestCode, RoleChangeRevokes, DeletionEndsSessions
  <2>4. ClaimsTracked
    BY DEF Init, ClaimsTracked, Acting
  <2>5. QED
    BY <2>1, <2>2, <2>3, <2>4 DEF SignInInv
<1>2. SignInInv /\ [Next]_vars => SignInInv'
  BY TypeStep, NewestStep, ClaimStep, RoleStep, DeletionStep, WindowStep DEF SignInInv
<1>3. QED
  BY <1>1, <1>2, PTL DEF Spec

\* However often and however concurrently a code is submitted, it opens at
\* most one session.
COROLLARY CodesOpenOnce == Spec => []OneSessionPerCode
<1>1. SignInInv => OneSessionPerCode
  BY DEF SignInInv
<1>2. QED
  BY <1>1, SignInInvariant, PTL

\* A change of role ends the earlier sessions, save a lost revocation.
COROLLARY RolesRevoke == Spec => []RoleChangeRevokes
<1>1. SignInInv => RoleChangeRevokes
  BY DEF SignInInv
<1>2. QED
  BY <1>1, SignInInvariant, PTL

\* A deleted customer keeps no session, save one of a login under way.
COROLLARY DeletionEnds == Spec => []DeletionEndsSessions
<1>1. SignInInv => DeletionEndsSessions
  BY DEF SignInInv
<1>2. QED
  BY <1>1, SignInInvariant, PTL

-----------------------------------------------------------------------------
(***************************************************************************)
(* The cap on a customer's sessions.  Sessions are told apart by their     *)
(* ids, so the newest few of a row are few.                                *)
(***************************************************************************)
SessionIds == IsFiniteSet(sessions) /\ \A s, t \in sessions : s.id = t.id => s = t

OneSiteSession ==
    \A s, t \in sessions : s.account = t.account /\ s.code = 0 /\ t.code = 0 => s = t

LoginsCapped == \A a \in Nat : Cardinality({s \in Of(a) : s.code # 0}) <= MaxSessions

CapInv == SessionIds /\ OneSiteSession /\ LoginsCapped

\* Among finitely many sessions one is the oldest: the one whose set of older
\* sessions has no strict subset among the others'.
LEMMA OldestOf ==
    ASSUME NEW S \in SUBSET Session, IsFiniteSet(S), S # {}
    PROVE  \E m \in S : \A x \in S : m.id <= x.id
<1> DEFINE Older(x) == {y \in S : y.id < x.id}
           Tails == {Older(x) : x \in S}
<1>1. \A x \in S : x.id \in Nat
  BY DEF Session
<1>2. Tails \subseteq FiniteSubsetsOf(S) /\ Tails # {}
  <2>1. \A x \in S : Older(x) \in SUBSET S /\ Older(x) \in Tails
    OBVIOUS
  <2>2. \A T \in SUBSET S : IsFiniteSet(T)
    BY FS_Subset
  <2>3. \A T \in Tails : T \in SUBSET S
    BY <2>1
  <2> HIDE DEF Tails, Older
  <2> QED BY <2>1, <2>2, <2>3 DEF FiniteSubsetsOf
<1>3. PICK T \in Tails : \A U \in Tails : <<U, T>> \notin StrictSubsetOrdering(S)
  BY <1>2, FS_StrictSubsetOrderingWellFounded, WFMin
<1>4. PICK m \in S : T = Older(m)
  OBVIOUS
<1>5. ASSUME NEW x \in S, x.id < m.id PROVE FALSE
  <2>1. \A y \in S : y.id < x.id => y.id < m.id
    BY <1>1, <1>5
  <2>2. Older(x) \in SUBSET S /\ Older(m) \in SUBSET S /\ Older(x) \subseteq Older(m)
    BY <2>1
  <2>3. x \in Older(m) /\ x \notin Older(x)
    BY <1>1, <1>5
  <2>4. Older(x) \in Tails /\ <<Older(x), Older(m)>> \in StrictSubsetOrdering(S)
    BY <2>2, <2>3 DEF StrictSubsetOrdering
  <2> QED BY <1>3, <1>4, <2>4
<1> QED BY <1>1, <1>5

\* Of one row the batch of a login keeps no more than the permitted sessions:
\* each that it keeps counts as newer than the oldest it keeps.
LEMMA PrunedCap ==
    ASSUME NEW S \in SUBSET Session, IsFiniteSet(S),
           \A s, t \in S : s.id = t.id => s = t,
           NEW a \in Nat
    PROVE  Cardinality({s \in Pruned(S, a) : s.account = a}) <= MaxSessions
<1> DEFINE kept == {s \in Pruned(S, a) : s.account = a}
           Newer(s) == {t \in S : t.account = a /\ t.id > s.id}
<1>1. kept \in SUBSET S /\ IsFiniteSet(kept) /\ Cardinality(kept) \in Nat
  <2>1. kept \in SUBSET S
    BY DEF Pruned
  <2> QED BY <2>1, FS_Subset, FS_CardinalityType
<1>2. \A s \in kept : Cardinality(Newer(s)) < MaxSessions
  BY DEF Pruned
<1>3. CASE kept = {}
  BY <1>3, FS_EmptySet, LimitsAssumption
<1>4. CASE kept # {}
  <2>1. PICK m \in kept : \A x \in kept : m.id <= x.id
    BY <1>1, <1>4, OldestOf
  <2>2. kept \ {m} \subseteq Newer(m)
    <3>1. \A x \in kept : x \in S /\ x.account = a /\ x.id \in Nat
      BY <1>1 DEF Session
    <3>2. \A x \in kept \ {m} : x.id # m.id
      BY <1>1
    <3> HIDE DEF kept
    <3> QED BY <2>1, <3>1, <3>2
  <2>3. IsFiniteSet(Newer(m)) /\ Cardinality(Newer(m)) \in Nat
    <3>1. Newer(m) \in SUBSET S
      OBVIOUS
    <3> QED BY <3>1, FS_Subset, FS_CardinalityType
  <2> HIDE DEF kept, Newer
  <2>4. Cardinality(kept \ {m}) <= Cardinality(Newer(m))
    BY <2>2, <2>3, FS_Subset
  <2>5. Cardinality(kept \ {m}) = Cardinality(kept) - 1
    BY <1>1, <2>1, FS_RemoveElement
  <2>6. Cardinality(Newer(m)) < MaxSessions
    BY <1>2, <2>1
  <2> QED BY <1>1, <2>3, <2>4, <2>5, <2>6, LimitsAssumption DEF kept
<1> QED BY <1>3, <1>4

\* Fewer sessions stay under the cap.
LEMMA FewerSessions ==
    ASSUME CapInv, sessions' \subseteq sessions
    PROVE  CapInv'
<1>1. SessionIds' /\ OneSiteSession'
  BY FS_Subset DEF CapInv, SessionIds, OneSiteSession
<1>2. ASSUME NEW a \in Nat PROVE Cardinality({s \in Of(a)' : s.code # 0}) <= MaxSessions
  <2> DEFINE before == {s \in Of(a) : s.code # 0}
             after  == {s \in Of(a)' : s.code # 0}
  <2>1. after \subseteq before /\ before \subseteq sessions
    BY DEF Of
  <2>2. IsFiniteSet(before) /\ Cardinality(before) <= MaxSessions
    BY <2>1, FS_Subset DEF CapInv, SessionIds, LoginsCapped
  <2> HIDE DEF before, after
  <2>3. /\ Cardinality(after) <= Cardinality(before)
        /\ Cardinality(after) \in Nat /\ Cardinality(before) \in Nat
    BY <2>1, <2>2, FS_Subset, FS_CardinalityType
  <2>4. Cardinality(after) <= MaxSessions
    BY <2>2, <2>3, LimitsAssumption
  <2> QED BY <2>4 DEF after
<1> QED BY <1>1, <1>2 DEF CapInv, LoginsCapped

\* A new session has a new id.
LEMMA NewestId ==
    ASSUME SignInInv, CapInv, NEW r \in Requests, pc[r] = "mint"
    PROVE  LET new == NewSession(r)  more == sessions \cup {new} IN
           /\ more \in SUBSET Session /\ IsFiniteSet(more)
           /\ \A s, t \in more : s.id = t.id => s = t
           /\ user[r] \in Nat /\ new.account = user[r] /\ new.code = code[r]
<1> DEFINE new == NewSession(r)
<1>1. pc[r] \in Acting
  BY DEF Acting
<1>2. new \in Session /\ user[r] \in Nat
  BY <1>1, NewSessionTyped, ActingForRow
<1>3. new.id = minted + 1 /\ new.account = user[r] /\ new.code = code[r]
  BY DEF NewSession
<1>4. sessions \in SUBSET Session /\ \A s \in sessions : s.id # new.id
  BY <1>3 DEF SignInInv, TypeOK, Session
<1>5. IsFiniteSet(sessions \cup {new})
  BY FS_AddElement DEF CapInv, SessionIds
<1> HIDE DEF new
<1>6. \A s, t \in sessions \cup {new} : s.id = t.id => s = t
  BY <1>4 DEF CapInv, SessionIds
<1> QED BY <1>2, <1>3, <1>4, <1>5, <1>6 DEF new

\* A login keeps the cap by pruning.
LEMMA LoginCapped ==
    ASSUME SignInInv, CapInv, NEW r \in Requests, InsertAndPrune(r)
    PROVE  CapInv'
<1> DEFINE new == NewSession(r)
           more == sessions \cup {new}
           a == user[r]
<1>1. pc[r] = "mint" /\ code[r] # 0 /\ sessions' = Pruned(more, a)
  BY DEF InsertAndPrune
<1>2. /\ more \in SUBSET Session /\ IsFiniteSet(more) /\ \A s, t \in more : s.id = t.id => s = t
      /\ a \in Nat /\ new.account = a /\ new.code # 0
  BY <1>1, NewestId
<1> HIDE DEF new
<1>3. sessions' \subseteq more /\ \A s \in sessions' : s = new \/ s \in sessions
  BY <1>1 DEF Pruned
<1>4. SessionIds'
  BY <1>2, <1>3, FS_Subset DEF SessionIds
<1>5. OneSiteSession'
  BY <1>2, <1>3 DEF CapInv, OneSiteSession
<1>6. ASSUME NEW b \in Nat PROVE Cardinality({s \in sessions' : s.account = b /\ s.code # 0}) <= MaxSessions
  <2> DEFINE after == {s \in sessions' : s.account = b /\ s.code # 0}
  <2>1. CASE b = a
    <3> DEFINE kept == {s \in Pruned(more, a) : s.account = a}
    <3>1. after \subseteq kept /\ kept \subseteq more
      BY <1>1, <2>1 DEF Pruned
    <3>2. Cardinality(kept) <= MaxSessions
      BY <1>2, PrunedCap
    <3>3. IsFiniteSet(kept)
      BY <1>2, <3>1, FS_Subset
    <3> HIDE DEF after, kept
    <3>4. /\ Cardinality(after) <= Cardinality(kept)
          /\ Cardinality(after) \in Nat /\ Cardinality(kept) \in Nat
      BY <3>1, <3>3, FS_Subset, FS_CardinalityType
    <3> QED BY <3>2, <3>4, LimitsAssumption DEF after
  <2>2. CASE b # a
    <3> DEFINE before == {s \in Of(b) : s.code # 0}
    <3>1. after \subseteq before /\ before \subseteq sessions
      BY <1>2, <1>3, <2>2 DEF Of
    <3>2. IsFiniteSet(before) /\ Cardinality(before) <= MaxSessions
      BY <3>1, FS_Subset DEF CapInv, SessionIds, LoginsCapped
    <3> HIDE DEF after, before
    <3>3. /\ Cardinality(after) <= Cardinality(before)
          /\ Cardinality(after) \in Nat /\ Cardinality(before) \in Nat
      BY <3>1, <3>2, FS_Subset, FS_CardinalityType
    <3> QED BY <3>2, <3>3, LimitsAssumption DEF after
  <2> QED BY <2>1, <2>2
<1>7. LoginsCapped'
  <2>1. \A b : {s \in Of(b)' : s.code # 0} = {s \in sessions' : s.account = b /\ s.code # 0}
    BY DEF Of
  <2> QED BY <1>6, <2>1 DEF LoginsCapped
<1> QED BY <1>4, <1>5, <1>7 DEF CapInv

\* The bridge adds a session only where the row has none of the site's.
LEMMA SiteSessionCapped ==
    ASSUME SignInInv, CapInv, NEW r \in Requests, UpsertSiteSession(r)
    PROVE  CapInv'
<1>1. CASE UNCHANGED sessions
  BY <1>1, FewerSessions
<1>2. CASE (\A s \in Of(user[r]) : s.code # 0) /\ sessions' = sessions \cup {NewSession(r)}
  <2> DEFINE new == NewSession(r)
  <2>1. pc[r] = "mint" /\ code[r] = 0
    BY DEF UpsertSiteSession
  <2>2. /\ IsFiniteSet(sessions') /\ \A s, t \in sessions' : s.id = t.id => s = t
        /\ new.account = user[r] /\ new.code = 0
    BY <1>2, <2>1, NewestId
  <2> HIDE DEF new
  <2>3. sessions' = sessions \cup {new}
    BY <1>2 DEF new
  <2>4. OneSiteSession'
    BY <1>2, <2>2, <2>3 DEF CapInv, OneSiteSession, Of
  <2>5. \A a : {s \in Of(a)' : s.code # 0} = {s \in Of(a) : s.code # 0}
    BY <2>2, <2>3 DEF Of
  <2> QED BY <2>2, <2>4, <2>5 DEF CapInv, SessionIds, LoginsCapped
<1> QED BY <1>1, <1>2 DEF UpsertSiteSession, table

\* Every other step leaves the sessions or removes some.
LEMMA CapStep == SignInInv /\ CapInv /\ [Next]_vars => CapInv'
<1> SUFFICES ASSUME SignInInv, CapInv, [Next]_vars PROVE CapInv'
  OBVIOUS
<1> USE DEF table
<1>1. ASSUME SendCode \/ EnsureBillingCustomer \/ \E c \in 1 .. issued : CodeAges(c)
      PROVE  UNCHANGED sessions
  BY <1>1 DEF SendCode, EnsureBillingCustomer, CodeAges
<1>2. ASSUME NEW r \in Requests,
             \/ \E c \in 1 .. issued : ClaimCode(r, c)
             \/ \E role \in BOOLEAN : MintSiteSession(r, role)
             \/ \E s \in sessions : ValidateSession(r, s)
             \/ InvalidateCodes(r) \/ FindCustomer(r) \/ InsertCustomer(r)
             \/ AdoptCustomer(r) \/ SyncRole(r) \/ Drop(r)
      PROVE  UNCHANGED sessions
  BY <1>2 DEF ClaimCode, MintSiteSession, ValidateSession, InvalidateCodes, FindCustomer,
     InsertCustomer, AdoptCustomer, SyncRole, Drop
<1>3. ASSUME NEW r \in Requests,
             \/ \E s \in sessions : RevokeSession(r, s)
             \/ RevokeSessionsOnRoleChange(r) \/ Logout(r) \/ DeleteMyData(r)
      PROVE  sessions' \subseteq sessions
  BY <1>3 DEF RevokeSession, RevokeSessionsOnRoleChange, Logout, DeleteMyData
<1>4. UNCHANGED vars => UNCHANGED sessions
  BY DEF vars
<1> QED BY <1>1, <1>2, <1>3, <1>4, FewerSessions, LoginCapped, SiteSessionCapped DEF Next

\* Concurrent logins leave a customer no more than the permitted sessions, and
\* the site adds one at most.
THEOREM SessionsStayCapped == Spec => []SessionsCapped
<1>1. Init => CapInv
  <2> SUFFICES ASSUME Init PROVE CapInv
    OBVIOUS
  <2>1. sessions = {} /\ \A a : {s \in Of(a) : s.code # 0} = {}
    BY DEF Init, Of
  <2> QED BY <2>1, FS_EmptySet, LimitsAssumption
          DEF CapInv, SessionIds, OneSiteSession, LoginsCapped
<1>2. SignInInv /\ CapInv => SessionsCapped
  <2> SUFFICES ASSUME SignInInv, CapInv, NEW a \in 1 .. accounts
               PROVE  /\ Cardinality({s \in Of(a) : s.code # 0}) <= MaxSessions
                      /\ Cardinality({s \in Of(a) : s.code = 0}) <= 1
    BY DEF SessionsCapped
  <2>0. a \in Nat
    BY DEF SignInInv, TypeOK
  <2> DEFINE site == {s \in Of(a) : s.code = 0}
  <2>1. \A s, t \in site : s = t
    BY DEF CapInv, OneSiteSession, Of
  <2>2. Cardinality(site) = 0 \/ Cardinality(site) = 1
    <3>1. CASE site = {}
      BY <3>1, FS_EmptySet
    <3>2. ASSUME NEW s \in site PROVE Cardinality(site) = 1
      <4>1. site = {s}
        BY <2>1
      <4> QED BY <4>1, FS_Singleton
    <3> QED BY <3>1, <3>2
  <2> QED BY <2>0, <2>2 DEF CapInv, LoginsCapped
<1>3. Spec => []CapInv
  BY <1>1, CapStep, SignInInvariant, PTL DEF Spec
<1> QED BY <1>2, <1>3, SignInInvariant, PTL
=============================================================================
