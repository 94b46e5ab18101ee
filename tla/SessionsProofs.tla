--------------------------- MODULE SessionsProofs ---------------------------
(* The safety of Sessions for every set of logins, tokens and slots, every    *)
(* Life, and every number of faults.                                          *)
(*                                                                            *)
(* A document, stored or under way, repeats the check that drew its token     *)
(* (DocumentsAreIssued), wherever it was delayed; a login under way has its   *)
(* token to itself (OwnToken), so there is one document per token             *)
(* (OneDocument).  Who is let in is then read off the check (OnlyVerified,    *)
(* ExpiresInTime), and a sure token has its document (SureIsStored), which    *)
(* passes the filter of whoever arrived in time (PassersAreSure).             *)
EXTENDS Sessions, TLAPS

\* The initial state satisfies the inductive invariant.
LEMMA InitInv == Init => IInv
  BY NoneAssumption, MaxTimeAssumption, MaxFaultsAssumption
  DEF Init, IInv, TypeOK, Documents, Checks, PCs, DocumentsAreIssued, IssuedIsRow, OwnToken,
      LoggingIn, CarriedIsHanded, SureIsStored, OneDocument, PassersAreSure,
      OnlyVerified, ExpiresInTime, At

\* A login past its check has a document of the right type.
LEMMA DocumentType ==
  ASSUME TypeOK, OwnToken, NEW s \in Slots, At(s, "insert")
  PROVE  Document(s) \in Documents
  BY DEF TypeOK, OwnToken, LoggingIn, At, Document, Documents

\* No step breaks the type invariant.
LEMMA NextType == TypeOK /\ OwnToken /\ CarriedIsHanded /\ [Next]_vars => TypeOK'
<1> SUFFICES ASSUME TypeOK, OwnToken, CarriedIsHanded, [Next]_vars PROVE TypeOK'
  OBVIOUS
<1> USE NoneAssumption, LifeAssumption, MaxTimeAssumption, MaxFaultsAssumption
    DEF TypeOK, PCs, At, Goto, Fault, storeVars, slotVars
<1>1. ASSUME NEW l \in Logins, NEW p \in Passwords, Register(l, p) PROVE TypeOK'
  BY <1>1 DEF Register
<1>2. ASSUME NEW s \in Slots, NEW l \in Logins, NEW p \in Passwords, NEW t \in Tokens,
             StartLogin(s, l, p, t)
      PROVE  TypeOK'
  BY <1>2 DEF StartLogin
<1>3. ASSUME NEW s \in Slots, Verify(s) PROVE TypeOK'
  <2>1. /\ login[s] \in Logins
        /\ password[s] \in Passwords
        /\ token[s] \in Tokens
    BY <1>3 DEF Verify, OwnToken, LoggingIn
  <2>2. [login |-> login[s], password |-> password[s], at |-> now] \in Checks
    BY <2>1 DEF Checks
  <2> QED
    BY <1>3, <2>1, <2>2 DEF Verify
<1>4. ASSUME NEW s \in Slots, Reject(s) \/ Leave(s) PROVE TypeOK'
  BY <1>4 DEF Reject, Leave, Finish
<1>5. ASSUME NEW s \in Slots, InsertToken(s) \/ InsertTokenFails(s) PROVE TypeOK'
  <2>1. Document(s) \in Documents /\ token[s] \in Tokens
    BY <1>5, DocumentType DEF InsertToken, InsertTokenFails, OwnToken, LoggingIn
  <2> QED
    BY <1>5, <2>1 DEF InsertToken, InsertTokenFails
<1>6. ASSUME NEW s \in Slots, Answer(s) PROVE TypeOK'
  BY <1>6 DEF Answer, Finish, OwnToken, LoggingIn
<1>7. ASSUME NEW s \in Slots, FindToken(s) PROVE TypeOK'
  <2>1. PICK d \in docs : Filter(s, d) /\ login' = [login EXCEPT ![s] = d.login]
    BY <1>7 DEF FindToken
  <2>2. d.login \in Logins
    BY DEF Documents
  <2>3. token[s] \in Tokens \cup {Forged}
    BY <1>7 DEF FindToken, CarriedIsHanded
  <2> QED
    BY <1>7, <2>1, <2>2, <2>3 DEF FindToken
<1>8. ASSUME NEW s \in Slots, NoToken(s) \/ FindTokenFails(s) PROVE TypeOK'
  BY <1>8 DEF NoToken, FindTokenFails
<1>9. ASSUME NEW s \in Slots, NEW t \in handed \cup {Forged}, StartRequest(s, t)
      PROVE  TypeOK'
  BY <1>9 DEF StartRequest
<1>10. ASSUME NEW d \in wire, LateInsert(d) \/ LateLost(d) PROVE TypeOK'
  BY <1>10 DEF LateInsert, LateLost
<1>11. CASE Tick
  BY <1>11 DEF Tick
<1>12. CASE Crash
  <2>1. PICK sent \in SUBSET {s \in Slots : At(s, "insert")} :
          wire' = wire \cup {Document(s) : s \in sent}
    BY <1>12 DEF Crash
  <2>2. \A s \in sent : Document(s) \in Documents
    BY DocumentType
  <2> QED
    BY <1>12, <2>1, <2>2 DEF Crash
<1>13. CASE UNCHANGED vars
  BY <1>13 DEF vars
<1> QED
  BY <1>1, <1>2, <1>3, <1>4, <1>5, <1>6, <1>7, <1>8, <1>9, <1>10, <1>11, <1>12, <1>13
  DEF Next, Login, Guard

\* What is stored keeps to what was checked.
LEMMA NextDocuments == IInv /\ [Next]_vars => (DocumentsAreIssued /\ IssuedIsRow /\ OneDocument /\ SureIsStored)'
<1> SUFFICES ASSUME IInv, [Next]_vars PROVE (DocumentsAreIssued /\ IssuedIsRow /\ OneDocument /\ SureIsStored)'
  OBVIOUS
<1> DEFINE Goal == (DocumentsAreIssued /\ IssuedIsRow /\ OneDocument /\ SureIsStored)'
<1>t. TypeOK /\ TypeOK'
  BY NextType DEF IInv
<1> USE <1>t, NoneAssumption, ForgedAssumption, LifeAssumption, MaxTimeAssumption
    DEF IInv, TypeOK, Documents, Checks, DocumentsAreIssued, IssuedIsRow, OwnToken,
        LoggingIn, CarriedIsHanded, SureIsStored, OneDocument, PassersAreSure,
        OnlyVerified, ExpiresInTime, At, Goto, storeVars, slotVars
<1>1. ASSUME NEW l \in Logins, NEW p \in Passwords, Register(l, p) PROVE Goal
  BY <1>1 DEF Register
<1>2. ASSUME NEW s \in Slots, NEW l \in Logins, NEW p \in Passwords, NEW t \in Tokens,
             StartLogin(s, l, p, t)
      PROVE  Goal
  BY <1>2 DEF StartLogin
<1>3. ASSUME NEW s \in Slots, Verify(s) PROVE Goal
  BY <1>3 DEF Verify, Matches
<1>4. ASSUME NEW s \in Slots, Reject(s) \/ Leave(s) PROVE Goal
  BY <1>4 DEF Reject, Leave, Finish
<1>5. ASSUME NEW s \in Slots, InsertToken(s) PROVE Goal
  <2>1. /\ token[s] \in Tokens
        /\ Document(s).id = token[s]
        /\ Document(s).login = issued[token[s]].login
        /\ Document(s).expires_at = issued[token[s]].at + Life
        /\ issued[token[s]] # None
        /\ \A d \in docs \cup wire : d.id # token[s]
    BY <1>5 DEF InsertToken, Document
  <2>2. docs' = docs \cup {Document(s)} /\ sure' = sure \cup {token[s]}
    BY <1>5 DEF InsertToken
  <2>3. UNCHANGED <<users, wire, now, issued>>
    BY <1>5 DEF InsertToken
  <2>4. SureIsStored'
    BY <2>1, <2>2
  <2>5. (DocumentsAreIssued /\ IssuedIsRow)'
    BY <2>1, <2>2, <2>3
  <2>6. OneDocument'
    BY <2>1, <2>2, <2>3
  <2> QED
    BY <2>4, <2>5, <2>6
<1>6. ASSUME NEW s \in Slots, InsertTokenFails(s) PROVE Goal
  BY <1>6 DEF InsertTokenFails, Document
<1>7. ASSUME NEW s \in Slots, Answer(s) PROVE Goal
  BY <1>7 DEF Answer, Finish
<1>8. ASSUME NEW s \in Slots, FindToken(s) PROVE Goal
  BY <1>8 DEF FindToken, Filter
<1>9. ASSUME NEW s \in Slots, NoToken(s) \/ FindTokenFails(s) PROVE Goal
  BY <1>9 DEF NoToken, FindTokenFails, Filter
<1>10. ASSUME NEW s \in Slots, NEW t \in handed \cup {Forged}, StartRequest(s, t)
       PROVE  Goal
  BY <1>10 DEF StartRequest
<1>11. ASSUME NEW d \in wire, LateInsert(d) \/ LateLost(d) PROVE Goal
  BY <1>11 DEF LateInsert, LateLost
<1>12. CASE Tick
  BY <1>12 DEF Tick
<1>13. CASE Crash
  BY <1>13 DEF Crash, Document
<1>14. CASE UNCHANGED vars
  BY <1>14 DEF vars
<1> QED
  BY <1>1, <1>2, <1>3, <1>4, <1>5, <1>6, <1>7, <1>8, <1>9, <1>10, <1>11, <1>12, <1>13,
     <1>14
  DEF Next, Login, Guard

\* Logins keep their tokens to themselves until they hand them out.
LEMMA NextTokens == IInv /\ [Next]_vars => (OwnToken /\ CarriedIsHanded)'
<1> SUFFICES ASSUME IInv, [Next]_vars PROVE (OwnToken /\ CarriedIsHanded)'
  OBVIOUS
<1> DEFINE Goal == (OwnToken /\ CarriedIsHanded)'
<1>t. TypeOK /\ TypeOK'
  BY NextType DEF IInv
<1> USE <1>t, NoneAssumption, ForgedAssumption, LifeAssumption, MaxTimeAssumption
    DEF IInv, TypeOK, Documents, Checks, DocumentsAreIssued, IssuedIsRow, OwnToken,
        LoggingIn, CarriedIsHanded, SureIsStored, OneDocument, PassersAreSure,
        OnlyVerified, ExpiresInTime, At, Goto, storeVars, slotVars
<1>1. ASSUME NEW l \in Logins, NEW p \in Passwords, Register(l, p) PROVE Goal
  BY <1>1 DEF Register
<1>2. ASSUME NEW s \in Slots, NEW l \in Logins, NEW p \in Passwords, NEW t \in Tokens,
             StartLogin(s, l, p, t)
      PROVE  Goal
  BY <1>2 DEF StartLogin
<1>3. ASSUME NEW s \in Slots, Verify(s) PROVE Goal
  BY <1>3 DEF Verify, Matches
<1>4. ASSUME NEW s \in Slots, Reject(s) \/ Leave(s) PROVE Goal
  BY <1>4 DEF Reject, Leave, Finish
<1>5. ASSUME NEW s \in Slots, InsertToken(s) PROVE Goal
  BY <1>5 DEF InsertToken, Document
<1>6. ASSUME NEW s \in Slots, InsertTokenFails(s) PROVE Goal
  BY <1>6 DEF InsertTokenFails, Document
<1>7. ASSUME NEW s \in Slots, Answer(s) PROVE Goal
  BY <1>7 DEF Answer, Finish
<1>8. ASSUME NEW s \in Slots, FindToken(s) PROVE Goal
  BY <1>8 DEF FindToken, Filter
<1>9. ASSUME NEW s \in Slots, NoToken(s) \/ FindTokenFails(s) PROVE Goal
  BY <1>9 DEF NoToken, FindTokenFails, Filter
<1>10. ASSUME NEW s \in Slots, NEW t \in handed \cup {Forged}, StartRequest(s, t)
       PROVE  Goal
  BY <1>10 DEF StartRequest
<1>11. ASSUME NEW d \in wire, LateInsert(d) \/ LateLost(d) PROVE Goal
  BY <1>11 DEF LateInsert, LateLost
<1>12. CASE Tick
  BY <1>12 DEF Tick
<1>13. CASE Crash
  BY <1>13 DEF Crash, Document
<1>14. CASE UNCHANGED vars
  BY <1>14 DEF vars
<1> QED
  BY <1>1, <1>2, <1>3, <1>4, <1>5, <1>6, <1>7, <1>8, <1>9, <1>10, <1>11, <1>12, <1>13,
     <1>14
  DEF Next, Login, Guard

\* Requests are judged by their token's check.
LEMMA NextRequests == IInv /\ [Next]_vars => (PassersAreSure /\ OnlyVerified /\ ExpiresInTime)'
<1> SUFFICES ASSUME IInv, [Next]_vars PROVE (PassersAreSure /\ OnlyVerified /\ ExpiresInTime)'
  OBVIOUS
<1> DEFINE Goal == (PassersAreSure /\ OnlyVerified /\ ExpiresInTime)'
<1>t. TypeOK /\ TypeOK'
  BY NextType DEF IInv
<1> USE <1>t, NoneAssumption, ForgedAssumption, LifeAssumption, MaxTimeAssumption
    DEF IInv, TypeOK, Documents, Checks, DocumentsAreIssued, IssuedIsRow, OwnToken,
        LoggingIn, CarriedIsHanded, SureIsStored, OneDocument, PassersAreSure,
        OnlyVerified, ExpiresInTime, At, Goto, storeVars, slotVars
<1>1. ASSUME NEW l \in Logins, NEW p \in Passwords, Register(l, p) PROVE Goal
  BY <1>1 DEF Register
<1>2. ASSUME NEW s \in Slots, NEW l \in Logins, NEW p \in Passwords, NEW t \in Tokens,
             StartLogin(s, l, p, t)
      PROVE  Goal
  BY <1>2 DEF StartLogin
<1>3. ASSUME NEW s \in Slots, Verify(s) PROVE Goal
  BY <1>3 DEF Verify, Matches
<1>4. ASSUME NEW s \in Slots, Reject(s) \/ Leave(s) PROVE Goal
  BY <1>4 DEF Reject, Leave, Finish
<1>5. ASSUME NEW s \in Slots, InsertToken(s) PROVE Goal
  BY <1>5 DEF InsertToken, Document
<1>6. ASSUME NEW s \in Slots, InsertTokenFails(s) PROVE Goal
  BY <1>6 DEF InsertTokenFails, Document
<1>7. ASSUME NEW s \in Slots, Answer(s) PROVE Goal
  BY <1>7 DEF Answer, Finish
<1>8. ASSUME NEW s \in Slots, FindToken(s) PROVE Goal
  BY <1>8 DEF FindToken, Filter
<1>9. ASSUME NEW s \in Slots, NoToken(s) \/ FindTokenFails(s) PROVE Goal
  BY <1>9 DEF NoToken, FindTokenFails, Filter
<1>10. ASSUME NEW s \in Slots, NEW t \in handed \cup {Forged}, StartRequest(s, t)
       PROVE  Goal
  BY <1>10 DEF StartRequest
<1>11. ASSUME NEW d \in wire, LateInsert(d) \/ LateLost(d) PROVE Goal
  BY <1>11 DEF LateInsert, LateLost
<1>12. CASE Tick
  BY <1>12 DEF Tick
<1>13. CASE Crash
  BY <1>13 DEF Crash, Document
<1>14. CASE UNCHANGED vars
  BY <1>14 DEF vars
<1> QED
  BY <1>1, <1>2, <1>3, <1>4, <1>5, <1>6, <1>7, <1>8, <1>9, <1>10, <1>11, <1>12, <1>13,
     <1>14
  DEF Next, Login, Guard

\* No step breaks the inductive invariant, so every reachable state has it.
THEOREM Invariant == Spec => []IInv
<1>1. IInv /\ [Next]_vars => IInv'
  BY NextType, NextDocuments, NextTokens, NextRequests DEF IInv
<1> QED
  BY InitInv, <1>1, PTL DEF Spec

-----------------------------------------------------------------------------
(* The properties *)

\* Every reachable state is well typed.
THEOREM TypeCorrect == Spec => []TypeOK
<1>1. IInv => TypeOK
  BY DEF IInv
<1> QED
  BY Invariant, <1>1, PTL

\* Nobody is let in but as the user whose password was checked for the token.
THEOREM OnlyVerifiedHolds == Spec => []OnlyVerified
<1>1. IInv => OnlyVerified
  BY DEF IInv
<1> QED
  BY Invariant, <1>1, PTL

\* No token lets in a request that arrives Life after its check.
THEOREM ExpiresInTimeHolds == Spec => []ExpiresInTime
<1>1. IInv => ExpiresInTime
  BY DEF IInv
<1> QED
  BY Invariant, <1>1, PTL

\* A token known to be good is good for Life.
THEOREM GoodTokenPassesHolds == Spec => []GoodTokenPasses
<1>1. IInv => GoodTokenPasses
  BY DEF IInv, PassersAreSure, GoodTokenPasses, At
<1> QED
  BY Invariant, <1>1, PTL

-----------------------------------------------------------------------------
(* The refinement: Sessions implements SessionStorage *)

\* A document that is stored is a LoginUser of the storage.
LEMMA Storing ==
  ASSUME IInv, UNCHANGED <<users, LetIn>>, NEW d \in Documents,
         docs' = docs \cup {d},
         issued[d.id] # None, d.login = issued[d.id].login,
         \A e \in docs : e.id # d.id
  PROVE  Storage!Next
<1> USE DEF IInv, TypeOK, Documents, Checks
<1>1. TokenMap' = TokenMap \cup {<<d.id, d.login>>}
  BY DEF TokenMap
<1>2. \A m \in Logins : <<d.id, m>> \notin TokenMap
  BY DEF TokenMap
<1>3. /\ issued[d.id] \in Checks
      /\ users[d.login] = issued[d.id].password
  BY DEF IssuedIsRow
<1>4. Storage!LoginUser(d.login, issued[d.id].password, d.id)
  BY <1>1, <1>2, <1>3 DEF Storage!LoginUser
<1>5. d.login \in Logins /\ issued[d.id].password \in Passwords /\ d.id \in Tokens
  BY <1>3
<1> QED
  BY <1>4, <1>5 DEF Storage!Next

\* Every step is a step of the storage or a stutter.
LEMMA StepRefines == IInv /\ IInv' /\ [Next]_vars => [Storage!Next]_(Storage!vars)
<1> SUFFICES ASSUME IInv, IInv', [Next]_vars PROVE [Storage!Next]_(Storage!vars)
  OBVIOUS
<1> DEFINE Goal == [Storage!Next]_(Storage!vars)
<1> USE DEF storeVars, slotVars, At, Goto, Storage!vars
\* Steps that neither store anything nor begin or end the stay of a request.
<1>s. ASSUME UNCHANGED <<users, docs>>,
             \A s \in Slots : At(s, "serve")' <=> At(s, "serve"),
             \A s \in Slots : At(s, "serve") => UNCHANGED <<token[s], login[s]>>
      PROVE  Goal
  BY <1>s DEF TokenMap, LetIn
<1>t. TypeOK
  BY DEF IInv
<1>1. ASSUME NEW l \in Logins, NEW p \in Passwords, Register(l, p) PROVE Goal
  <2>1. Storage!AddUser(l, p)
    BY <1>1 DEF Register, Storage!AddUser, TokenMap, LetIn
  <2> QED
    BY <2>1 DEF Storage!Next
<1>2. ASSUME NEW s \in Slots, NEW l \in Logins, NEW p \in Passwords, NEW t \in Tokens,
             StartLogin(s, l, p, t)
      PROVE  Goal
  BY <1>2, <1>s, <1>t DEF StartLogin, TypeOK
<1>3. ASSUME NEW s \in Slots, Verify(s) PROVE Goal
  BY <1>3, <1>s, <1>t DEF Verify, TypeOK
<1>4. ASSUME NEW s \in Slots, Reject(s) PROVE Goal
  BY <1>4, <1>s, <1>t DEF Reject, Finish, TypeOK
<1>5. ASSUME NEW s \in Slots, InsertToken(s) PROVE Goal
  <2>1. Document(s) \in Documents
    BY <1>5, DocumentType DEF InsertToken, IInv
  <2>2. /\ docs' = docs \cup {Document(s)}
        /\ UNCHANGED users
    BY <1>5 DEF InsertToken
  <2>3. UNCHANGED LetIn
    BY <1>5, <1>t DEF InsertToken, LetIn, TypeOK
  <2>4. /\ issued[Document(s).id] # None
        /\ Document(s).login = issued[Document(s).id].login
        /\ \A e \in docs : e.id # Document(s).id
    BY <1>5 DEF InsertToken, Document, IInv, OwnToken, LoggingIn
  <2> QED
    BY <2>1, <2>2, <2>3, <2>4, Storing
<1>6. ASSUME NEW s \in Slots, InsertTokenFails(s) PROVE Goal
  BY <1>6, <1>s, <1>t DEF InsertTokenFails, TypeOK
<1>7. ASSUME NEW s \in Slots, Answer(s) PROVE Goal
  BY <1>7, <1>s, <1>t DEF Answer, Finish, TypeOK
<1>8. ASSUME NEW s \in Slots, FindToken(s) PROVE Goal
  <2>1. PICK d \in docs : Filter(s, d) /\ login' = [login EXCEPT ![s] = d.login]
    BY <1>8 DEF FindToken
  <2>2. <<token[s], d.login>> \in TokenMap
    BY <2>1 DEF TokenMap, Filter
  <2>3. LetIn' = [LetIn EXCEPT ![s] = <<token[s], d.login>>]
    BY <1>8, <1>t, <2>1 DEF FindToken, LetIn, TypeOK
  <2>4. UNCHANGED <<users, TokenMap>>
    BY <1>8 DEF FindToken, TokenMap
  <2>5. Storage!GetLoginByToken(s, token[s], d.login)
    BY <2>2, <2>3, <2>4 DEF Storage!GetLoginByToken
  <2>6. token[s] \in Tokens /\ d.login \in Logins
    BY <1>t, <2>1 DEF TypeOK, Documents, Filter
  <2> QED
    BY <2>5, <2>6 DEF Storage!Next
<1>9. ASSUME NEW s \in Slots, NoToken(s) \/ FindTokenFails(s) PROVE Goal
  BY <1>9, <1>s, <1>t DEF NoToken, FindTokenFails, TypeOK
<1>10. ASSUME NEW s \in Slots, NEW t \in handed \cup {Forged}, StartRequest(s, t)
       PROVE  Goal
  BY <1>10, <1>s, <1>t DEF StartRequest, TypeOK
<1>11. ASSUME NEW d \in wire, LateInsert(d) PROVE Goal
  <2>1. d \in Documents /\ issued[d.id] # None /\ d.login = issued[d.id].login
    BY DEF IInv, TypeOK, DocumentsAreIssued
  <2>2. \A e \in docs : e.id # d.id
    BY DEF IInv, OneDocument
  <2>3. UNCHANGED <<users, LetIn>> /\ docs' = docs \cup {d}
    BY <1>11 DEF LateInsert, LetIn
  <2> QED
    BY <2>1, <2>2, <2>3, Storing
<1>12. ASSUME NEW d \in wire, LateLost(d) PROVE Goal
  BY <1>12, <1>s DEF LateLost
<1>13. CASE Tick
  BY <1>13, <1>s DEF Tick
\* A request leaves, or a crash takes them all: what they were told is gone.
<1>14. ASSUME NEW s \in Slots, Leave(s) PROVE Goal
  <2>1. LetIn' = [x \in Slots |-> IF x \in {s} THEN None ELSE LetIn[x]]
    BY <1>14, <1>t DEF Leave, Finish, LetIn, TypeOK
  <2>2. UNCHANGED <<users, TokenMap>>
    BY <1>14 DEF Leave, TokenMap
  <2> QED
    BY <2>1, <2>2 DEF Storage!Next, Storage!Return
<1>15. CASE Crash
  <2>1. LetIn' = [x \in Slots |-> IF x \in Slots THEN None ELSE LetIn[x]]
    BY <1>15 DEF Crash, LetIn
  <2>2. UNCHANGED <<users, TokenMap>>
    BY <1>15 DEF Crash, TokenMap
  <2> QED
    BY <2>1, <2>2 DEF Storage!Next, Storage!Return
<1>16. CASE UNCHANGED vars
  BY <1>16, <1>s DEF vars
<1> QED
  BY <1>1, <1>2, <1>3, <1>4, <1>5, <1>6, <1>7, <1>8, <1>9, <1>10, <1>11, <1>12, <1>13,
     <1>14, <1>15, <1>16
  DEF Next, Login, Guard

\* Clocks, failures and late inserts are details: what a request is let in by
\* is a map of tokens that logins with the right password have filled.
THEOREM Refinement == Spec => ImplementsStorage
<1>1. Init => Storage!Init
  BY DEF Init, Storage!Init, TokenMap, LetIn, At
<1>2. IInv /\ IInv' /\ [Next]_vars => [Storage!Next]_(Storage!vars)
  BY StepRefines
<1> QED
  BY <1>1, <1>2, Invariant, PTL DEF Spec, ImplementsStorage, Storage!Spec
=============================================================================
