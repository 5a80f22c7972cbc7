----------------------- MODULE SupplierSessions_proofs -----------------------
(***************************************************************************)
(* What TLAPS proves of SupplierSessions, for any number of requests,      *)
(* browsers and tokens, any TTLs and any lag, with or without faults.      *)
(***************************************************************************)
EXTENDS SupplierSessions, TLAPS

LEMMA KeyValues == NoToken \notin Keys /\ Same \notin Keys /\ NoToken # Same
BY ConstantsAssumption DEF Keys, NoToken, Same

LEMMA Durations ==
  /\ TokenTTL \in Nat \ {0} /\ CacheTTL \in Nat \ {0} /\ MaxLag \in Nat
  /\ Grace \in Nat /\ CacheTTL <= Grace /\ Grace = CacheTTL + MaxLag
BY ConstantsAssumption DEF Grace

LEMMA DownFacts ==
  \A n \in Nat : /\ Down(n) \in Nat /\ EntryLeft(n) = Down(n)
                 /\ n = 0 => Down(n) = 0
                 /\ n > 0 => Down(n) = n - 1
BY DEF Down, EntryLeft
-----------------------------------------------------------------------------
(* Types *)

LEMMA InitTypeOK == Init => TypeOK
BY ConstantsAssumption, Durations
   DEF Init, TypeOK, PCs, Keys, NoToken, Same

LEMMA DashboardTypeOK ==
  ASSUME TypeOK, NEW r \in Requests,
         \/ \E b \in Browsers : Open(r, b) \/ Login(r, b) \/ Logout(r, b)
         \/ CheckThreshold(r) \/ IntrospectFails(r) \/ CallFails(r)
         \/ Answer(r) \/ AnswerLost(r)
  PROVE  TypeOK'
<1> USE KeyValues
    DEF TypeOK, PCs, LookupPCs, RefreshPCs, IssuePCs, Goto, Reply, KeepRest, Done, tokens, locals, history
<1>1. ASSUME NEW b \in Browsers, Open(r, b)  PROVE TypeOK'
  BY <1>1 DEF Open
<1>2. ASSUME NEW b \in Browsers, Login(r, b)  PROVE TypeOK'
  BY <1>2 DEF Login
<1>3. ASSUME NEW b \in Browsers, Logout(r, b)  PROVE TypeOK'
  BY <1>3 DEF Logout
<1>4. CASE CheckThreshold(r)
  BY <1>4 DEF CheckThreshold
<1>5. CASE IntrospectFails(r)
  BY <1>5 DEF IntrospectFails
<1>6. CASE CallFails(r)
  BY <1>6 DEF CallFails
<1>7. CASE Answer(r)
  BY <1>7 DEF Answer
<1>8. CASE AnswerLost(r)
  BY <1>8 DEF AnswerLost
<1>9. QED  BY <1>1, <1>2, <1>3, <1>4, <1>5, <1>6, <1>7, <1>8

LEMMA ServiceTypeOK ==
  ASSUME TypeOK, NEW r \in Requests, Introspect(r) \/ Refresh(r) \/ Issue(r)
  PROVE  TypeOK'
<1> USE KeyValues, Durations
    DEF TypeOK, PCs, LookupPCs, RefreshPCs, IssuePCs, Goto, Reply, KeepRest, tokens, locals, history
<1>1. CASE GetIntrospection(r)
  BY <1>1 DEF GetIntrospection
<1>2. CASE FindForIntrospect(r)
  <2>1. 0 \in 0 .. MaxLag
    OBVIOUS
  <2>2. QED  BY <1>2, <2>1 DEF FindForIntrospect
<1>3. CASE SetIntrospection(r)
  <2>1. 0 \in 0 .. MaxLag /\ CacheTTL \in 0 .. CacheTTL
    OBVIOUS
  <2>2. slipped' \subseteq Requests
    BY <1>3 DEF SetIntrospection, Refreshing
  <2>3. QED  BY <1>3, <2>1, <2>2 DEF SetIntrospection
<1>4. CASE Invalidate(r)
  <2>1. 0 \in 0 .. CacheTTL
    OBVIOUS
  <2>2. QED  BY <1>4, <2>1 DEF Invalidate
<1>5. CASE FindForRefresh(r)
  BY <1>5 DEF FindForRefresh
<1>6. CASE DeleteTokens(r)
  BY <1>6 DEF DeleteTokens, There
<1>7. CASE CreateToken(r)
  <2>1. nextKey' \in 1 .. MaxTokens + 1
    BY <1>7, ConstantsAssumption DEF CreateToken, Keys
  <2>2. QED  BY <1>7, <2>1 DEF CreateToken
<1>8. CASE CreateFails(r)
  BY <1>8 DEF CreateFails
<1>9. QED
  BY <1>1, <1>2, <1>3, <1>4, <1>5, <1>6, <1>7, <1>8 DEF Introspect, Refresh, Issue

LEMMA TickTypeOK == TypeOK /\ Tick => TypeOK'
<1> SUFFICES ASSUME TypeOK, Tick  PROVE TypeOK'
  OBVIOUS
<1> USE DEF TypeOK, Tick, tokens, locals, history
<1>1. left' \in [Keys -> 0 .. TokenTTL] /\ cache' \in [Keys -> 0 .. CacheTTL]
  BY Durations DEF Down, EntryLeft
<1>2. lag' \in [Requests -> 0 .. MaxLag]
  BY Durations
<1>3. age' \in [Keys -> 0 .. Grace + 1]
  BY Durations
<1>4. QED  BY <1>1, <1>2, <1>3

LEMMA NextTypeOK == TypeOK /\ [Next]_vars => TypeOK'
<1> SUFFICES ASSUME TypeOK, [Next]_vars  PROVE TypeOK'
  OBVIOUS
<1>1. CASE UNCHANGED vars
  BY <1>1 DEF vars, tokens, locals, history, TypeOK
<1>2. CASE Tick
  BY <1>2, TickTypeOK
<1>3. QED
  BY <1>1, <1>2, DashboardTypeOK, ServiceTypeOK DEF Next, Step

\* Every variable of a session has its type.
THEOREM TypeCorrect == Spec => []TypeOK
BY InitTypeOK, NextTypeOK, PTL DEF Spec
-----------------------------------------------------------------------------
(* Which steps change what *)

Steps(r) ==
  \/ \E b \in Browsers : Open(r, b) \/ Login(r, b) \/ Logout(r, b)
  \/ CheckThreshold(r) \/ IntrospectFails(r) \/ CallFails(r) \/ Answer(r) \/ AnswerLost(r)
  \/ GetIntrospection(r) \/ FindForIntrospect(r) \/ FindForRefresh(r) \/ DeleteTokens(r)
  \/ CreateFails(r)

LEMMA NextCases ==
  ASSUME [Next]_vars
  PROVE  \/ \E r \in Requests : \/ Steps(r) \/ SetIntrospection(r) \/ Invalidate(r)
                                \/ CreateToken(r)
         \/ Tick
         \/ UNCHANGED vars
BY DEF Next, Step, Steps, Introspect, Refresh, Issue

LEMMA StepsKeepTokens ==
  ASSUME NEW r \in Requests, Steps(r)  PROVE UNCHANGED <<tokens, cache>>
BY DEF Steps, Open, Login, Logout, CheckThreshold, IntrospectFails, CallFails, Answer,
       AnswerLost, Done, GetIntrospection, FindForIntrospect, FindForRefresh, DeleteTokens,
       CreateFails, KeepRest

\* A fill under way goes on, or starts with a valid token.
LEMMA FillsStartValid ==
  ASSUME TypeOK, NEW r \in Requests, NEW q \in Requests,
         Steps(r) \/ SetIntrospection(r) \/ Invalidate(r) \/ CreateToken(r),
         pc'[q] = "fill"
  PROVE  /\ token'[q] = token[q]
         /\ \/ pc[q] = "fill" /\ lag'[q] = lag[q]
            \/ Valid(token[q]) /\ UNCHANGED tokens
<1> USE DEF TypeOK, Goto, Reply, KeepRest, Done, locals
<1>1. ASSUME NEW b \in Browsers, Open(r, b) \/ Login(r, b) \/ Logout(r, b)
      PROVE  token'[q] = token[q] /\ pc[q] = "fill" /\ lag'[q] = lag[q]
  BY <1>1 DEF Open, Login, Logout
<1>2. ASSUME CheckThreshold(r) \/ IntrospectFails(r) \/ CallFails(r) \/ Answer(r)
             \/ AnswerLost(r) \/ GetIntrospection(r)
      PROVE  token'[q] = token[q] /\ pc[q] = "fill" /\ lag'[q] = lag[q]
  BY <1>2 DEF CheckThreshold, IntrospectFails, CallFails, Answer, AnswerLost, GetIntrospection
<1>3. ASSUME FindForRefresh(r) \/ DeleteTokens(r) \/ CreateFails(r) \/ CreateToken(r)
             \/ SetIntrospection(r) \/ Invalidate(r)
      PROVE  token'[q] = token[q] /\ pc[q] = "fill" /\ lag'[q] = lag[q]
  BY <1>3 DEF FindForRefresh, DeleteTokens, CreateFails, CreateToken, SetIntrospection,
              Invalidate
<1>4. CASE FindForIntrospect(r)
  BY <1>4 DEF FindForIntrospect
<1>5. QED  BY <1>1, <1>2, <1>3, <1>4 DEF Steps
-----------------------------------------------------------------------------
(* Tokens: keys are used once, and age counts from the end of validity *)

RowsInv == KeysAreFresh /\ YoungUnlessInvalid

LEMMA CreateTokenFacts ==
  ASSUME TypeOK, RowsInv, NEW r \in Requests, CreateToken(r)
  PROVE  /\ RowsInv'
         /\ row[nextKey] = "none" /\ row'[nextKey] = "there" /\ left'[nextKey] > 0
         /\ nextKey \in Keys
         /\ \A k \in Keys \ {nextKey} :
              /\ row'[k] = IF k \in doomed[r] THEN "deleted" ELSE row[k]
              /\ left'[k] = left[k] /\ (row'[k] = "none" <=> row[k] = "none")
         /\ age' = age /\ cache' = cache
<1> USE DEF TypeOK, RowsInv
<1>1. /\ row[nextKey] = "none" /\ age' = age /\ cache' = cache
      /\ row'[nextKey] = "there" /\ left'[nextKey] = TokenTTL
      /\ nextKey \in Keys /\ nextKey' = nextKey + 1
      /\ \A k \in Keys \ {nextKey} : /\ row'[k] = IF k \in doomed[r] THEN "deleted" ELSE row[k]
                                     /\ left'[k] = left[k]
  BY DEF CreateToken, KeysAreFresh, Keys
<1>2. TokenTTL > 0
  BY Durations
<1>3. KeysAreFresh'
  <2> SUFFICES ASSUME NEW k \in Keys
               PROVE  /\ row'[k] = "none" <=> k >= nextKey'
                      /\ k >= nextKey' => \A q \in Requests : k \notin doomed'[q]
    BY DEF KeysAreFresh
  <2>1. \A q \in Requests : doomed'[q] \subseteq doomed[q]
    BY DEF CreateToken
  <2>2. k >= nextKey' <=> k >= nextKey /\ k # nextKey
    BY <1>1 DEF Keys
  <2>3. k # nextKey => (row'[k] = "none" <=> k >= nextKey)
    BY <1>1 DEF KeysAreFresh
  <2>4. QED  BY <1>1, <2>1, <2>2, <2>3 DEF KeysAreFresh
<1>4. \A k \in Keys \ {nextKey} : row'[k] = "none" <=> row[k] = "none"
  BY <1>1 DEF KeysAreFresh
<1>5. YoungUnlessInvalid'
  <2> SUFFICES ASSUME NEW k \in Keys, Valid(k)' \/ row'[k] = "none"  PROVE age[k] = 0
    BY <1>1 DEF YoungUnlessInvalid
  <2>1. CASE k = nextKey
    BY <1>1, <2>1 DEF YoungUnlessInvalid
  <2>2. CASE k # nextKey
    <3>1. Valid(k) \/ row[k] = "none"
      BY <1>1, <1>4, <2>2 DEF Valid
    <3>2. QED  BY <3>1 DEF YoungUnlessInvalid
  <2>3. QED  BY <2>1, <2>2
<1>6. QED  BY <1>1, <1>2, <1>3, <1>4, <1>5

LEMMA InitRows == Init => RowsInv
BY DEF Init, RowsInv, KeysAreFresh, YoungUnlessInvalid, Valid, Keys

LEMMA NextRows ==
  ASSUME TypeOK, RowsInv, [Next]_vars  PROVE RowsInv'
<1> USE DEF TypeOK, RowsInv, KeysAreFresh, YoungUnlessInvalid
<1>1. CASE Tick
  <2>1. row' = row /\ nextKey' = nextKey /\ doomed' = doomed
    BY <1>1 DEF Tick, tokens
  <2>2. \A k \in Keys : Valid(k)' \/ row[k] = "none" => age'[k] = 0
    <3> SUFFICES ASSUME NEW k \in Keys, Valid(k)' \/ row[k] = "none"  PROVE age'[k] = 0
      OBVIOUS
    <3>1. Valid(k) \/ row[k] = "none"
      BY <1>1, <2>1, DownFacts DEF Tick, Valid
    <3>2. QED  BY <1>1, <3>1 DEF Tick
  <2>3. QED  BY <2>1, <2>2
<1>2. ASSUME NEW r \in Requests, CreateToken(r)  PROVE RowsInv'
  BY <1>2, CreateTokenFacts
<1>3. ASSUME NEW r \in Requests, DeleteTokens(r)  PROVE RowsInv'
  <2>1. \A k \in Keys : k >= nextKey => k \notin There
    BY DEF There
  <2>2. \A q \in Requests : doomed'[q] \subseteq doomed[q] \union There
    BY <1>3 DEF DeleteTokens
  <2>3. UNCHANGED tokens
    BY <1>3 DEF DeleteTokens
  <2>4. QED  BY <2>1, <2>2, <2>3 DEF tokens, Valid
<1>4. ASSUME NEW r \in Requests, CreateFails(r)  PROVE RowsInv'
  <2>1. \A q \in Requests : doomed'[q] \subseteq doomed[q]
    BY <1>4 DEF CreateFails
  <2>2. UNCHANGED tokens
    BY <1>4 DEF CreateFails
  <2>3. QED  BY <2>1, <2>2 DEF tokens, Valid
<1>5. ASSUME UNCHANGED <<tokens, doomed>>  PROVE RowsInv'
  BY <1>5 DEF tokens, Valid
<1>6. ASSUME NEW r \in Requests,
             Steps(r) \/ SetIntrospection(r) \/ Invalidate(r)
      PROVE  UNCHANGED <<tokens, doomed>> \/ DeleteTokens(r) \/ CreateFails(r)
  BY <1>6 DEF Steps, SetIntrospection, Invalidate, Open, Login, Logout, CheckThreshold,
              IntrospectFails, CallFails, Answer, AnswerLost, Done, GetIntrospection,
              FindForIntrospect, FindForRefresh, KeepRest
<1>7. UNCHANGED vars => UNCHANGED <<tokens, doomed>>
  BY DEF vars, locals
<1>8. QED
  BY <1>1, <1>2, <1>3, <1>4, <1>5, <1>6, <1>7, NextCases
-----------------------------------------------------------------------------
(* Stale entries *)

LEMMA NextFillsAreRecent ==
  ASSUME TypeOK, RowsInv, FillsAreRecent, [Next]_vars  PROVE FillsAreRecent'
<1> SUFFICES ASSUME NEW q \in Requests, NEW k \in Keys, token'[q] = k,
                    pc'[q] = "fill", ~Valid(k)'
             PROVE  age'[k] <= lag'[q]
  BY DEF FillsAreRecent
<1> USE DEF TypeOK, RowsInv
<1>1. CASE Tick
  <2>1. row' = row /\ token[q] = k /\ pc[q] = "fill" /\ lag'[q] = lag[q] + 1
    BY <1>1 DEF Tick, locals
  <2>2. CASE Valid(k)
    BY <1>1, <2>1, <2>2 DEF Tick, YoungUnlessInvalid
  <2>3. CASE ~Valid(k)
    <3>1. age[k] <= lag[q]
      BY <2>1, <2>3 DEF FillsAreRecent
    <3>2. age'[k] <= age[k] + 1
      BY <1>1 DEF Tick
    <3>3. QED  BY <1>1, <2>1, <3>1, <3>2 DEF Tick
  <2>4. QED  BY <2>2, <2>3
<1>2. ASSUME NEW r \in Requests, CreateToken(r)  PROVE age'[k] <= lag'[q]
  <2>1. token[q] = k /\ (\/ pc[q] = "fill" /\ lag'[q] = lag[q]
                         \/ Valid(k) /\ UNCHANGED tokens)
    BY <1>2, FillsStartValid
  <2>2. age' = age
    BY <1>2, CreateTokenFacts
  <2>3. CASE UNCHANGED tokens
    BY <2>1, <2>3, <1>2, CreateTokenFacts DEF tokens
  <2>4. CASE pc[q] = "fill" /\ lag'[q] = lag[q]
    <3>1. Valid(k) => age[k] = 0
      BY DEF YoungUnlessInvalid
    <3>2. ~Valid(k) => age[k] <= lag[q]
      BY <2>1, <2>4 DEF FillsAreRecent
    <3>3. QED  BY <2>2, <2>4, <3>1, <3>2
  <2>5. QED  BY <2>1, <2>3, <2>4
<1>3. ASSUME NEW r \in Requests, Steps(r) \/ SetIntrospection(r) \/ Invalidate(r)
      PROVE  age'[k] <= lag'[q]
  <2>1. UNCHANGED tokens
    BY <1>3, StepsKeepTokens DEF SetIntrospection, Invalidate, KeepRest
  <2>2. ~Valid(k)
    BY <2>1 DEF tokens, Valid
  <2>3. token[q] = k /\ pc[q] = "fill" /\ lag'[q] = lag[q]
    BY <1>3, <2>2, FillsStartValid
  <2>4. QED  BY <2>1, <2>2, <2>3 DEF tokens, FillsAreRecent
<1>4. CASE UNCHANGED vars
  BY <1>4 DEF vars, tokens, locals, Valid, FillsAreRecent
<1>5. QED  BY <1>1, <1>2, <1>3, <1>4, NextCases

LEMMA NextStaleAcceptanceBounded ==
  ASSUME TypeOK, RowsInv, FillsAreRecent, StaleAcceptanceBounded, [Next]_vars
  PROVE  StaleAcceptanceBounded'
<1> SUFFICES ASSUME NEW k \in Keys, cache'[k] > 0, ~Valid(k)'
             PROVE  age'[k] + cache'[k] <= Grace
  BY DEF StaleAcceptanceBounded
<1> USE Durations DEF TypeOK, RowsInv
<1>1. CASE Tick
  <2>1. row' = row /\ cache[k] > 0 /\ cache'[k] = cache[k] - 1
    BY <1>1, DownFacts DEF Tick
  <2>2. CASE Valid(k)
    <3>1. age'[k] = 0
      BY <1>1, <2>2 DEF Tick, YoungUnlessInvalid
    <3>2. QED  BY <2>1, <3>1
  <2>3. CASE ~Valid(k)
    <3>1. age[k] + cache[k] <= Grace
      BY <2>1, <2>3 DEF StaleAcceptanceBounded
    <3>2. age'[k] <= age[k] + 1 /\ age'[k] \in Nat
      BY <1>1 DEF Tick
    <3>3. QED  BY <2>1, <3>1, <3>2
  <2>4. QED  BY <2>2, <2>3
<1>2. ASSUME NEW r \in Requests, CreateToken(r)  PROVE age'[k] + cache'[k] <= Grace
  <2>1. age' = age /\ cache' = cache
    BY <1>2, CreateTokenFacts
  <2>2. CASE Valid(k)
    BY <2>1, <2>2 DEF YoungUnlessInvalid
  <2>3. CASE ~Valid(k)
    BY <2>1, <2>3 DEF StaleAcceptanceBounded
  <2>4. QED  BY <2>2, <2>3
<1>3. ASSUME NEW r \in Requests, SetIntrospection(r)  PROVE age'[k] + cache'[k] <= Grace
  <2>1. UNCHANGED tokens /\ pc[r] = "fill"
    BY <1>3 DEF SetIntrospection, KeepRest
  <2>2. ~Valid(k) /\ age'[k] = age[k]
    BY <2>1 DEF tokens, Valid
  <2>3. CASE token[r] = k
    <3>1. age[k] <= lag[r] /\ lag[r] <= MaxLag
      BY <2>1, <2>2, <2>3 DEF FillsAreRecent
    <3>2. cache'[k] = CacheTTL
      BY <1>3, <2>3 DEF SetIntrospection
    <3>3. QED  BY <2>2, <3>1, <3>2
  <2>4. CASE token[r] # k
    <3>1. cache'[k] = cache[k]
      BY <1>3, <2>4 DEF SetIntrospection
    <3>2. QED  BY <2>2, <3>1 DEF StaleAcceptanceBounded
  <2>5. QED  BY <2>3, <2>4
<1>4. ASSUME UNCHANGED tokens, cache'[k] = cache[k]  PROVE age'[k] + cache'[k] <= Grace
  BY <1>4 DEF tokens, Valid, StaleAcceptanceBounded
<1>5. ASSUME NEW r \in Requests, Steps(r) \/ Invalidate(r)
      PROVE  UNCHANGED tokens /\ cache'[k] = cache[k]
  <2>1. CASE Steps(r)
    BY <2>1, StepsKeepTokens
  <2>2. CASE Invalidate(r)
    BY <2>2 DEF Invalidate, KeepRest
  <2>3. QED  BY <1>5, <2>1, <2>2
<1>6. UNCHANGED vars => UNCHANGED tokens /\ cache'[k] = cache[k]
  BY DEF vars
<1>7. QED  BY <1>1, <1>2, <1>3, <1>4, <1>5, <1>6, NextCases
-----------------------------------------------------------------------------
(* One active token *)

IssuesInv == MissedRowsRaced /\ OneTokenUnlessRaced

\* A step that is no issue neither enters nor leaves the transaction of an
\* issue with a row unseen.
LEMMA OtherStepsKeepIssues ==
  ASSUME TypeOK, NEW r \in Requests,
         Steps(r) \/ SetIntrospection(r) \/ Invalidate(r),
         ~DeleteTokens(r), ~CreateFails(r)
  PROVE  /\ UNCHANGED <<row, doomed, overlapped, raced>>
         /\ \A q \in Requests : pc'[q] = "create" => pc[q] = "create"
<1> USE DEF TypeOK, Goto, Reply, KeepRest, Done, tokens, locals, history
<1>1. ASSUME NEW b \in Browsers, Open(r, b) \/ Login(r, b) \/ Logout(r, b)
      PROVE  /\ UNCHANGED <<row, doomed, overlapped, raced>>
             /\ \A q \in Requests : pc'[q] = "create" => pc[q] = "create"
  BY <1>1 DEF Open, Login, Logout
<1>2. ASSUME CheckThreshold(r) \/ IntrospectFails(r) \/ CallFails(r) \/ Answer(r)
             \/ AnswerLost(r) \/ GetIntrospection(r)
      PROVE  /\ UNCHANGED <<row, doomed, overlapped, raced>>
             /\ \A q \in Requests : pc'[q] = "create" => pc[q] = "create"
  BY <1>2 DEF CheckThreshold, IntrospectFails, CallFails, Answer, AnswerLost, GetIntrospection
<1>3. ASSUME FindForIntrospect(r) \/ FindForRefresh(r) \/ SetIntrospection(r) \/ Invalidate(r)
      PROVE  /\ UNCHANGED <<row, doomed, overlapped, raced>>
             /\ \A q \in Requests : pc'[q] = "create" => pc[q] = "create"
  BY <1>3 DEF FindForIntrospect, FindForRefresh, SetIntrospection, Invalidate
<1>4. QED  BY <1>1, <1>2, <1>3 DEF Steps

LEMMA NextIssues ==
  ASSUME TypeOK, RowsInv, IssuesInv, [Next]_vars  PROVE IssuesInv'
<1> USE DEF TypeOK, IssuesInv
<1>1. ASSUME NEW r \in Requests, CreateToken(r)  PROVE IssuesInv'
  <2> DEFINE others == {q \in Requests \ {r} : pc[q] = "create"}
             raced2 == IF others # {} \/ r \in overlapped THEN raced \union {nextKey} ELSE raced
  <2>1. /\ raced' = raced2 /\ overlapped' = (overlapped \union others) \ {r}
        /\ doomed' = [doomed EXCEPT ![r] = {}] /\ pc' = [pc EXCEPT ![r] = "reply"]
        /\ pc[r] = "create"
    BY <1>1 DEF CreateToken, Reply, Goto
  <2>2. There' \subseteq {nextKey} \union (There \ doomed[r])
    BY <1>1, CreateTokenFacts DEF There
  <2> HIDE DEF others
  <2>3. MissedRowsRaced'
    <3> SUFFICES ASSUME NEW q \in Requests, pc'[q] = "create",
                        NEW k \in There', k \notin doomed'[q]
                 PROVE  k \in raced' /\ q \in overlapped'
      BY DEF MissedRowsRaced
    <3>1. q # r /\ pc[q] = "create" /\ k \notin doomed[q] /\ q \in overlapped'
      BY <2>1 DEF others
    <3>2. others # {}
      BY <3>1 DEF others
    <3>3. CASE k = nextKey
      BY <2>1, <3>1, <3>2, <3>3
    <3>4. CASE k \in There
      BY <2>1, <3>1, <3>4 DEF MissedRowsRaced
    <3>5. QED  BY <2>2, <3>3, <3>4
  <2>4. OneTokenUnlessRaced'
    <3> SUFFICES ASSUME NEW j \in There', NEW k \in There', j # k
                 PROVE  j \in raced' /\ k \in raced'
      BY DEF OneTokenUnlessRaced
    <3>1. \A i \in There \ doomed[r] : i \in raced /\ r \in overlapped
      BY <2>1 DEF MissedRowsRaced
    <3>2. CASE j = nextKey \/ k = nextKey
      BY <2>1, <2>2, <3>1, <3>2
    <3>3. CASE j # nextKey /\ k # nextKey
      BY <2>1, <2>2, <3>3 DEF OneTokenUnlessRaced
    <3>4. QED  BY <3>2, <3>3
  <2>5. QED  BY <2>3, <2>4
<1>2. ASSUME NEW r \in Requests, DeleteTokens(r)  PROVE IssuesInv'
  <2>1. /\ There' = There /\ UNCHANGED <<overlapped, raced>>
        /\ doomed' = [doomed EXCEPT ![r] = There] /\ pc' = [pc EXCEPT ![r] = "create"]
    BY <1>2 DEF DeleteTokens, There, tokens, history, Goto
  <2>2. MissedRowsRaced'
    BY <2>1 DEF MissedRowsRaced
  <2>3. QED  BY <2>1, <2>2 DEF OneTokenUnlessRaced
<1>3. ASSUME NEW r \in Requests, CreateFails(r)  PROVE IssuesInv'
  <2>1. /\ There' = There /\ raced' = raced /\ overlapped' = overlapped \ {r}
        /\ doomed' = [doomed EXCEPT ![r] = {}] /\ pc' = [pc EXCEPT ![r] = "reply"]
    BY <1>3 DEF CreateFails, There, tokens, Reply, Goto
  <2>2. MissedRowsRaced'
    BY <2>1 DEF MissedRowsRaced
  <2>3. QED  BY <2>1, <2>2 DEF OneTokenUnlessRaced
<1>4. ASSUME UNCHANGED <<row, doomed, overlapped, raced>>,
             \A q \in Requests : pc'[q] = "create" => pc[q] = "create"
      PROVE  IssuesInv'
  BY <1>4 DEF MissedRowsRaced, OneTokenUnlessRaced, There
<1>5. CASE Tick \/ UNCHANGED vars
  BY <1>4, <1>5 DEF Tick, vars, tokens, locals, history
<1>6. QED
  BY <1>1, <1>2, <1>3, <1>4, <1>5, NextCases, OtherStepsKeepIssues
-----------------------------------------------------------------------------
(* Rotation of a token that is out of the cache *)

RotationInv == IdleHasNoToken /\ RotatesUncachedToken

LEMMA NextIdleHasNoToken ==
  ASSUME TypeOK, IdleHasNoToken, [Next]_vars  PROVE IdleHasNoToken'
<1> USE DEF TypeOK, IdleHasNoToken, Goto, Reply, KeepRest, Done, tokens, locals
<1>1. ASSUME NEW r \in Requests, NEW b \in Browsers, Open(r, b) \/ Login(r, b) \/ Logout(r, b)
      PROVE  IdleHasNoToken'
  BY <1>1 DEF Open, Login, Logout
<1>2. ASSUME NEW r \in Requests, Answer(r) \/ AnswerLost(r)  PROVE IdleHasNoToken'
  BY <1>2 DEF Answer, AnswerLost
<1>3. ASSUME NEW r \in Requests,
             CheckThreshold(r) \/ IntrospectFails(r) \/ CallFails(r) \/ GetIntrospection(r)
             \/ FindForIntrospect(r) \/ FindForRefresh(r)
      PROVE  IdleHasNoToken'
  BY <1>3 DEF CheckThreshold, IntrospectFails, CallFails, GetIntrospection, FindForIntrospect,
              FindForRefresh
<1>4. ASSUME NEW r \in Requests,
             DeleteTokens(r) \/ CreateFails(r) \/ CreateToken(r) \/ SetIntrospection(r)
             \/ Invalidate(r)
      PROVE  IdleHasNoToken'
  BY <1>4 DEF DeleteTokens, CreateFails, CreateToken, SetIntrospection, Invalidate
<1>5. CASE Tick \/ UNCHANGED vars
  BY <1>5 DEF Tick, vars
<1>6. QED  BY <1>1, <1>2, <1>3, <1>4, <1>5, NextCases DEF Steps

LEMMA NextRotation ==
  ASSUME TypeOK, RowsInv, RotationInv, [Next]_vars  PROVE RotatesUncachedToken'
<1> DEFINE Rotating(q) == pc[q] \in {"find", "delete", "create"} /\ token[q] \in Keys
<1> USE DEF TypeOK, RotationInv
<1> SUFFICES ASSUME NEW q \in Requests, pc'[q] \in {"find", "delete", "create"},
                    token'[q] \in Keys, q \notin slipped'
             PROVE  cache'[token'[q]] = 0
  BY DEF RotatesUncachedToken
<1>1. ASSUME NEW r \in Requests, Steps(r)  PROVE cache'[token'[q]] = 0
  <2>1. cache' = cache
    BY <1>1, StepsKeepTokens
  <2>2. Rotating(q) /\ token'[q] = token[q] /\ q \notin slipped
    <3> USE KeyValues
        DEF Goto, Reply, KeepRest, Done, tokens, locals, history, IdleHasNoToken
    <3>1. CASE \E b \in Browsers : Open(r, b) \/ Login(r, b) \/ Logout(r, b)
      BY <3>1 DEF Open, Login, Logout
    <3>2. CASE CheckThreshold(r) \/ IntrospectFails(r) \/ CallFails(r) \/ Answer(r)
               \/ AnswerLost(r)
      BY <3>2 DEF CheckThreshold, IntrospectFails, CallFails, Answer, AnswerLost
    <3>3. CASE GetIntrospection(r) \/ FindForIntrospect(r) \/ FindForRefresh(r)
      BY <3>3 DEF GetIntrospection, FindForIntrospect, FindForRefresh
    <3>4. CASE DeleteTokens(r) \/ CreateFails(r)
      BY <3>4 DEF DeleteTokens, CreateFails
    <3>5. QED  BY <1>1, <3>1, <3>2, <3>3, <3>4 DEF Steps
  <2>3. QED  BY <2>1, <2>2 DEF RotatesUncachedToken
<1>2. ASSUME NEW r \in Requests, SetIntrospection(r)  PROVE cache'[token'[q]] = 0
  <2>1. Rotating(q) /\ token' = token /\ q \notin slipped /\ q \notin Refreshing(token[r])
    BY <1>2 DEF SetIntrospection, KeepRest, Goto
  <2>2. token[q] # token[r]
    BY <2>1 DEF Refreshing
  <2>3. cache'[token[q]] = cache[token[q]]
    BY <1>2, <2>1, <2>2 DEF SetIntrospection
  <2>4. QED  BY <2>1, <2>3 DEF RotatesUncachedToken
<1>3. ASSUME NEW r \in Requests, Invalidate(r)  PROVE cache'[token'[q]] = 0
  <2>1. token' = token /\ slipped' = slipped /\ cache' = [cache EXCEPT ![token[r]] = 0]
    BY <1>3 DEF Invalidate, KeepRest, history
  <2>2. CASE token[q] = token[r]
    BY <2>1, <2>2
  <2>3. CASE token[q] # token[r]
    <3>1. Rotating(q)
      BY <1>3, <2>1, <2>3 DEF Invalidate, Goto
    <3>2. QED  BY <2>1, <2>3, <3>1 DEF RotatesUncachedToken
  <2>4. QED  BY <2>2, <2>3
<1>4. ASSUME NEW r \in Requests, CreateToken(r)  PROVE cache'[token'[q]] = 0
  <2>1. Rotating(q) /\ token' = token /\ cache' = cache /\ q \notin slipped
    BY <1>4 DEF CreateToken, Reply, Goto
  <2>2. QED  BY <2>1 DEF RotatesUncachedToken
<1>5. CASE Tick
  <2>1. Rotating(q) /\ token' = token /\ slipped' = slipped
    BY <1>5 DEF Tick, history
  <2>2. cache[token[q]] = 0
    BY <2>1 DEF RotatesUncachedToken
  <2>3. EntryLeft(0) = 0
    BY DownFacts
  <2>4. QED  BY <1>5, <2>1, <2>2, <2>3 DEF Tick
<1>6. CASE UNCHANGED vars
  BY <1>6 DEF vars, tokens, locals, history, RotatesUncachedToken
<1>7. QED  BY <1>1, <1>2, <1>3, <1>4, <1>5, <1>6, NextCases
-----------------------------------------------------------------------------
(* The inductive invariant *)

LEMMA InitSessionInv == Init => SessionInv
BY InitTypeOK, InitRows
   DEF Init, SessionInv, RowsInv, IdleHasNoToken, FillsAreRecent, MissedRowsRaced,
       StaleAcceptanceBounded, OneTokenUnlessRaced, RotatesUncachedToken, There

LEMMA NextSessionInv == SessionInv /\ [Next]_vars => SessionInv'
BY NextTypeOK, NextRows, NextFillsAreRecent, NextStaleAcceptanceBounded, NextIssues,
   NextIdleHasNoToken, NextRotation
   DEF SessionInv, RowsInv, IssuesInv, RotationInv

\* The invariant of the sessions: types, fresh keys, recent fills, and what
\* an issue has not seen.
THEOREM SessionInvariant == Spec => []SessionInv
BY InitSessionInv, NextSessionInv, PTL DEF Spec

\* The cache answers for a token that is no longer valid for at most its TTL
\* and the lag of the introspection that filled it, however requests,
\* rotations and failures interleave.
THEOREM StaleAcceptance == Spec => []StaleAcceptanceBounded
<1>1. SessionInv => StaleAcceptanceBounded
  BY DEF SessionInv
<1>2. QED  BY <1>1, SessionInvariant, PTL

\* A supplier has two rows only when the transactions that issued them
\* overlapped.
THEOREM OneToken == Spec => []OneTokenUnlessRaced
<1>1. SessionInv => OneTokenUnlessRaced
  BY DEF SessionInv
<1>2. QED  BY <1>1, SessionInvariant, PTL

\* A refresh rotates a token the cache no longer answers for, unless an
\* introspection filled it again meanwhile.
THEOREM RotationUncached == Spec => []RotatesUncachedToken
<1>1. SessionInv => RotatesUncachedToken
  BY DEF SessionInv
<1>2. QED  BY <1>1, SessionInvariant, PTL
-----------------------------------------------------------------------------
(* Refinement of TokenLife *)

Lingers(k) == cache[k] > 0 \/ \E r \in Requests : pc[r] = "fill" /\ token[r] = k

LEMMA PhaseCases ==
  ASSUME NEW k \in Keys
  PROVE  /\ row[k] = "none" => Phase(k) = "unissued"
         /\ Valid(k) => Phase(k) = "live"
         /\ row[k] # "none" /\ ~Valid(k) /\ Lingers(k) => Phase(k) = "lingering"
         /\ row[k] # "none" /\ ~Valid(k) /\ ~Lingers(k) => Phase(k) = "dead"
BY DEF Phase, Valid, Lingers

LEMMA RowMoves ==
  ASSUME TypeOK, RowsInv, [Next]_vars, NEW k \in Keys
  PROVE  /\ row[k] = "none" => row'[k] = "none" \/ Valid(k)'
         /\ row[k] # "none" => row'[k] # "none"
         /\ row[k] # "none" /\ ~Valid(k) => ~Valid(k)'
<1> USE DEF TypeOK, Valid
<1>1. CASE Tick
  BY <1>1, DownFacts DEF Tick
<1>2. ASSUME NEW r \in Requests, CreateToken(r)
      PROVE  /\ row[k] = "none" => row'[k] = "none" \/ Valid(k)'
             /\ row[k] # "none" => row'[k] # "none"
             /\ row[k] # "none" /\ ~Valid(k) => ~Valid(k)'
  <2>1. CASE k = nextKey
    BY <1>2, <2>1, CreateTokenFacts
  <2>2. CASE k # nextKey
    BY <1>2, <2>2, CreateTokenFacts
  <2>3. QED  BY <2>1, <2>2
<1>3. ASSUME NEW r \in Requests, Steps(r) \/ SetIntrospection(r) \/ Invalidate(r)
      PROVE  UNCHANGED tokens
  BY <1>3, StepsKeepTokens DEF SetIntrospection, Invalidate, KeepRest
<1>4. UNCHANGED vars => UNCHANGED tokens
  BY DEF vars
<1>5. UNCHANGED tokens => UNCHANGED <<row, left>>
  BY DEF tokens
<1>6. QED  BY <1>1, <1>2, <1>3, <1>4, <1>5, NextCases

\* A token that is refused does not come back into the cache.
LEMMA LingeringEnds ==
  ASSUME TypeOK, RowsInv, [Next]_vars, NEW k \in Keys, ~Valid(k), ~Lingers(k)
  PROVE  ~Lingers(k)'
<1> SUFFICES ASSUME Lingers(k)'  PROVE FALSE
  OBVIOUS
<1> USE DEF TypeOK, Lingers
<1>1. CASE Tick
  <2>1. cache'[k] = 0
    BY <1>1, DownFacts DEF Tick
  <2>2. pc' = pc /\ token' = token
    BY <1>1 DEF Tick
  <2>3. QED  BY <2>1, <2>2
<1>2. ASSUME NEW r \in Requests,
             Steps(r) \/ SetIntrospection(r) \/ Invalidate(r) \/ CreateToken(r)
      PROVE  FALSE
  <2>1. ASSUME NEW q \in Requests, pc'[q] = "fill", token'[q] = k  PROVE FALSE
    BY <1>2, <2>1, FillsStartValid
  <2>2. cache'[k] > 0
    BY <2>1
  <2>3. CASE Steps(r)
    BY <2>2, <2>3, StepsKeepTokens
  <2>4. CASE SetIntrospection(r)
    BY <2>2, <2>4 DEF SetIntrospection
  <2>5. CASE Invalidate(r)
    BY <2>2, <2>5 DEF Invalidate
  <2>6. CASE CreateToken(r)
    BY <2>2, <2>6, CreateTokenFacts
  <2>7. QED  BY <1>2, <2>3, <2>4, <2>5, <2>6
<1>3. CASE UNCHANGED vars
  BY <1>3 DEF vars, locals
<1>4. QED  BY <1>1, <1>2, <1>3, NextCases

LEMMA PhaseMoves ==
  ASSUME SessionInv, [Next]_vars, NEW k \in Keys
  PROVE  <<Phase(k), Phase(k)'>> \in Life!Moves
<1> USE DEF Life!Moves, Life!Phases
<1>0. TypeOK /\ RowsInv
  BY DEF SessionInv, RowsInv
<1>1. CASE row[k] = "none"
  <2>1. Phase(k) = "unissued" /\ (row'[k] = "none" \/ Valid(k)')
    BY <1>0, <1>1, RowMoves, PhaseCases
  <2>2. Phase(k)' \in {"unissued", "live"}
    BY <2>1 DEF Phase, Valid
  <2>3. QED  BY <2>1, <2>2
<1>2. CASE Valid(k)
  <2>1. Phase(k) = "live" /\ row'[k] # "none"
    BY <1>0, <1>2, RowMoves, PhaseCases DEF Valid
  <2>2. Phase(k)' \in {"live", "lingering", "dead"}
    BY <2>1 DEF Phase
  <2>3. QED  BY <2>1, <2>2
<1>3. CASE row[k] # "none" /\ ~Valid(k)
  <2>1. row'[k] # "none" /\ ~Valid(k)'
    BY <1>0, <1>3, RowMoves
  <2>2. Phase(k)' = IF Lingers(k)' THEN "lingering" ELSE "dead"
    BY <2>1 DEF Phase, Lingers
  <2>3. Phase(k) = IF Lingers(k) THEN "lingering" ELSE "dead"
    BY <1>3, PhaseCases
  <2>4. ~Lingers(k) => ~Lingers(k)'
    BY <1>0, <1>3, LingeringEnds
  <2>5. QED  BY <2>2, <2>3, <2>4
<1>4. QED  BY <1>1, <1>2, <1>3

\* The sessions implement the life of a token: a token is issued once and,
\* once refused, is refused for good.
THEOREM TokenLifeImplemented == Spec => ImplementsTokenLife
<1>1. Init => Life!Init
  <2> SUFFICES ASSUME Init  PROVE Life!Init
    OBVIOUS
  <2>1. \A k \in Keys : Phase(k) = "unissued"
    <3> TAKE k \in Keys
    <3>1. row[k] = "none"
      BY DEF Init
    <3>2. QED  BY <3>1, PhaseCases
  <2>2. QED  BY <2>1 DEF Life!Init
<1>2. SessionInv /\ [Next]_vars => [Life!Next]_[k \in Keys |-> Phase(k)]
  <2> SUFFICES ASSUME SessionInv, [Next]_vars  PROVE Life!Next
    OBVIOUS
  <2>1. \A k \in Keys : <<Phase(k), Phase(k)'>> \in Life!Moves
    BY PhaseMoves
  <2>2. \A p, q : <<p, q>> \in Life!Moves => q \in Life!Phases
    BY DEF Life!Moves, Life!Phases
  <2>3. QED  BY <2>1, <2>2 DEF Life!Next
<1>3. QED  BY <1>1, <1>2, SessionInvariant, PTL DEF Spec, ImplementsTokenLife, Life!Spec
=============================================================================
