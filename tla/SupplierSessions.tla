-------------------------- MODULE SupplierSessions ---------------------------
(***************************************************************************)
(* The session of one supplier account: the dashboard's middleware and     *)
(* login pages, the auth service behind them, its token rows in PostgreSQL *)
(* and its introspection cache in Redis.                                   *)
(*                                                                         *)
(* A request is one HTTP request of a browser to the dashboard.  It is cut *)
(* at every access of the auth service to Redis or to the database and at  *)
(* the answer to the browser, and pc names the next one.  The session      *)
(* lives in a signed cookie: a request works on the token its cookie held  *)
(* when it was sent, and its answer overwrites the cookie only when it     *)
(* changed the session.                                                    *)
(*                                                                         *)
(* Time is counted in ticks, as the time left to each token and cache      *)
(* entry, so no behaviour is cut short by a bound on a clock.  TokenTTL,   *)
(* RefreshThreshold and CacheTTL keep the order 15 days > 24 h > 10 s of   *)
(* the settings.  MaxLag is how long an introspection can hang between its *)
(* read of the row and its write of the cache (gunicorn kills a worker     *)
(* that is silent for 180 s).                                              *)
(*                                                                         *)
(* Faults: a call of the dashboard to the auth service fails, before the   *)
(* service saw it or after it answered (Outages); an answer never reaches  *)
(* the browser (LostAnswers).  MaxTokens bounds how many tokens are ever   *)
(* issued; an issue past it fails.                                         *)
(*                                                                         *)
(* Not here: what identity a token carries, which cannot change a token's  *)
(* validity, and a login that is refused, which changes nothing.           *)
(***************************************************************************)
EXTENDS Integers

CONSTANTS
  Requests, Browsers,
  MaxTokens,
  TokenTTL, RefreshThreshold, CacheTTL, MaxLag,     \* ticks
  Outages, LostAnswers

ASSUME ConstantsAssumption ==
  /\ {MaxTokens, TokenTTL, RefreshThreshold, CacheTTL} \subseteq Nat \ {0}
  /\ MaxLag \in Nat
  /\ {Outages, LostAnswers} \subseteq BOOLEAN

Keys    == 1 .. MaxTokens
NoToken == 0
Same    == -1             \* the answer leaves the session as it was

Grace == CacheTTL + MaxLag

LookupPCs == {"cache", "db", "fill", "threshold"}
RefreshPCs == {"invalidate", "find"}
IssuePCs == {"delete", "create"}
PCs == {"idle", "reply"} \union LookupPCs \union RefreshPCs \union IssuePCs

VARIABLES
  row,        \* per key: "none", "there" or "deleted"
  left,       \* per key: ticks until expires_at
  nextKey,    \* the next key to be generated
  cache,      \* per key: ticks until its introspection entry goes, 0 for none
  cookie,     \* per browser: the token in its session cookie
  pc, client, \* per request: next access, its browser
  token,      \* per request: the token of its session, NoToken for a login
  answer,     \* per request: the session its answer sets
  lag,        \* per request: ticks since introspect() read the row
  doomed,     \* per request: the rows its DELETE saw, until it commits
  age,        \* history: per key, ticks since it stopped being valid, capped
  slipped,    \* history: refreshes whose entry was filled again
  overlapped, \* history: issues during which another one committed
  raced       \* history: tokens issued during another issue

tokens  == <<row, left, nextKey, age>>
locals  == <<client, token, answer, lag, doomed>>
history == <<slipped, overlapped, raced>>
vars == <<tokens, cache, cookie, pc, locals, history>>

Valid(k) == row[k] = "there" /\ left[k] > 0

Init ==
  /\ row = [k \in Keys |-> "none"] /\ left = [k \in Keys |-> 0] /\ nextKey = 1
  /\ cache = [k \in Keys |-> 0] /\ cookie = [b \in Browsers |-> NoToken]
  /\ pc = [r \in Requests |-> "idle"] /\ client \in [Requests -> Browsers]
  /\ token = [r \in Requests |-> NoToken] /\ answer = [r \in Requests |-> Same]
  /\ lag = [r \in Requests |-> 0] /\ doomed = [r \in Requests |-> {}]
  /\ age = [k \in Keys |-> 0]
  /\ slipped = {} /\ overlapped = {} /\ raced = {}
-----------------------------------------------------------------------------
(* SupplierAuthMiddleware, LoginView, LogoutView *)

Goto(r, p) == pc' = [pc EXCEPT ![r] = p]
Reply(r, session) == Goto(r, "reply") /\ answer' = [answer EXCEPT ![r] = session]

KeepRest == UNCHANGED <<tokens, cookie, client, token, doomed>>

\* A page or htmx request with a session; without one it is only redirected.
Open(r, b) ==
  /\ pc[r] = "idle" /\ cookie[b] # NoToken /\ Goto(r, "cache")
  /\ client' = [client EXCEPT ![r] = b] /\ token' = [token EXCEPT ![r] = cookie[b]]
  /\ UNCHANGED <<tokens, cache, cookie, answer, lag, doomed, history>>

\* The login form with good credentials.
Login(r, b) ==
  /\ pc[r] = "idle" /\ Goto(r, "delete")
  /\ client' = [client EXCEPT ![r] = b]
  /\ UNCHANGED <<tokens, cache, cookie, token, answer, lag, doomed, history>>

\* session.flush(): the token's row stays.
Logout(r, b) ==
  /\ pc[r] = "idle" /\ cookie[b] # NoToken
  /\ client' = [client EXCEPT ![r] = b] /\ Reply(r, NoToken)
  /\ UNCHANGED <<tokens, cache, cookie, token, lag, doomed, history>>

\* auth_client.introspect() returns None: the session is flushed.
IntrospectFails(r) ==
  /\ Outages /\ pc[r] \in {"cache", "threshold"} /\ Reply(r, NoToken)
  /\ UNCHANGED <<cache, lag, history>> /\ KeepRest

\* Less than the threshold remains of the expires_at that was introspected.
CheckThreshold(r) ==
  /\ pc[r] = "threshold"
  /\ IF left[token[r]] < RefreshThreshold
       THEN Goto(r, "invalidate") /\ UNCHANGED answer
       ELSE Reply(r, Same)
  /\ UNCHANGED <<cache, lag, history>> /\ KeepRest

\* auth_client.refresh() or login() returns None, though the service may
\* have done its work: the session stays as it was.
CallFails(r) ==
  /\ Outages
  /\ \/ pc[r] \in {"invalidate", "delete"}
     \/ pc[r] = "reply" /\ answer[r] \in Keys
  /\ Reply(r, Same)
  /\ slipped' = slipped \ {r} /\ UNCHANGED <<cache, lag, overlapped, raced>> /\ KeepRest

Done(r) ==
  /\ Goto(r, "idle")
  /\ token' = [token EXCEPT ![r] = NoToken] /\ answer' = [answer EXCEPT ![r] = Same]
  /\ UNCHANGED <<tokens, cache, client, lag, doomed, history>>

\* Set-Cookie, in whatever order the answers arrive.
Answer(r) ==
  /\ pc[r] = "reply" /\ Done(r)
  /\ cookie' = IF answer[r] = Same THEN cookie
               ELSE [cookie EXCEPT ![client[r]] = answer[r]]

AnswerLost(r) ==
  /\ LostAnswers /\ pc[r] = "reply" /\ Done(r) /\ UNCHANGED cookie
-----------------------------------------------------------------------------
(* AuthService.introspect *)

\* Mutant: an entry that is hit gets a new TTL.
HitExtends(r) ==
  /\ pc[r] = "cache"
  /\ Goto(r, IF cache[token[r]] > 0 THEN "threshold" ELSE "db")
  /\ cache' = IF cache[token[r]] > 0 THEN [cache EXCEPT ![token[r]] = CacheTTL] ELSE cache
  /\ UNCHANGED <<answer, lag, history>> /\ KeepRest

GetIntrospection(r) ==
  /\ pc[r] = "cache"
  /\ Goto(r, IF cache[token[r]] > 0 THEN "threshold" ELSE "db")
  /\ UNCHANGED <<cache, answer, lag, history>> /\ KeepRest

\* Mutant: an expired row still answers.
FindIgnoresExpiry(r) ==
  /\ pc[r] = "db"
  /\ IF row[token[r]] = "there"
       THEN Goto(r, "fill") /\ lag' = [lag EXCEPT ![r] = 0] /\ UNCHANGED answer
       ELSE Reply(r, NoToken) /\ UNCHANGED lag
  /\ UNCHANGED <<cache, history>> /\ KeepRest

FindForIntrospect(r) ==
  /\ pc[r] = "db"
  /\ IF Valid(token[r])
       THEN Goto(r, "fill") /\ lag' = [lag EXCEPT ![r] = 0] /\ UNCHANGED answer
       ELSE Reply(r, NoToken) /\ UNCHANGED lag
  /\ UNCHANGED <<cache, history>> /\ KeepRest

Refreshing(k) == {q \in Requests : pc[q] \in {"find", "delete", "create"} /\ token[q] = k}

\* Mutant: an entry is kept as long as its token.
CacheForTokenLife(r) ==
  /\ pc[r] = "fill" /\ Goto(r, "threshold")
  /\ cache' = [cache EXCEPT ![token[r]] = left[token[r]]]
  /\ lag' = [lag EXCEPT ![r] = 0]
  /\ slipped' = slipped \union Refreshing(token[r])
  /\ UNCHANGED <<answer, overlapped, raced>> /\ KeepRest

SetIntrospection(r) ==
  /\ pc[r] = "fill" /\ Goto(r, "threshold")
  /\ cache' = [cache EXCEPT ![token[r]] = CacheTTL]
  /\ lag' = [lag EXCEPT ![r] = 0]
  /\ slipped' = slipped \union Refreshing(token[r])
  /\ UNCHANGED <<answer, overlapped, raced>> /\ KeepRest
-----------------------------------------------------------------------------
(* AuthService.refresh and login, AuthRepository._issue_token *)

\* Mutant: the entry is left to its TTL.
SkipInvalidation(r) ==
  /\ pc[r] = "invalidate" /\ Goto(r, "find")
  /\ UNCHANGED <<cache, answer, lag, history>> /\ KeepRest

Invalidate(r) ==
  /\ pc[r] = "invalidate" /\ Goto(r, "find")
  /\ cache' = [cache EXCEPT ![token[r]] = 0]
  /\ UNCHANGED <<answer, lag, history>> /\ KeepRest

FindForRefresh(r) ==
  /\ pc[r] = "find"
  /\ IF Valid(token[r])
       THEN Goto(r, "delete") /\ UNCHANGED <<answer, slipped>>
       ELSE Reply(r, Same) /\ slipped' = slipped \ {r}
  /\ UNCHANGED <<cache, lag, overlapped, raced>> /\ KeepRest

There == {k \in Keys : row[k] = "there"}

\* Mutant: only the tokens that have expired are deleted.
DeleteExpired(r) ==
  /\ pc[r] = "delete" /\ Goto(r, "create")
  /\ doomed' = [doomed EXCEPT ![r] = {k \in There : left[k] = 0}]
  /\ UNCHANGED <<tokens, cache, cookie, client, token, answer, lag, history>>

\* The DELETE of the transaction sees the rows committed so far; nobody
\* else sees its effect before the commit.
DeleteTokens(r) ==
  /\ pc[r] = "delete" /\ Goto(r, "create")
  /\ doomed' = [doomed EXCEPT ![r] = There]
  /\ UNCHANGED <<tokens, cache, cookie, client, token, answer, lag, history>>

\* The INSERT and the commit.
CreateToken(r) ==
  /\ pc[r] = "create" /\ nextKey \in Keys
  /\ row' = [k \in Keys |-> IF k = nextKey THEN "there"
                            ELSE IF k \in doomed[r] THEN "deleted" ELSE row[k]]
  /\ left' = [left EXCEPT ![nextKey] = TokenTTL] /\ nextKey' = nextKey + 1
  /\ Reply(r, nextKey)
  /\ doomed' = [doomed EXCEPT ![r] = {}]
  /\ LET others == {q \in Requests \ {r} : pc[q] = "create"}
     IN /\ raced' = IF others # {} \/ r \in overlapped THEN raced \union {nextKey} ELSE raced
        /\ overlapped' = (overlapped \union others) \ {r}
  /\ slipped' = slipped \ {r}
  /\ UNCHANGED <<age, cache, cookie, client, token, lag>>

\* The bound on tokens: the transaction rolls back.
CreateFails(r) ==
  /\ pc[r] = "create" /\ nextKey \notin Keys
  /\ Reply(r, Same) /\ doomed' = [doomed EXCEPT ![r] = {}]
  /\ slipped' = slipped \ {r} /\ overlapped' = overlapped \ {r}
  /\ UNCHANGED <<tokens, cache, cookie, client, token, lag, raced>>
-----------------------------------------------------------------------------
(* Time *)

Down(n) == IF n > 0 THEN n - 1 ELSE 0

\* Mutant: the entry is set without a TTL.
KeptForever(n) == n

\* Redis drops an entry when its TTL is over.
EntryLeft(n) == Down(n)

Tick ==
  /\ \A r \in Requests : pc[r] = "fill" => lag[r] < MaxLag
  /\ left' = [k \in Keys |-> Down(left[k])] /\ cache' = [k \in Keys |-> EntryLeft(cache[k])]
  /\ lag' = [r \in Requests |-> IF pc[r] = "fill" THEN lag[r] + 1 ELSE 0]
  /\ age' = [k \in Keys |-> IF Valid(k) \/ row[k] = "none" \/ age[k] > Grace
                              THEN age[k] ELSE age[k] + 1]
  /\ UNCHANGED <<row, nextKey, cookie, pc, client, token, answer, doomed, history>>
-----------------------------------------------------------------------------
Introspect(r) == GetIntrospection(r) \/ FindForIntrospect(r) \/ SetIntrospection(r)
Refresh(r)    == Invalidate(r) \/ FindForRefresh(r)
Issue(r)      == DeleteTokens(r) \/ CreateToken(r) \/ CreateFails(r)

Step(r) == CheckThreshold(r) \/ Introspect(r) \/ Refresh(r) \/ Issue(r) \/ Answer(r)

Next ==
  \/ \E r \in Requests :
       \/ \E b \in Browsers : Open(r, b) \/ Login(r, b) \/ Logout(r, b)
       \/ Step(r) \/ IntrospectFails(r) \/ CallFails(r) \/ AnswerLost(r)
  \/ Tick

Spec == Init /\ [][Next]_vars

\* A request that runs comes to its end, and time passes.
Fairness == WF_vars(Tick) /\ \A r \in Requests : WF_vars(Step(r))

FairSpec == Spec /\ Fairness
-----------------------------------------------------------------------------
(* Properties *)

\* Every variable has the type its declaration describes.
TypeOK ==
  /\ row \in [Keys -> {"none", "there", "deleted"}]
  /\ left \in [Keys -> 0 .. TokenTTL] /\ nextKey \in 1 .. MaxTokens + 1
  /\ cache \in [Keys -> 0 .. CacheTTL]
  /\ cookie \in [Browsers -> Keys \union {NoToken}]
  /\ pc \in [Requests -> PCs] /\ client \in [Requests -> Browsers]
  /\ token \in [Requests -> Keys \union {NoToken}]
  /\ answer \in [Requests -> Keys \union {NoToken, Same}]
  /\ lag \in [Requests -> 0 .. MaxLag] /\ doomed \in [Requests -> SUBSET Keys]
  /\ age \in [Keys -> 0 .. Grace + 1]
  /\ slipped \subseteq Requests /\ overlapped \subseteq Requests /\ raced \subseteq Keys

\* How stale an accepted token can be: the cache answers for a token that is
\* no longer valid for at most CacheTTL, plus the time an introspection that
\* was already running took to fill the entry.
StaleAcceptanceBounded ==
  \A k \in Keys : cache[k] > 0 /\ ~Valid(k) => age[k] + cache[k] <= Grace

\* "Single active token per supplier": two rows only ever coexist when their
\* transactions overlapped, so that neither saw the other's row.
OneTokenUnlessRaced ==
  \A j, k \in There : j # k => j \in raced /\ k \in raced

\* refresh() rotates a token that is no longer in the cache, unless another
\* introspection filled it again after the invalidation.
RotatesUncachedToken ==
  \A r \in Requests :
    pc[r] \in {"find", "delete", "create"} /\ token[r] \in Keys /\ r \notin slipped
      => cache[token[r]] = 0

\* The life of a key, as the supplier sees it.
Phase(k) ==
  CASE row[k] = "none" -> "unissued"
    [] Valid(k) -> "live"
    [] OTHER -> IF cache[k] > 0 \/ \E r \in Requests : pc[r] = "fill" /\ token[r] = k
                  THEN "lingering" ELSE "dead"

Life == INSTANCE TokenLife WITH phase <- [k \in Keys |-> Phase(k)]

\* Once a token is refused it stays refused, and no key is issued twice.
ImplementsTokenLife == Life!Spec

\* A token that is rotated out or expires is refused in the end, however many
\* requests keep coming with it.
EveryTokenDies ==
  \A k \in Keys : Phase(k) = "lingering" ~> Phase(k) = "dead"

-----------------------------------------------------------------------------
(* Inductive invariant behind the three safety invariants and              *)
(* ImplementsTokenLife.                                                    *)

IdleHasNoToken == \A r \in Requests : pc[r] = "idle" => token[r] = NoToken

KeysAreFresh ==
  \A k \in Keys : /\ row[k] = "none" <=> k >= nextKey
                  /\ k >= nextKey => \A r \in Requests : k \notin doomed[r]

YoungUnlessInvalid == \A k \in Keys : Valid(k) \/ row[k] = "none" => age[k] = 0

\* A token that stopped being valid did so after a fill under way read it.
FillsAreRecent ==
  \A r \in Requests : LET k == token[r] IN
    pc[r] = "fill" /\ k \in Keys /\ ~Valid(k) => age[k] <= lag[r]

\* A row that an issue did not see was committed during it.
MissedRowsRaced ==
  \A r \in Requests : pc[r] = "create" =>
    \A k \in There \ doomed[r] : k \in raced /\ r \in overlapped

SessionInv ==
  /\ TypeOK /\ IdleHasNoToken /\ KeysAreFresh /\ YoungUnlessInvalid
  /\ FillsAreRecent /\ MissedRowsRaced
  /\ StaleAcceptanceBounded /\ OneTokenUnlessRaced /\ RotatesUncachedToken
=============================================================================
