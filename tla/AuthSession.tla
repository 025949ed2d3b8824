----------------------------- MODULE AuthSession -----------------------------
(***************************************************************************)
(* Accounts, refresh tokens and the cookies of one browser: the service    *)
(* modules/auth/service.py behind the routes of api/routes/auth.py, and    *)
(* the proxy of the frontend, which keeps both tokens in cookies, sends    *)
(* every API call on and rotates the refresh token when the access token   *)
(* has run out.  A token stands for the pair that is issued together: the  *)
(* refresh token (a row) and the access token (a JWT, valid until it       *)
(* expires, whatever becomes of the row).                                  *)
(***************************************************************************)
EXTENDS Naturals, FiniteSets

CONSTANTS
    Emails,      \* canonical addresses, as normalize_email returns them
    Tokens,      \* the token pairs there is room for: a bound
    Requests,    \* what the browser may have in flight
    None

ASSUME NoneAssumption == None \notin Emails \cup Tokens

VARIABLES
    users,       \* "absent", "active" or "inactive", by address
    owner,       \* whose token it is, None while it is unused
    revoked,     \* tokens with revoked_at
    next,        \* replaced_by_id
    expired,     \* refresh tokens that are past expires_at
    stale,       \* access tokens that are past exp
    jar,         \* the browser's two cookies
    pc, who, sent, rotated, ran,     \* a request: step, address, cookies it
                                     \* carried, tokens it got, handler runs
    origin,      \* history: the token of the login that a token goes back to
    failed,      \* history: requests whose refresh, or revocation at logout,
                 \* got no answer or an error that was no refusal
    disturbed    \* history: the session changed under a request in flight, or
                 \* an answer that changed it was lost, since the last login

db == <<owner, revoked, next, origin>>
clocks == <<expired, stale>>
local == <<who, sent, rotated, ran, failed>>
vars == <<users, db, clocks, jar, pc, local, disturbed>>

Cookies == [access : Tokens \cup {None}, refresh : Tokens \cup {None}]
Empty == [access |-> None, refresh |-> None]

TypeOK ==
    /\ users \in [Emails -> {"absent", "active", "inactive"}]
    /\ owner \in [Tokens -> Emails \cup {None}]
    /\ revoked \in SUBSET Tokens /\ expired \in SUBSET Tokens
    /\ stale \in SUBSET Tokens
    /\ next \in [Tokens -> Tokens \cup {None}]
    /\ origin \in [Tokens -> Tokens \cup {None}]
    /\ jar \in Cookies
    /\ pc \in [Requests -> {"idle", "refresh", "rotating", "call", "respond",
                            "clear", "find", "insert", "verify", "issue",
                            "revoke", "wipe"}]
    /\ who \in [Requests -> Emails \cup {None}]
    /\ sent \in [Requests -> Cookies]
    /\ rotated \in [Requests -> Tokens \cup {None}]
    /\ ran \in [Requests -> Nat]
    /\ failed \in SUBSET Requests
    /\ disturbed \in BOOLEAN
    /\ \A t \in Tokens : next[t] # None => t \in revoked

Init ==
    /\ users = [e \in Emails |-> "absent"]
    /\ owner = [t \in Tokens |-> None]
    /\ revoked = {} /\ expired = {} /\ stale = {}
    /\ next = [t \in Tokens |-> None]
    /\ origin = [t \in Tokens |-> None]
    /\ jar = Empty
    /\ pc = [r \in Requests |-> "idle"]
    /\ who = [r \in Requests |-> None]
    /\ sent = [r \in Requests |-> Empty]
    /\ rotated = [r \in Requests |-> None]
    /\ ran = [r \in Requests |-> 0]
    /\ failed = {}
    /\ disturbed = FALSE

-----------------------------------------------------------------------------
(* What the steps share. *)

Unused == {t \in Tokens : owner[t] = None}
InFlight == {r \in Requests : pc[r] # "idle"}

\* A request issues one pair at most: it begins while one is left for it.
Room == Cardinality(InFlight) < Cardinality(Unused)

\* Mutant: the SELECT does not lock.
HoldsToken_NoLock(r, t) == FALSE

\* SELECT ... FOR UPDATE keeps the token's row, and its user's, to the commit.
HoldsToken(r, t) == pc[r] = "rotating" /\ sent[r].refresh = t
HoldsUser(r, e) == \E t \in Tokens : HoldsToken(r, t) /\ owner[t] = e

Spent(t) == t \in expired \/ users[owner[t]] # "active"
Usable(t) == t \notin revoked \cup expired /\ users[owner[t]] = "active"

Goto(r, step) == pc' = [pc EXCEPT ![r] = step]

\* A step that changes cookies or tokens while another request is in flight.
Disturbs(r) == disturbed' = (disturbed \/ InFlight # {r})

Begin(r, step, e) ==
    /\ pc[r] = "idle" /\ Room
    /\ Goto(r, step)
    /\ who' = [who EXCEPT ![r] = e]
    /\ sent' = [sent EXCEPT ![r] = jar]
    /\ rotated' = [rotated EXCEPT ![r] = None]
    /\ ran' = [ran EXCEPT ![r] = 0]
    /\ failed' = failed \ {r}
    /\ UNCHANGED <<users, db, clocks, jar, disturbed>>

\* issue_tokens: a fresh pair, the refresh token stored.
Issue(r, t, e, login) ==
    /\ t \in Unused
    /\ owner' = [owner EXCEPT ![t] = e]
    /\ origin' = [origin EXCEPT ![t] = login]
    /\ rotated' = [rotated EXCEPT ![r] = t]

-----------------------------------------------------------------------------
(* An API call through the proxy. *)

\* Mutant: without an access token the session counts as expired at once.
BeginCall_NoRefresh(r) ==
    Begin(r, IF jar.access # None THEN "call" ELSE "clear", None)

\* The cookies are read once, when the request arrives.
BeginCall(r) ==
    Begin(r, IF jar.access # None THEN "call"
             ELSE IF jar.refresh # None THEN "refresh" ELSE "clear", None)

\* rotate_refresh_token: the locking SELECT and its three refusals.
LoadToken(r) ==
    /\ pc[r] = "refresh"
    /\ \A q \in Requests : ~HoldsUser(q, owner[sent[r].refresh])
    /\ Goto(r, IF Usable(sent[r].refresh) THEN "rotating" ELSE "clear")
    /\ UNCHANGED <<users, db, clocks, jar, local, disturbed>>

\* Mutant: revoked_at is not set when a token is replaced.
CommitRotation_KeepsOld(r) ==
    /\ pc[r] = "rotating"
    /\ \E t \in Tokens :
        /\ Issue(r, t, owner[sent[r].refresh], origin[sent[r].refresh])
        /\ next' = [next EXCEPT ![sent[r].refresh] = t]
    /\ Goto(r, "call") /\ Disturbs(r)
    /\ UNCHANGED <<users, revoked, clocks, jar, who, sent, ran, failed>>

\* The new pair, the old token revoked and linked to it, and the commit.
CommitRotation(r) ==
    /\ pc[r] = "rotating"
    /\ \E t \in Tokens :
        /\ Issue(r, t, owner[sent[r].refresh], origin[sent[r].refresh])
        /\ next' = [next EXCEPT ![sent[r].refresh] = t]
    /\ revoked' = revoked \cup {sent[r].refresh}
    /\ Goto(r, "call")
    /\ Disturbs(r)
    /\ UNCHANGED <<users, clocks, jar, who, sent, ran, failed>>

\* The API answers the refresh with an error or a gateway does, before the
\* commit or after it: every answer that is not OK counts as "no session".  Or
\* the fetch throws, and no cookie is touched.
RefreshFails(r) ==
    /\ \/ pc[r] \in {"refresh", "rotating"}
       \/ pc[r] = "call" /\ rotated[r] # None
    /\ Goto(r, "clear") \/ Goto(r, "idle")
    /\ failed' = failed \cup {r}
    /\ disturbed' = (disturbed \/ rotated[r] # None)
    /\ UNCHANGED <<users, db, clocks, jar, who, sent, rotated, ran>>

Bearer(r) == IF rotated[r] # None THEN rotated[r] ELSE sent[r].access

\* get_current_user: the claims, then the account as it is now.
Authorized(t) == t \notin stale /\ users[owner[t]] = "active"

\* Mutant: a call that has not been refreshed yet is always tried again.
MayRefresh_Always(r) == sent[r].refresh # None /\ rotated[r] = None

\* A 401 is answered by one refresh, if a refresh token came and none was used.
MayRefresh(r) ==
    ~Authorized(Bearer(r)) /\ sent[r].refresh # None /\ rotated[r] = None

CallUpstream(r) ==
    /\ pc[r] = "call"
    /\ Goto(r, IF MayRefresh(r) THEN "refresh"
               ELSE IF Authorized(Bearer(r)) THEN "respond" ELSE "clear")
    /\ ran' = [ran EXCEPT ![r] = @ + (IF Authorized(Bearer(r)) THEN 1 ELSE 0)]
    /\ UNCHANGED <<users, db, clocks, jar, who, sent, rotated, failed, disturbed>>

\* The answer, with the rotated tokens in its cookies.
Respond(r) ==
    /\ pc[r] = "respond"
    /\ Goto(r, "idle")
    /\ IF rotated[r] = None
       THEN UNCHANGED <<jar, disturbed>>
       ELSE /\ jar' = [access |-> rotated[r], refresh |-> rotated[r]]
            /\ IF who[r] # None /\ InFlight = {r}
               THEN disturbed' = FALSE ELSE Disturbs(r)
    /\ UNCHANGED <<users, db, clocks, local>>

\* "Your session has expired": both cookies go.
Clear(r) ==
    /\ pc[r] = "clear"
    /\ Goto(r, "idle")
    /\ jar' = Empty
    /\ Disturbs(r)
    /\ UNCHANGED <<users, db, clocks, local>>

\* The upstream fetch throws, or the answer does not reach the browser: the
\* cookies it carried, or would have carried, are lost.
LoseAnswer(r) ==
    /\ pc[r] \in {"call", "respond", "clear", "wipe"}
    /\ Goto(r, "idle")
    /\ disturbed' = (disturbed \/ rotated[r] # None \/ pc[r] = "wipe")
    /\ UNCHANGED <<users, db, clocks, jar, local>>

-----------------------------------------------------------------------------
(* Registering, signing in and signing out. *)

BeginRegister(r) == \E e \in Emails : Begin(r, "find", e)

\* register_user: SELECT by address; the password is hashed after it.
FindEmail(r) ==
    /\ pc[r] = "find"
    /\ Goto(r, IF users[who[r]] = "absent" THEN "insert" ELSE "idle")
    /\ UNCHANGED <<users, db, clocks, jar, local, disturbed>>

\* The unique address decides between two: 409, or an account that signs in.
InsertUser(r) ==
    /\ pc[r] = "insert"
    /\ IF users[who[r]] = "absent"
       THEN users' = [users EXCEPT ![who[r]] = "active"] /\ Goto(r, "verify")
       ELSE UNCHANGED users /\ Goto(r, "idle")
    /\ UNCHANGED <<db, clocks, jar, local, disturbed>>

BeginLogin(r) == \E e \in Emails : Begin(r, "verify", e)

\* authenticate_user: one error for every reason, a wrong password among them.
Authenticate(r) ==
    /\ pc[r] = "verify"
    /\ \/ users[who[r]] = "active" /\ Goto(r, "issue")
       \/ Goto(r, "idle")
    /\ UNCHANGED <<users, db, clocks, jar, local, disturbed>>

IssueTokens(r) ==
    /\ pc[r] = "issue" /\ \A q \in Requests : ~HoldsUser(q, who[r])
    /\ \E t \in Tokens : Issue(r, t, who[r], t)
    /\ Goto(r, "respond")
    /\ UNCHANGED <<users, revoked, next, clocks, jar, who, sent, ran, failed,
                   disturbed>>

\* Mutant: signing out only drops the cookies.
BeginLogout_LocalOnly(r) == Begin(r, "wipe", None)

BeginLogout(r) == Begin(r, IF jar.refresh = None THEN "wipe" ELSE "revoke", None)

\* revoke_refresh_token: this token and no other, once its row is free.
RevokeToken(r) ==
    /\ pc[r] = "revoke"
    /\ \A q \in Requests : ~HoldsToken(q, sent[r].refresh)
    /\ revoked' = revoked \cup {sent[r].refresh}
    /\ Goto(r, "wipe")
    /\ Disturbs(r)
    /\ UNCHANGED <<users, owner, next, origin, clocks, jar, local>>

\* The call fails, and the logout route goes on as if it had not.
LogoutFails(r) ==
    /\ pc[r] = "revoke"
    /\ Goto(r, "wipe")
    /\ failed' = failed \cup {r}
    /\ UNCHANGED <<users, db, clocks, jar, who, sent, rotated, ran, disturbed>>

Wipe(r) ==
    /\ pc[r] = "wipe"
    /\ Goto(r, "idle")
    /\ jar' = Empty
    /\ Disturbs(r)
    /\ UNCHANGED <<users, db, clocks, local>>

-----------------------------------------------------------------------------
(* Time, the browser and the operator. *)

\* A call that carries a new access token does not take as long as it lives.
AccessExpires(t) ==
    /\ owner[t] # None /\ \A r \in InFlight : rotated[r] # t
    /\ stale' = stale \cup {t}
    /\ UNCHANGED <<users, db, expired, jar, pc, local, disturbed>>

\* The browser drops the cookie at its max-age, by its own clock.
CookieExpires ==
    /\ jar.access # None
    /\ jar' = [jar EXCEPT !.access = None]
    /\ UNCHANGED <<users, db, clocks, pc, local, disturbed>>

RefreshExpires(t) ==
    /\ owner[t] # None
    /\ expired' = expired \cup {t}
    /\ UNCHANGED <<users, db, stale, jar, pc, local, disturbed>>

\* is_active is cleared in the database; the row waits for its lock.
Deactivate(e) ==
    /\ users[e] = "active" /\ \A q \in Requests : ~HoldsUser(q, e)
    /\ users' = [users EXCEPT ![e] = "inactive"]
    /\ UNCHANGED <<db, clocks, jar, pc, local, disturbed>>

Next ==
    \/ \E r \in Requests :
        \/ BeginCall(r) \/ LoadToken(r) \/ CommitRotation(r) \/ RefreshFails(r)
        \/ CallUpstream(r) \/ Respond(r) \/ Clear(r) \/ LoseAnswer(r)
        \/ BeginRegister(r) \/ FindEmail(r) \/ InsertUser(r)
        \/ BeginLogin(r) \/ Authenticate(r) \/ IssueTokens(r)
        \/ BeginLogout(r) \/ RevokeToken(r) \/ LogoutFails(r) \/ Wipe(r)
    \/ \E t \in Tokens : AccessExpires(t) \/ RefreshExpires(t)
    \/ \E e \in Emails : Deactivate(e)
    \/ CookieExpires

Spec == Init /\ [][Next]_vars

-----------------------------------------------------------------------------
(* What must hold. *)

Live(t) == owner[t] # None /\ t \notin revoked

\* A login has one live refresh token at most, however many requests rotate it
\* at once ("Atomically revoke one refresh token and replace it").
OneLiveToken ==
    \A s, t \in Tokens : Live(s) /\ Live(t) /\ origin[s] = origin[t] => s = t

\* What the proxy sends on is executed once at most: the second attempt after
\* a refresh follows an attempt that was refused.
HandlerRunsOnce == \A r \in Requests : ran[r] <= 1

\* The browser loses its refresh token to a logout, or to a request that was
\* sent away.  That request had no answer to its refresh but a failure; or the
\* token has expired, or its account is off: reuse of a token that the browser
\* itself has replaced is no cause.  It is one when the session changed under a
\* request in flight or an answer was lost; then too the request carried a token
\* that was refused, or none.
SignedOutForCause ==
    [][jar.refresh # None /\ jar'.refresh = None =>
          \E r \in Requests :
              \/ pc[r] = "wipe"
              \/ pc[r] = "clear" /\ r \in failed
              \/ pc[r] = "clear" /\ Spent(jar.refresh)
              \/ /\ pc[r] = "clear" /\ disturbed'
                 /\ sent[r].refresh # None => ~Usable(sent[r].refresh)]_vars

\* A logout whose revocation was answered leaves the token it carried dead, and
\* every token of that login unless the session changed under a request in
\* flight or an answer was lost.
LogoutEndsSession ==
    [][\A r \in Requests :
          Wipe(r) /\ sent[r].refresh # None /\ r \notin failed =>
             /\ ~Live(sent[r].refresh)
             /\ ~disturbed' =>
                   \A t \in Tokens :
                       origin[t] = origin[sent[r].refresh] => ~Live(t)]_vars

\* Logins behave as SessionContract says: a session that was closed, by a
\* logout or by the revocation of its last token, is not opened again.
Session == [l \in Tokens |->
    IF origin[l] # l THEN "none"
    ELSE IF \E t \in Tokens : Live(t) /\ origin[t] = l THEN "open" ELSE "closed"]

Contract == INSTANCE SessionContract WITH Logins <- Tokens, session <- Session

ImplementsContract == Contract!Spec

-----------------------------------------------------------------------------
(* Why it holds: what a request may rely on from step to step. *)

Used(t) == owner[t] # None

\* Tokens in use go back to a login, and belong to an account that exists.
TokenInv ==
    /\ \A t \in Tokens :
        /\ Used(t) => /\ origin[t] \in Tokens /\ Used(origin[t])
                      /\ origin[origin[t]] = origin[t]
                      /\ users[owner[t]] # "absent"
        /\ ~Used(t) => origin[t] = None /\ t \notin revoked \cup stale
    /\ jar.refresh # None => Used(jar.refresh)
    /\ OneLiveToken

\* What a request has at each step.
RequestInv ==
    \A r \in Requests :
        /\ sent[r].refresh # None => Used(sent[r].refresh)
        /\ rotated[r] # None => Used(rotated[r])
        /\ pc[r] \in {"refresh", "rotating", "revoke"} =>
               sent[r].refresh # None /\ rotated[r] = None
        /\ pc[r] \in {"find", "insert", "verify", "issue"} => who[r] # None
        /\ pc[r] = "issue" => users[who[r]] # "absent"
        /\ ran[r] <= 1
        /\ pc[r] \in {"refresh", "rotating", "call"} => ran[r] = 0
        /\ pc[r] = "call" /\ rotated[r] # None => sent[r].refresh \in revoked
        /\ pc[r] \in {"call", "clear"} /\ rotated[r] # None =>
               /\ sent[r].refresh # None
               /\ owner[rotated[r]] = owner[sent[r].refresh]
               /\ rotated[r] \notin stale
        /\ pc[r] = "clear" /\ r \notin failed /\ sent[r].refresh # None =>
               IF rotated[r] = None THEN ~Usable(sent[r].refresh)
                                    ELSE Spent(sent[r].refresh)
        /\ pc[r] = "wipe" /\ r \notin failed /\ sent[r].refresh # None =>
               sent[r].refresh \in revoked

\* A rotation has its token to itself, and its account.
LockInv ==
    \A r \in Requests : pc[r] = "rotating" =>
        /\ Live(sent[r].refresh)
        /\ \A q \in Requests \ {r} : ~HoldsUser(q, owner[sent[r].refresh])

\* A pair that is on its way to the browser is nobody else's.
Carried(r) == pc[r] \in {"call", "respond"} /\ rotated[r] # None
FreshInv ==
    \A r \in Requests : Carried(r) =>
        /\ rotated[r] \notin revoked \cup {jar.refresh}
        /\ \A q \in Requests :
            /\ sent[q].refresh # rotated[r]
            /\ q # r /\ Carried(q) => rotated[q] # rotated[r]

\* While nothing disturbs the browser its requests carry what it has, what it
\* has is live unless one of them has just replaced or revoked it, and a logout
\* whose revocation was answered has left nothing.
CalmInv ==
    ~disturbed =>
        /\ \A r \in InFlight : sent[r].refresh = jar.refresh
        /\ jar.refresh # None =>
              \A t \in Tokens : Live(t) /\ origin[t] = origin[jar.refresh] =>
                  \/ t = jar.refresh
                  \/ \E r \in Requests :
                        pc[r] \in {"call", "respond", "clear"} /\ rotated[r] = t
        /\ jar.refresh \in revoked =>
              \E r \in Requests :
                  \/ pc[r] = "wipe"
                  \/ pc[r] \in {"call", "respond", "clear"} /\ rotated[r] # None
        /\ \A r \in Requests :
              pc[r] = "wipe" /\ r \notin failed /\ sent[r].refresh # None =>
              \A t \in Tokens : origin[t] = origin[sent[r].refresh] => ~Live(t)

SessionInv == TokenInv /\ RequestInv /\ LockInv /\ FreshInv /\ CalmInv

==============================================================================
