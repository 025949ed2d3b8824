-------------------------- MODULE AuthSession_proofs --------------------------
(***************************************************************************)
(* Proofs about AuthSession, for any number of accounts, token pairs and   *)
(* requests.  SessionInv is inductive together with the type invariant:    *)
(* each action has a lemma, with one step for every part of SessionInv     *)
(* that the action can disturb.  The properties follow from it.            *)
(***************************************************************************)
EXTENDS AuthSession, TLAPS

IInv == TypeOK /\ SessionInv

\* What the actions never touch needs no argument.
USE NoneAssumption

-----------------------------------------------------------------------------
(* The type invariant.  A rotation reads the account of the token that was *)
(* sent, which RequestInv says there is.                                   *)

LEMMA InitType == Init => TypeOK
<1> SUFFICES ASSUME Init PROVE TypeOK
  OBVIOUS
<1>1. jar \in Cookies /\ sent \in [Requests -> Cookies]
  BY DEF Init, Empty, Cookies
<1>2. /\ users \in [Emails -> {"absent", "active", "inactive"}]
      /\ pc \in [Requests -> {"idle", "refresh", "rotating", "call", "respond",
                              "clear", "find", "insert", "verify", "issue",
                              "revoke", "wipe"}]
  BY DEF Init
<1> QED
  BY <1>1, <1>2 DEF Init, TypeOK

LEMMA BeginType ==
    ASSUME TypeOK, NEW r \in Requests,
           NEW step \in {"refresh", "call", "clear", "find", "verify",
                         "revoke", "wipe"},
           NEW e \in Emails \cup {None}, Begin(r, step, e)
    PROVE  TypeOK'
BY DEF TypeOK, Begin, Goto, Cookies, db, clocks

LEMMA CommitRotationType ==
    ASSUME IInv, NEW r \in Requests, CommitRotation(r)
    PROVE  TypeOK'
<1> USE DEF IInv, SessionInv, RequestInv, TypeOK, Cookies
<1>1. sent[r].refresh \in Tokens
  BY DEF CommitRotation
<1>2. PICK t \in Tokens :
        /\ Issue(r, t, owner[sent[r].refresh], origin[sent[r].refresh])
        /\ next' = [next EXCEPT ![sent[r].refresh] = t]
  BY DEF CommitRotation
<1>3. /\ owner' \in [Tokens -> Emails \cup {None}]
      /\ origin' \in [Tokens -> Tokens \cup {None}]
      /\ rotated' \in [Requests -> Tokens \cup {None}]
  BY <1>1, <1>2 DEF Issue
<1>4. /\ next' \in [Tokens -> Tokens \cup {None}]
      /\ revoked' \in SUBSET Tokens
      /\ \A x \in Tokens : next'[x] # None => x \in revoked'
  BY <1>1, <1>2 DEF CommitRotation
<1>5. pc' \in [Requests -> {"idle", "refresh", "rotating", "call", "respond",
                            "clear", "find", "insert", "verify", "issue",
                            "revoke", "wipe"}]
      /\ disturbed' \in BOOLEAN
  BY DEF CommitRotation, Goto, Disturbs
<1> QED
  BY <1>3, <1>4, <1>5 DEF CommitRotation, clocks

LEMMA NextType == IInv /\ [Next]_vars => TypeOK'
<1> SUFFICES ASSUME IInv, [Next]_vars PROVE TypeOK'
  OBVIOUS
<1>0. TypeOK /\ RequestInv
  BY DEF IInv, SessionInv
<1>1. ASSUME NEW r \in Requests, BeginCall(r) PROVE TypeOK'
  BY <1>0, <1>1, BeginType DEF BeginCall
<1>2. ASSUME NEW r \in Requests, LoadToken(r) PROVE TypeOK'
  BY <1>0, <1>2 DEF LoadToken, Goto, TypeOK, db, clocks, local
<1>3. ASSUME NEW r \in Requests, CommitRotation(r) PROVE TypeOK'
  BY <1>3, CommitRotationType
<1>4. ASSUME NEW r \in Requests, CallUpstream(r) PROVE TypeOK'
  BY <1>0, <1>4 DEF CallUpstream, Goto, TypeOK, db, clocks
<1>5. ASSUME NEW r \in Requests, Respond(r) PROVE TypeOK'
  <2>1. jar' \in Cookies
    BY <1>0, <1>5 DEF Respond, TypeOK, Cookies
  <2>2. disturbed' \in BOOLEAN
    BY <1>0, <1>5 DEF Respond, Disturbs, TypeOK
  <2> QED
    BY <1>0, <1>5, <2>1, <2>2 DEF Respond, Goto, TypeOK, db, clocks, local
<1>6. ASSUME NEW r \in Requests, Clear(r) PROVE TypeOK'
  BY <1>0, <1>6 DEF Clear, Goto, Disturbs, Empty, TypeOK, Cookies, db, clocks, local
<1>7. ASSUME NEW r \in Requests, LoseAnswer(r) PROVE TypeOK'
  BY <1>0, <1>7 DEF LoseAnswer, Goto, TypeOK, db, clocks, local
<1>8. ASSUME NEW r \in Requests, BeginRegister(r) PROVE TypeOK'
  BY <1>0, <1>8, BeginType DEF BeginRegister
<1>9. ASSUME NEW r \in Requests, FindEmail(r) PROVE TypeOK'
  BY <1>0, <1>9 DEF FindEmail, Goto, TypeOK, db, clocks, local
<1>10. ASSUME NEW r \in Requests, InsertUser(r) PROVE TypeOK'
  BY <1>0, <1>10 DEF InsertUser, Goto, TypeOK, db, clocks, local
<1>11. ASSUME NEW r \in Requests, BeginLogin(r) PROVE TypeOK'
  BY <1>0, <1>11, BeginType DEF BeginLogin
<1>12. ASSUME NEW r \in Requests, Authenticate(r) PROVE TypeOK'
  BY <1>0, <1>12 DEF Authenticate, Goto, TypeOK, db, clocks, local
<1>13. ASSUME NEW r \in Requests, IssueTokens(r) PROVE TypeOK'
  BY <1>0, <1>13 DEF IssueTokens, Issue, Goto, TypeOK, clocks
<1>14. ASSUME NEW r \in Requests, BeginLogout(r) PROVE TypeOK'
  BY <1>0, <1>14, BeginType DEF BeginLogout
<1>15. ASSUME NEW r \in Requests, RevokeToken(r) PROVE TypeOK'
  <2>1. sent[r].refresh \in Tokens
    BY <1>0, <1>15 DEF RevokeToken, RequestInv, TypeOK, Cookies
  <2> QED
    BY <1>0, <1>15, <2>1
    DEF RevokeToken, Goto, Disturbs, TypeOK, clocks, local
<1>16. ASSUME NEW r \in Requests, LogoutFails(r) PROVE TypeOK'
  BY <1>0, <1>16 DEF LogoutFails, Goto, TypeOK, db, clocks, local
<1>23. ASSUME NEW r \in Requests, RefreshFails(r) PROVE TypeOK'
  BY <1>0, <1>23 DEF RefreshFails, Goto, TypeOK, db, clocks
<1>17. ASSUME NEW r \in Requests, Wipe(r) PROVE TypeOK'
  BY <1>0, <1>17 DEF Wipe, Goto, Disturbs, Empty, TypeOK, Cookies, db, clocks, local
<1>18. ASSUME NEW t \in Tokens, AccessExpires(t) PROVE TypeOK'
  BY <1>0, <1>18 DEF AccessExpires, TypeOK, db, local
<1>19. ASSUME NEW t \in Tokens, RefreshExpires(t) PROVE TypeOK'
  BY <1>0, <1>19 DEF RefreshExpires, TypeOK, db, local
<1>20. ASSUME NEW e \in Emails, Deactivate(e) PROVE TypeOK'
  BY <1>0, <1>20 DEF Deactivate, TypeOK, db, clocks, local
<1>21. CookieExpires => TypeOK'
  BY <1>0 DEF CookieExpires, TypeOK, Cookies, db, clocks, local
<1>22. UNCHANGED vars => TypeOK'
  BY <1>0 DEF vars, TypeOK, db, clocks, local
<1> QED
  BY <1>1, <1>2, <1>3, <1>4, <1>5, <1>6, <1>7, <1>8, <1>9, <1>10, <1>11, <1>12,
     <1>13, <1>14, <1>15, <1>16, <1>17, <1>18, <1>19, <1>20, <1>21, <1>22, <1>23
  DEF Next

-----------------------------------------------------------------------------
(* SessionInv: its start, and what happens to it in each action.           *)

LEMMA InitInv == Init => SessionInv
<1> SUFFICES ASSUME Init PROVE SessionInv
  OBVIOUS
<1>1. TokenInv
  BY DEF Init, TokenInv, OneLiveToken, Live, Used, Empty
<1>2. RequestInv
  BY DEF Init, RequestInv, Used, Empty
<1>3. LockInv /\ FreshInv
  BY DEF Init, LockInv, FreshInv, Carried
<1>4. CalmInv
  BY DEF Init, CalmInv, InFlight, Empty
<1> QED
  BY <1>1, <1>2, <1>3, <1>4 DEF SessionInv

\* A request that begins carries what the browser has, and holds nothing.
LEMMA BeginKeeps ==
    ASSUME IInv, NEW r \in Requests, NEW step, NEW e, Begin(r, step, e),
           step \in {"refresh", "call", "clear", "find", "verify", "revoke", "wipe"},
           step \in {"refresh", "revoke"} => jar.refresh # None,
           step \in {"clear", "wipe"} => jar.refresh = None,
           step \in {"find", "verify"} => e # None
    PROVE  SessionInv'
<1> USE DEF IInv, SessionInv
<1>1. TokenInv'
  BY DEF TypeOK, Begin, TokenInv, OneLiveToken, Live, Used, db, clocks
<1>2. RequestInv'
  BY DEF TypeOK, Begin, Goto, TokenInv, RequestInv, Used, Usable, Spent, db, clocks
<1>3. LockInv'
  BY DEF TypeOK, Begin, Goto, LockInv, HoldsUser, HoldsToken, Live, db
<1>4. FreshInv'
  BY DEF TypeOK, Begin, Goto, FreshInv, Carried, db
<1>5. CalmInv'
  BY DEF TypeOK, Begin, Goto, CalmInv, InFlight, Live, db
<1> QED
  BY <1>1, <1>2, <1>3, <1>4, <1>5

LEMMA BeginCallKeeps ==
    ASSUME IInv, NEW r \in Requests, BeginCall(r) PROVE SessionInv'
BY BeginKeeps DEF BeginCall

LEMMA LoadTokenKeeps ==
    ASSUME IInv, NEW r \in Requests, LoadToken(r) PROVE SessionInv'
<1> USE DEF IInv, SessionInv
<1>1. TokenInv'
  BY DEF TypeOK, LoadToken, TokenInv, OneLiveToken, Live, Used, db, clocks
<1>2. RequestInv'
  BY DEF TypeOK, LoadToken, Goto, RequestInv, Used, Usable, Spent, db, clocks, local
<1>3. LockInv'
  <2>1. sent[r].refresh \in Tokens /\ Used(sent[r].refresh)
    BY DEF TypeOK, Cookies, LoadToken, RequestInv
  <2>2. \A q \in Requests : pc[q] = "rotating" =>
            /\ sent[q].refresh \in Tokens
            /\ owner[sent[q].refresh] # owner[sent[r].refresh]
    BY DEF TypeOK, Cookies, LoadToken, RequestInv, HoldsUser, HoldsToken
  <2> QED
    BY <2>1, <2>2
    DEF TypeOK, LoadToken, Goto, LockInv, HoldsUser, HoldsToken, Live, Used,
        Usable, Spent, db, local
<1>4. FreshInv'
  BY DEF TypeOK, LoadToken, Goto, FreshInv, Carried, db, local
<1>5. CalmInv'
  BY DEF TypeOK, LoadToken, Goto, RequestInv, CalmInv, InFlight, Live, db, local
<1> QED
  BY <1>1, <1>2, <1>3, <1>4, <1>5

\* The new token is nobody's, the old one was the only live one of its login.
LEMMA CommitRotationKeeps ==
    ASSUME IInv, NEW r \in Requests, CommitRotation(r) PROVE SessionInv'
<1> USE DEF IInv, SessionInv
<1> DEFINE s == sent[r].refresh
<1>1. s \in Tokens /\ Live(s) /\ Used(s) /\ pc[r] = "rotating"
  BY DEF TypeOK, Cookies, CommitRotation, RequestInv, LockInv
<1>2. PICK t \in Tokens :
        /\ ~Used(t)
        /\ owner' = [owner EXCEPT ![t] = owner[s]]
        /\ origin' = [origin EXCEPT ![t] = origin[s]]
        /\ rotated' = [rotated EXCEPT ![r] = t]
  BY DEF CommitRotation, Issue, Unused, Used
<1>3. /\ revoked' = revoked \cup {s}
      /\ pc' = [pc EXCEPT ![r] = "call"]
      /\ Disturbs(r)
      /\ UNCHANGED <<users, clocks, jar, who, sent, ran, failed>>
  BY DEF CommitRotation, Goto
<1>4. t # s /\ t \notin revoked /\ t # jar.refresh /\ t \in Tokens
  BY <1>1, <1>2 DEF TokenInv, Used
<1>5. \A x \in Tokens : x # t => owner'[x] = owner[x] /\ origin'[x] = origin[x]
  BY <1>2 DEF TypeOK
<1>6. owner'[t] = owner[s] /\ origin'[t] = origin[s] /\ rotated'[r] = t
  BY <1>2 DEF TypeOK
<1>7. \A q \in Requests : /\ sent[q].refresh \in Tokens \cup {None}
                          /\ sent[q].refresh # t
                          /\ q # r => rotated'[q] = rotated[q] /\ rotated[q] # t
  BY <1>2 DEF TypeOK, Cookies, RequestInv, Used
<1> HIDE DEF s
<1>8. TokenInv'
  <2>1. \A x \in Tokens :
          /\ Used(x)' => /\ origin'[x] \in Tokens /\ Used(origin[x])'
                         /\ origin'[origin'[x]] = origin'[x]
                         /\ users'[owner'[x]] # "absent"
          /\ ~Used(x)' => origin'[x] = None /\ x \notin revoked' \cup stale'
    BY <1>1, <1>2, <1>3, <1>4, <1>5, <1>6 DEF TypeOK, TokenInv, Used, clocks
  <2>2. (jar.refresh # None => Used(jar.refresh))'
    BY <1>1, <1>3, <1>4, <1>5 DEF TypeOK, Cookies, TokenInv, Used
  <2>3. OneLiveToken'
    BY <1>1, <1>2, <1>3, <1>4, <1>5, <1>6
    DEF TypeOK, TokenInv, OneLiveToken, Live, Used
  <2> QED
    BY <2>1, <2>2, <2>3 DEF TokenInv
<1>9. RequestInv'
  <2> SUFFICES ASSUME NEW q \in Requests
               PROVE  /\ sent[q].refresh # None => Used(sent[q].refresh)'
                      /\ rotated'[q] # None => Used(rotated[q])'
                      /\ pc'[q] \in {"call", "clear"} /\ rotated'[q] # None =>
                             /\ sent[q].refresh # None
                             /\ owner'[rotated'[q]] = owner'[sent[q].refresh]
                             /\ rotated'[q] \notin stale
                      /\ pc'[q] = "clear" /\ q \notin failed
                            /\ sent[q].refresh # None =>
                         IF rotated'[q] = None THEN ~Usable(sent[q].refresh)'
                                               ELSE Spent(sent[q].refresh)'
                      /\ pc'[q] = "wipe" /\ q \notin failed
                            /\ sent[q].refresh # None =>
                         sent[q].refresh \in revoked'
                      /\ pc'[q] = "call" /\ rotated'[q] # None =>
                             sent[q].refresh \in revoked'
                      /\ ran[q] <= 1
                      /\ pc'[q] \in {"refresh", "rotating", "revoke"} =>
                             sent[q].refresh # None /\ rotated'[q] = None
                      /\ pc'[q] \in {"refresh", "rotating", "call"} => ran[q] = 0
    BY <1>3 DEF TypeOK, RequestInv, clocks
  <2>1. sent[q].refresh # None => Used(sent[q].refresh)'
    BY <1>3, <1>5, <1>7 DEF RequestInv, Used
  <2>2. rotated'[q] # None => Used(rotated[q])'
    BY <1>1, <1>4, <1>5, <1>6, <1>7 DEF TypeOK, RequestInv, Used
  <2>3. q # r =>
          /\ sent[q].refresh # None =>
                /\ Usable(sent[q].refresh)' => Usable(sent[q].refresh)
                /\ Spent(sent[q].refresh)' = Spent(sent[q].refresh)
                /\ owner'[sent[q].refresh] = owner[sent[q].refresh]
          /\ rotated[q] # None => owner'[rotated[q]] = owner[rotated[q]]
    BY <1>3, <1>5, <1>7 DEF TypeOK, RequestInv, Usable, Spent, clocks
  <2>4. q # r => pc'[q] = pc[q] /\ rotated'[q] = rotated[q]
    BY <1>3, <1>7 DEF TypeOK
  <2>5. /\ pc'[r] = "call" /\ s \in revoked' /\ rotated'[r] = t
        /\ owner'[t] = owner'[s] /\ t \notin stale
    BY <1>1, <1>2, <1>3, <1>4, <1>5, <1>6 DEF TypeOK, TokenInv, Used
  <2>6. CASE q = r
    BY <1>1, <1>3, <2>1, <2>2, <2>5, <2>6 DEF RequestInv, s
  <2>7. CASE q # r
    BY <1>1, <1>3, <2>1, <2>2, <2>3, <2>4, <2>7 DEF RequestInv, s
  <2> QED
    BY <2>6, <2>7
<1>10. LockInv'
  <2>1. \A q \in Requests : pc'[q] = "rotating" =>
           /\ q # r /\ pc[q] = "rotating" /\ sent[q].refresh \in Tokens
           /\ owner'[sent[q].refresh] = owner[sent[q].refresh]
           /\ sent[q].refresh # s
    BY <1>1, <1>3, <1>5, <1>7
    DEF TypeOK, RequestInv, LockInv, HoldsUser, HoldsToken, s
  <2> QED
    BY <1>3, <1>5, <1>7, <2>1 DEF LockInv, HoldsUser, HoldsToken, Live
<1>11. FreshInv'
  <2>1. \A q \in Requests : q # r => Carried(q)' = Carried(q)
    BY <1>3, <1>7 DEF TypeOK, Carried
  <2> QED
    BY <1>1, <1>3, <1>4, <1>6, <1>7, <2>1 DEF FreshInv, s
<1>12. CalmInv'
  <2> SUFFICES ASSUME ~disturbed' PROVE CalmInv'
    BY DEF CalmInv
  <2>1. ~disturbed /\ InFlight = {r}
    BY <1>3 DEF Disturbs, TypeOK
  <2>2. \A q \in Requests : pc'[q] # "idle" <=> q = r
    BY <1>3, <2>1 DEF InFlight, TypeOK
  <2>3. s = jar.refresh
    BY <1>3, <2>1 DEF CalmInv, s
  <2>4. \A x \in Tokens : Live(x)' /\ origin'[x] = origin'[s] => x = t
    BY <1>1, <1>3, <1>4, <1>5, <1>6, <2>3 DEF TokenInv, OneLiveToken, Live
  <2>5. pc'[r] = "call"
    BY <1>3 DEF TypeOK
  <2> QED
    BY <1>3, <1>6, <2>2, <2>3, <2>4, <2>5 DEF CalmInv, InFlight, s
<1> QED
  BY <1>8, <1>9, <1>10, <1>11, <1>12

\* A handler runs when the call is authorized; it is refreshed when it is not.
LEMMA CallUpstreamKeeps ==
    ASSUME IInv, NEW r \in Requests, CallUpstream(r) PROVE SessionInv'
<1> USE DEF IInv, SessionInv
<1>1. TokenInv'
  BY DEF TypeOK, CallUpstream, TokenInv, OneLiveToken, Live, Used, db, clocks
<1>2. RequestInv'
  <2>1. ran[r] = 0 /\ ran'[r] \in {0, 1}
    BY DEF TypeOK, CallUpstream, RequestInv
  <2>2. pc'[r] = "refresh" => ran'[r] = 0
    BY <2>1 DEF TypeOK, CallUpstream, Goto, MayRefresh
  <2>3. pc'[r] = "clear" /\ sent[r].refresh # None =>
           rotated[r] # None /\ Spent(sent[r].refresh)
    <3>1. pc[r] = "call" /\ pc'[r] = "clear" /\ sent[r].refresh # None =>
             rotated[r] # None /\ ~Authorized(rotated[r])
      BY DEF TypeOK, CallUpstream, Goto, MayRefresh, Bearer
    <3>2. pc[r] = "call" /\ rotated[r] # None =>
             rotated[r] \notin stale /\ owner[rotated[r]] = owner[sent[r].refresh]
      BY DEF RequestInv
    <3> QED
      BY <3>1, <3>2 DEF CallUpstream, Authorized, Spent
  <2>4. pc'[r] = "refresh" => sent[r].refresh # None /\ rotated[r] = None
    BY DEF TypeOK, CallUpstream, Goto, MayRefresh
  <2>5. pc'[r] \in {"refresh", "respond", "clear"}
    BY DEF TypeOK, CallUpstream, Goto
  <2>6. \A q \in Requests : q # r => pc'[q] = pc[q] /\ ran'[q] = ran[q]
    BY DEF TypeOK, CallUpstream, Goto
  <2> QED
    BY <2>1, <2>2, <2>3, <2>4, <2>5, <2>6
    DEF TypeOK, CallUpstream, RequestInv, Used, Usable, Spent, db, clocks
<1>3. LockInv'
  BY DEF TypeOK, CallUpstream, Goto, LockInv, HoldsUser, HoldsToken, Live, db
<1>4. FreshInv'
  BY DEF TypeOK, CallUpstream, Goto, FreshInv, Carried, db
<1>5. CalmInv'
  BY DEF TypeOK, CallUpstream, Goto, MayRefresh, CalmInv, InFlight, Live, db
<1> QED
  BY <1>1, <1>2, <1>3, <1>4, <1>5

LEMMA RespondKeeps ==
    ASSUME IInv, NEW r \in Requests, Respond(r) PROVE SessionInv'
<1> USE DEF IInv, SessionInv
<1>1. TokenInv'
  BY DEF TypeOK, Respond, TokenInv, RequestInv, OneLiveToken, Live, Used, db, clocks, local
<1>2. RequestInv'
  BY DEF TypeOK, Respond, Goto, RequestInv, Used, Usable, Spent, db, clocks, local
<1>3. LockInv'
  BY DEF TypeOK, Respond, Goto, LockInv, HoldsUser, HoldsToken, Live, db, local
<1>4. FreshInv'
  BY DEF TypeOK, Respond, Goto, FreshInv, Carried, db, local
<1>5. CalmInv'
  <2>1. CASE rotated[r] = None
    BY <2>1 DEF TypeOK, Respond, Goto, CalmInv, InFlight, Live, db, local
  <2>2. CASE rotated[r] # None /\ ~disturbed'
    <3>1. InFlight = {r}
      BY <2>2 DEF TypeOK, Respond, Disturbs
    <3>2. \A q \in Requests : pc'[q] = "idle"
      BY <3>1 DEF TypeOK, Respond, Goto, InFlight
    <3>3. /\ jar'.refresh \in Tokens /\ Live(jar'.refresh)
          /\ UNCHANGED <<owner, revoked, origin>>
      BY <2>2 DEF TypeOK, Respond, FreshInv, Carried, RequestInv, Live, Used, db
    <3> QED
      BY <3>2, <3>3 DEF CalmInv, InFlight, TokenInv, OneLiveToken, Live
  <2> QED
    BY <2>1, <2>2 DEF CalmInv
<1> QED
  BY <1>1, <1>2, <1>3, <1>4, <1>5

LEMMA ClearKeeps ==
    ASSUME IInv, NEW r \in Requests, Clear(r) PROVE SessionInv'
<1> USE DEF IInv, SessionInv
<1>1. TokenInv'
  BY DEF TypeOK, Clear, Empty, TokenInv, OneLiveToken, Live, Used, db, clocks
<1>2. RequestInv'
  BY DEF TypeOK, Clear, Goto, RequestInv, Used, Usable, Spent, db, clocks, local
<1>3. LockInv'
  BY DEF TypeOK, Clear, Goto, LockInv, HoldsUser, HoldsToken, Live, db, local
<1>4. FreshInv'
  BY DEF TypeOK, Clear, Empty, Goto, FreshInv, Carried, db, local
<1>5. CalmInv'
  <2> SUFFICES ASSUME ~disturbed' PROVE CalmInv'
    BY DEF CalmInv
  <2>1. InFlight = {r}
    BY DEF TypeOK, Clear, Disturbs
  <2>2. \A q \in Requests : pc'[q] = "idle"
    BY <2>1 DEF TypeOK, Clear, Goto, InFlight
  <2> QED
    BY <2>2 DEF TypeOK, Clear, Empty, CalmInv, InFlight, db
<1> QED
  BY <1>1, <1>2, <1>3, <1>4, <1>5

LEMMA LoseAnswerKeeps ==
    ASSUME IInv, NEW r \in Requests, LoseAnswer(r) PROVE SessionInv'
<1> USE DEF IInv, SessionInv
<1>1. TokenInv'
  BY DEF TypeOK, LoseAnswer, TokenInv, OneLiveToken, Live, Used, db, clocks
<1>2. RequestInv'
  BY DEF TypeOK, LoseAnswer, Goto, RequestInv, Used, Usable, Spent, db, clocks, local
<1>3. LockInv'
  BY DEF TypeOK, LoseAnswer, Goto, LockInv, HoldsUser, HoldsToken, Live, db, local
<1>4. FreshInv'
  BY DEF TypeOK, LoseAnswer, Goto, FreshInv, Carried, db, local
<1>5. CalmInv'
  <2> SUFFICES ASSUME ~disturbed' PROVE CalmInv'
    BY DEF CalmInv
  <2>1. ~disturbed /\ rotated[r] = None /\ pc[r] # "wipe"
    BY DEF TypeOK, LoseAnswer
  <2>2. /\ pc'[r] = "idle"
        /\ \A q \in Requests : q # r => pc'[q] = pc[q]
        /\ UNCHANGED <<owner, revoked, origin, jar, sent, rotated, failed>>
    BY DEF TypeOK, LoseAnswer, Goto, db, local
  <2> QED
    BY <2>1, <2>2 DEF CalmInv, InFlight, Live
<1> QED
  BY <1>1, <1>2, <1>3, <1>4, <1>5

LEMMA FindEmailKeeps ==
    ASSUME IInv, NEW r \in Requests, FindEmail(r) PROVE SessionInv'
<1> USE DEF IInv, SessionInv
<1>1. TokenInv'
  BY DEF TypeOK, FindEmail, TokenInv, OneLiveToken, Live, Used, db, clocks
<1>2. RequestInv'
  BY DEF TypeOK, FindEmail, Goto, RequestInv, Used, Usable, Spent, db, clocks, local
<1>3. LockInv'
  BY DEF TypeOK, FindEmail, Goto, LockInv, HoldsUser, HoldsToken, Live, db, local
<1>4. FreshInv'
  BY DEF TypeOK, FindEmail, Goto, FreshInv, Carried, db, local
<1>5. CalmInv'
  BY DEF TypeOK, FindEmail, Goto, CalmInv, InFlight, Live, db, local
<1> QED
  BY <1>1, <1>2, <1>3, <1>4, <1>5

\* A new account owns no token yet.
LEMMA InsertUserKeeps ==
    ASSUME IInv, NEW r \in Requests, InsertUser(r) PROVE SessionInv'
<1> USE DEF IInv, SessionInv
<1>0. /\ UNCHANGED <<owner, revoked, origin, expired, stale, jar, who, sent, rotated,
                   ran, failed>>
      /\ \A e \in Emails : users[e] # "absent" => users'[e] = users[e]
  BY DEF TypeOK, InsertUser, db, clocks, local
<1>1. TokenInv'
  BY <1>0 DEF TypeOK, TokenInv, OneLiveToken, Live, Used
<1>2. RequestInv'
  <2>1. \A q \in Requests : sent[q].refresh # None =>
            /\ sent[q].refresh \in Tokens
            /\ users'[owner[sent[q].refresh]] = users[owner[sent[q].refresh]]
    BY <1>0 DEF TypeOK, Cookies, TokenInv, RequestInv, Used
  <2>2. \A q \in Requests : pc'[q] = "issue" => users'[who[q]] # "absent"
    BY <1>0 DEF TypeOK, InsertUser, Goto, RequestInv
  <2> QED
    BY <1>0, <2>1, <2>2 DEF TypeOK, InsertUser, Goto, RequestInv, Used, Usable, Spent
<1>3. LockInv'
  BY <1>0 DEF TypeOK, InsertUser, Goto, LockInv, HoldsUser, HoldsToken, Live
<1>4. FreshInv'
  BY <1>0 DEF TypeOK, InsertUser, Goto, FreshInv, Carried
<1>5. CalmInv'
  BY <1>0 DEF TypeOK, InsertUser, Goto, CalmInv, InFlight, Live
<1> QED
  BY <1>1, <1>2, <1>3, <1>4, <1>5

LEMMA AuthenticateKeeps ==
    ASSUME IInv, NEW r \in Requests, Authenticate(r) PROVE SessionInv'
<1> USE DEF IInv, SessionInv
<1>1. TokenInv'
  BY DEF TypeOK, Authenticate, TokenInv, OneLiveToken, Live, Used, db, clocks
<1>2. RequestInv'
  BY DEF TypeOK, Authenticate, Goto, RequestInv, Used, Usable, Spent, db, clocks, local
<1>3. LockInv'
  BY DEF TypeOK, Authenticate, Goto, LockInv, HoldsUser, HoldsToken, Live, db, local
<1>4. FreshInv'
  BY DEF TypeOK, Authenticate, Goto, FreshInv, Carried, db, local
<1>5. CalmInv'
  BY DEF TypeOK, Authenticate, Goto, CalmInv, InFlight, Live, db, local
<1> QED
  BY <1>1, <1>2, <1>3, <1>4, <1>5

\* No token goes back to a token that was not in use.
LEMMA IssueTokensKeeps ==
    ASSUME IInv, NEW r \in Requests, IssueTokens(r) PROVE SessionInv'
<1> USE DEF IInv, SessionInv
<1>1. PICK t \in Tokens :
        /\ ~Used(t)
        /\ owner' = [owner EXCEPT ![t] = who[r]]
        /\ origin' = [origin EXCEPT ![t] = t]
        /\ rotated' = [rotated EXCEPT ![r] = t]
  BY DEF IssueTokens, Issue, Unused, Used
<1>2. /\ pc[r] = "issue" /\ who[r] \in Emails /\ users[who[r]] # "absent"
      /\ pc' = [pc EXCEPT ![r] = "respond"]
      /\ UNCHANGED <<users, revoked, clocks, jar, who, sent, ran, failed,
                   disturbed>>
  BY DEF TypeOK, IssueTokens, Goto, RequestInv
<1>3. /\ t \notin revoked /\ t # jar.refresh
      /\ \A x \in Tokens : origin[x] # t
  BY <1>1 DEF TypeOK, TokenInv, Used
<1>4. \A x \in Tokens : x # t => owner'[x] = owner[x] /\ origin'[x] = origin[x]
  BY <1>1 DEF TypeOK
<1>5. owner'[t] = who[r] /\ origin'[t] = t /\ rotated'[r] = t
  BY <1>1 DEF TypeOK
<1>6. \A q \in Requests : /\ sent[q].refresh \in Tokens \cup {None}
                          /\ sent[q].refresh # t
                          /\ q # r => rotated'[q] = rotated[q] /\ rotated[q] # t
  BY <1>1 DEF TypeOK, Cookies, RequestInv, Used
<1>7. TokenInv'
  <2>1. \A x \in Tokens :
          /\ Used(x)' => /\ origin'[x] \in Tokens /\ Used(origin[x])'
                         /\ origin'[origin'[x]] = origin'[x]
                         /\ users'[owner'[x]] # "absent"
          /\ ~Used(x)' => origin'[x] = None /\ x \notin revoked' \cup stale'
    BY <1>1, <1>2, <1>3, <1>4, <1>5 DEF TypeOK, TokenInv, Used, clocks
  <2>2. (jar.refresh # None => Used(jar.refresh))'
    BY <1>2, <1>3, <1>4 DEF TypeOK, Cookies, TokenInv, Used
  <2>3. OneLiveToken'
    BY <1>2, <1>3, <1>4, <1>5 DEF TypeOK, TokenInv, OneLiveToken, Live
  <2> QED
    BY <2>1, <2>2, <2>3 DEF TokenInv
<1>8. RequestInv'
  <2>1. \A q \in Requests : sent[q].refresh # None =>
            /\ Used(sent[q].refresh)'
            /\ Usable(sent[q].refresh)' = Usable(sent[q].refresh)
            /\ Spent(sent[q].refresh)' = Spent(sent[q].refresh)
            /\ owner'[sent[q].refresh] = owner[sent[q].refresh]
    BY <1>2, <1>4, <1>6 DEF RequestInv, Used, Usable, Spent, clocks
  <2>5. \A q \in Requests : rotated[q] # None /\ q # r =>
            owner'[rotated'[q]] = owner[rotated[q]]
    BY <1>4, <1>6 DEF TypeOK
  <2>2. \A q \in Requests : rotated'[q] # None => Used(rotated[q])'
    BY <1>2, <1>4, <1>5, <1>6 DEF TypeOK, RequestInv, Used
  <2>3. \A q \in Requests : q # r => pc'[q] = pc[q] /\ rotated'[q] = rotated[q]
    BY <1>2, <1>6 DEF TypeOK
  <2>4. pc'[r] = "respond"
    BY <1>2 DEF TypeOK
  <2> QED
    BY <1>2, <2>1, <2>2, <2>3, <2>4, <2>5 DEF RequestInv, clocks
<1>9. LockInv'
  BY <1>2, <1>4, <1>6
  DEF TypeOK, LockInv, RequestInv, HoldsUser, HoldsToken, Live
<1>10. FreshInv'
  <2>1. \A q \in Requests : q # r => Carried(q)' = Carried(q)
    BY <1>2, <1>6 DEF TypeOK, Carried
  <2> QED
    BY <1>2, <1>3, <1>5, <1>6, <2>1 DEF FreshInv
<1>11. CalmInv'
  <2>1. \A q \in Requests : pc'[q] # "idle" <=> pc[q] # "idle"
    BY <1>2 DEF TypeOK
  <2>2. \A q \in Requests : /\ pc'[q] = "wipe" <=> pc[q] = "wipe"
                            /\ pc[q] \in {"call", "respond", "clear"} =>
                                  /\ pc'[q] = pc[q] /\ rotated'[q] = rotated[q]
    BY <1>2, <1>6 DEF TypeOK
  <2>3. \A x, y \in Tokens :
           Used(y) /\ Live(x)' /\ origin'[x] = origin'[y] =>
              Live(x) /\ origin[x] = origin[y] /\ x # t
    BY <1>1, <1>2, <1>3, <1>4, <1>5 DEF Live, Used
  <2>4. jar.refresh # None => jar.refresh \in Tokens /\ Used(jar.refresh)
    BY DEF TypeOK, Cookies, TokenInv
  <2>5. \A q \in Requests : sent[q].refresh # None =>
           sent[q].refresh \in Tokens /\ Used(sent[q].refresh)
    BY DEF TypeOK, Cookies, RequestInv
  <2> QED
    BY <1>2, <2>1, <2>2, <2>3, <2>4, <2>5 DEF CalmInv, InFlight
<1> QED
  BY <1>7, <1>8, <1>9, <1>10, <1>11

\* Nobody holds the token, and no token on its way to the browser is revoked.
LEMMA RevokeTokenKeeps ==
    ASSUME IInv, NEW r \in Requests, RevokeToken(r) PROVE SessionInv'
<1> USE DEF IInv, SessionInv
<1> DEFINE s == sent[r].refresh
<1>1. s \in Tokens /\ Used(s) /\ pc[r] = "revoke"
  BY DEF TypeOK, Cookies, RevokeToken, RequestInv
<1>2. /\ revoked' = revoked \cup {s}
      /\ pc' = [pc EXCEPT ![r] = "wipe"]
      /\ \A q \in Requests : ~HoldsToken(q, s)
      /\ Disturbs(r)
      /\ UNCHANGED <<users, owner, origin, clocks, jar, who, sent, rotated, ran,
                   failed>>
  BY DEF RevokeToken, Goto, local
<1> HIDE DEF s
<1>3. TokenInv'
  BY <1>1, <1>2 DEF TypeOK, TokenInv, OneLiveToken, Live, Used, clocks
<1>4. RequestInv'
  BY <1>1, <1>2 DEF TypeOK, RequestInv, Used, Usable, Spent, clocks, s
<1>5. LockInv'
  BY <1>2 DEF TypeOK, LockInv, HoldsUser, HoldsToken, Live
<1>6. FreshInv'
  BY <1>2 DEF TypeOK, FreshInv, Carried, s
<1>7. CalmInv'
  <2> SUFFICES ASSUME ~disturbed' PROVE CalmInv'
    BY DEF CalmInv
  <2>1. ~disturbed /\ InFlight = {r}
    BY <1>2 DEF Disturbs, TypeOK
  <2>2. \A q \in Requests : q # r => pc[q] = "idle" /\ pc'[q] = "idle"
    BY <1>2, <2>1 DEF InFlight, TypeOK
  <2>3. s = jar.refresh
    BY <1>1, <2>1 DEF CalmInv, s
  <2>4. \A x \in Tokens : origin[x] = origin[s] => ~Live(x)'
    BY <1>1, <1>2, <2>1, <2>2, <2>3 DEF CalmInv, Live, Used
  <2> QED
    BY <1>2, <2>2, <2>3, <2>4 DEF CalmInv, InFlight, TypeOK, s
<1> QED
  BY <1>3, <1>4, <1>5, <1>6, <1>7

\* A failure changes no token; the cookies go later, or stay.
LEMMA RefreshFailsKeeps ==
    ASSUME IInv, NEW r \in Requests, RefreshFails(r) PROVE SessionInv'
<1> USE DEF IInv, SessionInv
<1>1. TokenInv'
  BY DEF TypeOK, RefreshFails, TokenInv, OneLiveToken, Live, Used, db, clocks
<1>2. RequestInv'
  <2>1. /\ pc'[r] \in {"clear", "idle"} /\ r \in failed'
        /\ \A q \in Requests : q # r =>
              pc'[q] = pc[q] /\ (q \in failed' <=> q \in failed)
        /\ UNCHANGED <<users, owner, revoked, clocks, who, sent, rotated, ran>>
    BY DEF TypeOK, RefreshFails, Goto, db
  <2>2. pc'[r] = "clear" /\ rotated[r] # None => pc[r] = "call"
    BY <2>1 DEF RefreshFails, RequestInv
  <2> QED
    BY <2>1, <2>2 DEF RequestInv, Used, Usable, Spent, clocks
<1>3. LockInv'
  BY DEF TypeOK, RefreshFails, Goto, LockInv, HoldsUser, HoldsToken, Live, db
<1>4. FreshInv'
  BY DEF TypeOK, RefreshFails, Goto, FreshInv, Carried, db
<1>5. CalmInv'
  <2> SUFFICES ASSUME ~disturbed' PROVE CalmInv'
    BY DEF CalmInv
  <2>1. ~disturbed /\ rotated[r] = None /\ pc[r] # "wipe"
    BY DEF TypeOK, RefreshFails
  <2>2. /\ pc'[r] \in {"clear", "idle"} /\ pc[r] # "idle"
        /\ \A q \in Requests : q # r =>
              pc'[q] = pc[q] /\ (q \in failed' <=> q \in failed)
        /\ UNCHANGED <<owner, revoked, origin, jar, sent, rotated>>
    BY DEF TypeOK, RefreshFails, Goto, db
  <2> QED
    BY <2>1, <2>2 DEF CalmInv, InFlight, Live
<1> QED
  BY <1>1, <1>2, <1>3, <1>4, <1>5

LEMMA LogoutFailsKeeps ==
    ASSUME IInv, NEW r \in Requests, LogoutFails(r) PROVE SessionInv'
<1> USE DEF IInv, SessionInv
<1>1. TokenInv'
  BY DEF TypeOK, LogoutFails, TokenInv, OneLiveToken, Live, Used, db, clocks
<1>2. RequestInv'
  BY DEF TypeOK, LogoutFails, Goto, RequestInv, Used, Usable, Spent, db, clocks, local
<1>3. LockInv'
  BY DEF TypeOK, LogoutFails, Goto, LockInv, HoldsUser, HoldsToken, Live, db, local
<1>4. FreshInv'
  BY DEF TypeOK, LogoutFails, Goto, FreshInv, Carried, db, local
<1>5. CalmInv'
  <2>1. /\ pc[r] = "revoke" /\ pc'[r] = "wipe" /\ r \in failed'
        /\ \A q \in Requests : q # r =>
              pc'[q] = pc[q] /\ (q \in failed' <=> q \in failed)
        /\ UNCHANGED <<owner, revoked, origin, jar, sent, rotated, disturbed>>
    BY DEF TypeOK, LogoutFails, Goto, db
  <2> QED
    BY <2>1 DEF CalmInv, InFlight, Live
<1> QED
  BY <1>1, <1>2, <1>3, <1>4, <1>5

LEMMA WipeKeeps ==
    ASSUME IInv, NEW r \in Requests, Wipe(r) PROVE SessionInv'
<1> USE DEF IInv, SessionInv
<1>1. TokenInv'
  BY DEF TypeOK, Wipe, Empty, TokenInv, OneLiveToken, Live, Used, db, clocks
<1>2. RequestInv'
  BY DEF TypeOK, Wipe, Goto, RequestInv, Used, Usable, Spent, db, clocks, local
<1>3. LockInv'
  BY DEF TypeOK, Wipe, Goto, LockInv, HoldsUser, HoldsToken, Live, db, local
<1>4. FreshInv'
  BY DEF TypeOK, Wipe, Empty, Goto, FreshInv, Carried, db, local
<1>5. CalmInv'
  <2> SUFFICES ASSUME ~disturbed' PROVE CalmInv'
    BY DEF CalmInv
  <2>1. InFlight = {r}
    BY DEF TypeOK, Wipe, Disturbs
  <2>2. \A q \in Requests : pc'[q] = "idle"
    BY <2>1 DEF TypeOK, Wipe, Goto, InFlight
  <2> QED
    BY <2>2 DEF TypeOK, Wipe, Empty, CalmInv, InFlight, db
<1> QED
  BY <1>1, <1>2, <1>3, <1>4, <1>5

\* Time and the operator make tokens unusable, never usable again.
LEMMA ClockKeeps ==
    ASSUME IInv,
           \/ \E t \in Tokens : AccessExpires(t) \/ RefreshExpires(t)
           \/ \E e \in Emails : Deactivate(e)
           \/ CookieExpires
    PROVE  SessionInv'
<1> USE DEF IInv, SessionInv
<1>1. /\ UNCHANGED <<owner, revoked, origin, pc, who, sent, rotated, ran, failed,
                   disturbed>>
      /\ jar'.refresh = jar.refresh /\ expired \subseteq expired'
      /\ users' \in [Emails -> {"absent", "active", "inactive"}]
      /\ \A e \in Emails : /\ users'[e] = "absent" <=> users[e] = "absent"
                           /\ users'[e] = "active" => users[e] = "active"
  BY DEF TypeOK, Cookies, AccessExpires, RefreshExpires, Deactivate,
         CookieExpires, db, clocks, local
<1>2. TokenInv'
  <2>1. \A t \in stale' : t \in stale \/ owner[t] # None
    BY DEF AccessExpires, RefreshExpires, Deactivate, CookieExpires, clocks
  <2> QED
    BY <1>1, <2>1 DEF TypeOK, TokenInv, OneLiveToken, Live, Used
<1>3. RequestInv'
  <2>1. \A q \in Requests : sent[q].refresh # None =>
            (Usable(sent[q].refresh)' => Usable(sent[q].refresh))
    BY <1>1 DEF TypeOK, Cookies, RequestInv, Used, Usable, Spent
  <2>2. \A q \in Requests : pc[q] = "issue" => users'[who[q]] # "absent"
    BY <1>1 DEF TypeOK, RequestInv
  <2>3. \A q \in Requests : sent[q].refresh # None =>
            (Spent(sent[q].refresh) => Spent(sent[q].refresh)')
    BY <1>1 DEF TypeOK, Cookies, TokenInv, RequestInv, Used, Spent
  <2>4. \A q \in Requests : pc[q] \in {"call", "clear"} /\ rotated[q] # None =>
            rotated[q] \notin stale'
    BY DEF TypeOK, RequestInv, AccessExpires, RefreshExpires, Deactivate,
           CookieExpires, clocks, InFlight
  <2> QED
    BY <1>1, <2>1, <2>2, <2>3, <2>4 DEF RequestInv, Used
<1>4. LockInv' /\ FreshInv'
  BY <1>1 DEF LockInv, FreshInv, HoldsUser, HoldsToken, Live, Carried
<1>5. CalmInv'
  BY <1>1 DEF CalmInv, InFlight, Live
<1> QED
  BY <1>2, <1>3, <1>4, <1>5

LEMMA StutterKeeps == IInv /\ UNCHANGED vars => SessionInv'
BY DEF IInv, SessionInv, vars, db, clocks, local, TokenInv, RequestInv, LockInv,
       FreshInv, CalmInv, OneLiveToken, Live, Used, Usable, Spent, HoldsUser,
       HoldsToken, Carried, InFlight

-----------------------------------------------------------------------------
(* The invariant.                                                          *)

LEMMA NextKeeps == IInv /\ [Next]_vars => IInv'
<1> SUFFICES ASSUME IInv, [Next]_vars PROVE IInv'
  OBVIOUS
<1>1. TypeOK'
  BY NextType
<1>2. ASSUME NEW r \in Requests, BeginRegister(r) PROVE SessionInv'
  <2>1. PICK e \in Emails : Begin(r, "find", e)
    BY <1>2 DEF BeginRegister
  <2> QED
    BY <2>1, BeginKeeps
<1>3. ASSUME NEW r \in Requests, BeginLogin(r) PROVE SessionInv'
  <2>1. PICK e \in Emails : Begin(r, "verify", e)
    BY <1>3 DEF BeginLogin
  <2> QED
    BY <2>1, BeginKeeps
<1>4. ASSUME NEW r \in Requests, BeginLogout(r) PROVE SessionInv'
  BY <1>4, BeginKeeps DEF BeginLogout
<1>5. SessionInv'
  BY <1>2, <1>3, <1>4, BeginCallKeeps, LoadTokenKeeps, CommitRotationKeeps,
     CallUpstreamKeeps, RespondKeeps, ClearKeeps, LoseAnswerKeeps,
     FindEmailKeeps, InsertUserKeeps, AuthenticateKeeps, IssueTokensKeeps,
     RevokeTokenKeeps, LogoutFailsKeeps, RefreshFailsKeeps, WipeKeeps,
     ClockKeeps, StutterKeeps
  DEF Next
<1> QED
  BY <1>1, <1>5 DEF IInv

LEMMA Invariance == Spec => []IInv
<1>1. Init => IInv
  BY InitType, InitInv DEF IInv
<1> QED
  BY <1>1, NextKeeps, PTL DEF Spec

\* The state has its type in every behaviour of the accounts, the tokens and
\* the browser.
THEOREM TypeCorrect == Spec => []TypeOK
<1>1. IInv => TypeOK
  BY DEF IInv
<1> QED
  BY <1>1, Invariance, PTL

\* rotate_refresh_token and issue_tokens: a login has one live refresh token,
\* whatever the requests that rotate it at once.
THEOREM LoginHasOneToken == Spec => []OneLiveToken
<1>1. IInv => OneLiveToken
  BY DEF IInv, SessionInv, TokenInv
<1> QED
  BY <1>1, Invariance, PTL

\* The proxy's second attempt follows a refused one: no handler runs twice.
THEOREM CallsRunOnce == Spec => []HandlerRunsOnce
<1>1. IInv => HandlerRunsOnce
  BY DEF IInv, SessionInv, RequestInv, HandlerRunsOnce
<1> QED
  BY <1>1, Invariance, PTL

-----------------------------------------------------------------------------
(* What a step may do to the session.                                      *)

\* The proxy and the logout route drop the refresh cookie for a logout, for a
\* refresh that failed, for a token that has expired or whose account is off,
\* and for a refused token only when requests overlapped or an answer was lost.
THEOREM SignOutHasCause == Spec => SignedOutForCause
<1> DEFINE Cause(r) ==
        \/ pc[r] = "wipe"
        \/ pc[r] = "clear" /\ r \in failed
        \/ pc[r] = "clear" /\ Spent(jar.refresh)
        \/ /\ pc[r] = "clear" /\ disturbed'
           /\ sent[r].refresh # None => ~Usable(sent[r].refresh)
           Dropped == jar.refresh # None /\ jar'.refresh = None
<1>1. ASSUME IInv, Next, Dropped PROVE \E r \in Requests : Cause(r)
  <2>1. ASSUME NEW r \in Requests, Clear(r) PROVE Cause(r)
    <3>1. pc[r] = "clear" /\ (~disturbed' => ~disturbed /\ InFlight = {r})
      BY <1>1, <2>1 DEF Clear, Disturbs, IInv, TypeOK
    <3>2. CASE r \in failed
      BY <3>1, <3>2
    <3>3. CASE r \notin failed /\ disturbed'
      BY <1>1, <3>1, <3>3 DEF IInv, SessionInv, RequestInv, Usable, Spent
    <3>4. CASE r \notin failed /\ ~disturbed'
      <4>1. sent[r].refresh = jar.refresh
        BY <1>1, <3>1, <3>4 DEF IInv, SessionInv, CalmInv
      <4>2. \A q \in Requests : q # r => pc[q] = "idle"
        BY <3>1, <3>4 DEF InFlight
      <4>3. rotated[r] = None => jar.refresh \notin revoked
        BY <1>1, <3>1, <3>4, <4>2 DEF IInv, SessionInv, CalmInv
      <4>4. Spent(jar.refresh)
        BY <1>1, <3>1, <3>4, <4>1, <4>3
        DEF IInv, SessionInv, RequestInv, Usable, Spent
      <4> QED
        BY <3>1, <4>4
    <3> QED
      BY <3>2, <3>3, <3>4
  <2>2. ASSUME NEW r \in Requests, Wipe(r) PROVE Cause(r)
    BY <2>2 DEF Wipe
  <2>3. ASSUME NEW r \in Requests, Respond(r) PROVE FALSE
    BY <1>1, <2>3 DEF Respond
  <2>4. CookieExpires => jar'.refresh = jar.refresh
    BY <1>1 DEF CookieExpires, IInv, TypeOK, Cookies
  <2> HIDE DEF Cause
  <2> QED
    BY <1>1, <2>1, <2>2, <2>3, <2>4
    DEF Next, BeginCall, BeginRegister, BeginLogin, BeginLogout, Begin,
        LoadToken, CommitRotation, RefreshFails, CallUpstream, LoseAnswer,
        FindEmail, InsertUser, Authenticate, IssueTokens, RevokeToken,
        LogoutFails, AccessExpires, RefreshExpires, Deactivate
<1>2. IInv /\ [Next]_vars => [Dropped => \E r \in Requests : Cause(r)]_vars
  <2> HIDE DEF Cause, Dropped
  <2> QED
    BY <1>1
<1> QED
  BY <1>2, Invariance, PTL DEF Spec, SignedOutForCause

\* revoke_refresh_token behind the logout route: when the call was answered the
\* token it carried is dead, and so is every other one of that login unless
\* the session changed under a request in flight or an answer was lost.
THEOREM LogoutIsComplete == Spec => LogoutEndsSession
<1> DEFINE Complete == \A r \in Requests :
        Wipe(r) /\ sent[r].refresh # None /\ r \notin failed =>
           /\ ~Live(sent[r].refresh)
           /\ ~disturbed' =>
                 \A t \in Tokens :
                     origin[t] = origin[sent[r].refresh] => ~Live(t)
<1>1. IInv => Complete
  BY DEF IInv, TypeOK, SessionInv, RequestInv, CalmInv, Wipe, Disturbs, Live
<1>2. IInv /\ [Next]_vars => [Complete]_vars
  BY <1>1
<1> QED
  BY <1>2, Invariance, PTL DEF Spec, LogoutEndsSession

-----------------------------------------------------------------------------
(* The refinement of SessionContract: IssueTokens opens a login, the       *)
(* revocation of its last token closes it, everything else stutters.       *)

LEMMA SameSession ==
    ASSUME UNCHANGED <<owner, revoked, origin>>
    PROVE  Session' = Session
BY DEF Session, Live

\* The new token takes the place of the one it replaces.
LEMMA RotationKeepsSession ==
    ASSUME IInv, NEW r \in Requests, CommitRotation(r)
    PROVE  Session' = Session
<1> USE DEF IInv, SessionInv
<1> DEFINE s == sent[r].refresh
<1>1. s \in Tokens /\ Live(s) /\ Used(s)
  BY DEF TypeOK, Cookies, CommitRotation, RequestInv, LockInv
<1>2. PICK t \in Tokens :
        /\ ~Used(t)
        /\ owner' = [owner EXCEPT ![t] = owner[s]]
        /\ origin' = [origin EXCEPT ![t] = origin[s]]
        /\ revoked' = revoked \cup {s} /\ s' = s
  BY DEF CommitRotation, Issue, Unused, Used
<1> HIDE DEF s
<1>3. /\ t # s /\ t \notin revoked /\ origin[t] = None
      /\ origin[s] \in Tokens /\ origin[s] # t
  BY <1>1, <1>2 DEF TokenInv, Used
<1>4. \A l \in Tokens : origin'[l] = l <=> origin[l] = l
  BY <1>2, <1>3 DEF TypeOK
<1>5. \A l \in Tokens :
         (\E x \in Tokens : Live(x)' /\ origin'[x] = l)
            <=> (\E x \in Tokens : Live(x) /\ origin[x] = l)
  <2>1. Live(t)' /\ origin'[t] = origin[s]
    BY <1>1, <1>2, <1>3 DEF TypeOK, Live, Used
  <2>2. \A x \in Tokens : x # t /\ x # s =>
           (Live(x)' <=> Live(x)) /\ origin'[x] = origin[x]
    BY <1>2 DEF TypeOK, Live
  <2>3. ~Live(t) /\ ~Live(s)'
    BY <1>2, <1>3 DEF Live, Used
  <2>4. \A x \in Tokens : Live(x)' => x # s
    BY <1>2, <2>3 DEF Live
  <2>5. ASSUME NEW l \in Tokens, NEW x \in Tokens, Live(x)', origin'[x] = l
        PROVE  \E y \in Tokens : Live(y) /\ origin[y] = l
    BY <1>1, <2>1, <2>2, <2>4, <2>5
  <2>6. ASSUME NEW l \in Tokens, NEW x \in Tokens, Live(x), origin[x] = l
        PROVE  \E y \in Tokens : Live(y)' /\ origin'[y] = l
    BY <1>1, <2>1, <2>2, <2>3, <2>6
  <2> QED
    BY <2>5, <2>6
<1> QED
  BY <1>4, <1>5 DEF Session

LEMMA SignsIn ==
    ASSUME IInv, NEW r \in Requests, IssueTokens(r)
    PROVE  \E l \in Tokens : Contract!SignIn(l)
<1> USE DEF IInv, SessionInv
<1>1. PICK t \in Tokens :
        /\ ~Used(t)
        /\ owner' = [owner EXCEPT ![t] = who[r]]
        /\ origin' = [origin EXCEPT ![t] = t]
        /\ revoked' = revoked /\ who[r] # None
  BY DEF TypeOK, IssueTokens, Issue, Unused, Used, RequestInv
<1>2. origin[t] = None /\ t \notin revoked /\ \A x \in Tokens : origin[x] # t
  BY <1>1 DEF TypeOK, TokenInv, Used
<1>3. Session[t] = "none"
  BY <1>2 DEF Session
<1>4. origin'[t] = t /\ Live(t)'
  BY <1>1, <1>2 DEF TypeOK, Live, Used
<1>5. \A x \in Tokens : x # t => (Live(x)' <=> Live(x)) /\ origin'[x] = origin[x]
  BY <1>1 DEF TypeOK, Live
<1>6. \A l \in Tokens : l # t => Session'[l] = Session[l]
  BY <1>1, <1>2, <1>4, <1>5 DEF Session, Live, Used
<1>7. Session'[t] = "open"
  BY <1>4 DEF Session
<1>8. Session' = [Session EXCEPT ![t] = "open"]
  <2>1. DOMAIN Session = Tokens /\ Session' = [l \in Tokens |-> Session'[l]]
    BY DEF Session
  <2> QED
    BY <1>6, <1>7, <2>1
<1> QED
  BY <1>3, <1>8 DEF Contract!SignIn

LEMMA SignsOut ==
    ASSUME IInv, NEW r \in Requests, RevokeToken(r)
    PROVE  (\E l \in Tokens : Contract!SignOut(l)) \/ Session' = Session
<1> USE DEF IInv, SessionInv
<1> DEFINE s == sent[r].refresh
<1>1. s \in Tokens /\ Used(s)
  BY DEF TypeOK, Cookies, RevokeToken, RequestInv
<1>2. revoked' = revoked \cup {s} /\ s' = s /\ UNCHANGED <<owner, origin>>
  BY DEF RevokeToken, local
<1> HIDE DEF s
<1>3. CASE s \in revoked
  BY <1>2, <1>3, SameSession
<1>4. CASE s \notin revoked
  <2> DEFINE l == origin[s]
  <2>1. l \in Tokens /\ origin[l] = l /\ Live(s)
    BY <1>1, <1>4 DEF TokenInv, Live, Used
  <2>2. \A x \in Tokens : x # s => (Live(x)' <=> Live(x))
    BY <1>2 DEF Live
  <2>3. \A x \in Tokens : Live(x) /\ origin[x] = l => x = s
    BY <1>1, <2>1 DEF TokenInv, OneLiveToken
  <2>4. ~Live(s)'
    BY <1>2 DEF Live
  <2>5. Session[l] = "open" /\ Session'[l] = "closed"
    BY <1>1, <1>2, <2>1, <2>2, <2>3, <2>4 DEF Session
  <2>6. \A k \in Tokens : k # l => Session'[k] = Session[k]
    BY <1>1, <1>2, <2>2, <2>4 DEF Session
  <2>7. Session' = [Session EXCEPT ![l] = "closed"]
    BY <2>5, <2>6 DEF Session
  <2> QED
    BY <2>1, <2>5, <2>7 DEF Contract!SignOut
<1> QED
  BY <1>3, <1>4

LEMMA ContractInit == Init => Contract!Init
BY DEF Init, Session, Contract!Init

LEMMA ContractNext == IInv /\ [Next]_vars => [Contract!Next]_Session
<1> SUFFICES ASSUME IInv, [Next]_vars PROVE Contract!Next \/ Session' = Session
  OBVIOUS
<1>1. ASSUME NEW r \in Requests, CommitRotation(r) PROVE Session' = Session
  BY <1>1, RotationKeepsSession
<1>2. ASSUME NEW r \in Requests, IssueTokens(r) PROVE Contract!Next
  BY <1>2, SignsIn DEF Contract!Next
<1>3. ASSUME NEW r \in Requests, RevokeToken(r)
      PROVE  Contract!Next \/ Session' = Session
  BY <1>3, SignsOut DEF Contract!Next
<1>4. \/ \E r \in Requests : CommitRotation(r) \/ IssueTokens(r) \/ RevokeToken(r)
      \/ UNCHANGED <<owner, revoked, origin>>
  BY DEF Next, BeginCall, BeginRegister, BeginLogin, BeginLogout, Begin,
         LoadToken, RefreshFails, CallUpstream, Respond, Clear, LoseAnswer, FindEmail,
         InsertUser, Authenticate, LogoutFails, Wipe, AccessExpires,
         RefreshExpires, Deactivate, CookieExpires, vars, db
<1> QED
  BY <1>1, <1>2, <1>3, <1>4, SameSession

\* register_user, authenticate_user, rotate_refresh_token and
\* revoke_refresh_token, behind the proxy, implement the contract: a session
\* that was closed is never opened again.
THEOREM Implements == Spec => ImplementsContract
BY ContractInit, ContractNext, Invariance, PTL
DEF Spec, ImplementsContract, Contract!Spec

=============================================================================
