---------------------------- MODULE SessionsProofs ----------------------------
(***************************************************************************)
(* Sessions, for any number of requests and tabs and every bound: type     *)
(* correctness, that a refresh token gets one pair, that nobody is signed  *)
(* in unverified or locked out unearned, that a reset ends the old         *)
(* sessions but for those that ran while it did its writes or that an open *)
(* role question revives, and that a browser left alone stays signed in.   *)
(*                                                                         *)
(* The invariant says of every request what its place in the code gives    *)
(* it: a token taken is in no row and in nobody else's hands (OnceOnly),   *)
(* what was read of the account is not ahead of it (Guarded), and a        *)
(* request that overlaps a reset's two writes, or asks with an older       *)
(* access token, is marked (Ended).                                        *)
(***************************************************************************)
EXTENDS Sessions, TLAPS

\* What the browser stores, is sent and presents was issued; only a refresh
\* presents a token.
Presented ==
  /\ store \in (1..issued) \union {None, Cleared}
  /\ own \in [Tab -> (1..issued) \union {None, Cleared}]
  /\ mem \in [Tab -> (1..issued) \union {None}]
  /\ reply \in [Tab -> (1..issued) \union {None, Refused}]
  /\ \A w \in Worker :
       /\ req[w].token \in (1..issued) \union {None}
       /\ pc[w] \notin {"find", "revoke", "delete", "account", "issue"} => req[w].token = None

\* A request past its delete holds a token, which is gone and has no heir.
Holds(w, k) == pc[w] \in {"account", "issue"} /\ req[w].token = k
OnceOnly ==
  /\ RotatedOnce
  /\ \A k \in Token : k \in rows \/ k > issued => heirs[k] = 0
  /\ \A w \in Worker, k \in Token : Holds(w, k) =>
       /\ k \notin rows /\ heirs[k] = 0
       /\ \A v \in Worker : Holds(v, k) => v = w

\* An account with a token is verified and stays so; nobody counts more wrong
\* passwords than were typed.
SeesVerified(w) ==
  (\/ seen[w].verified \/ pc[w] \in {"unlock", "role", "roleWrite"}
   \/ pc[w] = "issue" /\ req[w].token = None)
    => verified
Guarded ==
  /\ issued > 0 => verified
  /\ \A w \in Worker : SeesVerified(w) /\ seen[w].failed <= guesses
  /\ failed <= guesses
  /\ LockIsEarned

\* A session of an old password, or a request that will open one, is marked;
\* between a reset's writes every other request is.
Behind(w) ==
  pc[w] \in {"delete", "account", "compare", "unlock", "roleWrite", "issue"} /\ seen[w].password < password
    => w \in brushed \/ req[w].token \in tainted
Brushes(w) ==
  pc[w] = "resetWrite" =>
    /\ rows \subseteq tainted
    /\ \A v \in Worker \ {w} : pc[v] # "idle" => v \in brushed
Asks(w) == pc[w] = "role" => req[w].password \in Nat /\ req[w].password <= password
Ended ==
  /\ OldSessionsEnd
  /\ \A w \in Worker : seen[w].password <= password /\ Behind(w) /\ Brushes(w) /\ Asks(w)
  /\ \A k \in Token : born[k] <= password

IInv == TypeOK /\ Presented /\ OnceOnly /\ Guarded /\ Ended

\* One request moves: it is now at a step, with a request and what it has seen.
Moves(w, step, r, s) ==
  /\ pc'[w] = step /\ req'[w] = r /\ seen'[w] = s
  /\ \A v \in Worker \ {w} : pc'[v] = pc[v] /\ req'[v] = req[v] /\ seen'[v] = seen[v]

Steps == {"idle", "find", "revoke", "delete", "account", "login", "compare",
          "unlock", "verify", "role", "roleWrite", "resetRevoke", "resetWrite", "logout", "issue"}
Redeeming == {"find", "revoke", "delete", "account"}

USE SessionsAssumption

-----------------------------------------------------------------------------
(* How a request moves *)

\* Begin, Continue and Answer move one request, and leave the others alone.
LEMMA Begun ==
  ASSUME ServerOK, NEW w \in Worker, NEW step, NEW r, Begin(w, step, r)
  PROVE  Moves(w, step, r, NothingSeen)
  BY DEF ServerOK, Begin, Moves

LEMMA Continued ==
  ASSUME ServerOK, NEW w \in Worker, NEW step, NEW s, Continue(w, step, s)
  PROVE  Moves(w, step, req[w], s)
  BY DEF ServerOK, Continue, Moves

LEMMA Answered ==
  ASSUME ServerOK, NEW w \in Worker, NEW a, Answer(w, a)
  PROVE  Moves(w, "idle", NoRequest, NothingSeen)
  BY DEF ServerOK, Answer, Moves

\* They keep the types of the requests, given a step and what goes with it.
LEMMA BegunTypes ==
  ASSUME ServerOK, NEW w \in Worker, NEW step \in Steps \ {"idle"}, NEW r \in Request,
         step \in Redeeming => r.token # None, Begin(w, step, r)
  PROVE  ServerOK'
  BY DEF ServerOK, Steps, Redeeming, Begin, Seen, NothingSeen

LEMMA ContinuedTypes ==
  ASSUME ServerOK, NEW w \in Worker, NEW step \in Steps \ {"idle"}, NEW s \in Seen,
         step \in Redeeming => pc[w] \in Redeeming, Continue(w, step, s)
  PROVE  ServerOK'
  BY DEF ServerOK, Steps, Redeeming, Continue

LEMMA AnsweredTypes ==
  ASSUME ServerOK, BrowserOK, NEW w \in Worker, NEW a \in Token \union {Refused}, Answer(w, a),
         UNCHANGED <<tabs, flight>>
  PROVE  ServerOK' /\ BrowserOK'
<1>1. ServerOK'
  BY DEF ServerOK, Answer, Request, NoRequest, Seen, NothingSeen
<1>2. BrowserOK'
  BY DEF ServerOK, BrowserOK, tabs, Answer, Request
<1> QED BY <1>1, <1>2

-----------------------------------------------------------------------------
(* Type correctness *)

\* The read of seen keeps its type when one field is replaced.
LEMMA SeenTypes ==
  ASSUME ServerOK, NEW w \in Worker, NEW p \in Nat
  PROVE  seen[w] \in Seen /\ [seen[w] EXCEPT !.password = p] \in Seen
  BY DEF ServerOK, Seen

\* What the storages and the tab's memory give a tab.
LEMMA HydratedTypes ==
  ASSUME BrowserOK, NEW t \in Tab
  PROVE  Hydrated(t) \in Token \union {None}
  BY DEF BrowserOK, Hydrated, Item

\* A set of a tab's state keeps the types.
LEMMA WriteTypes ==
  ASSUME BrowserOK, HistoryOK, NEW t \in Tab, NEW k \in Token \union {None},
         NEW remember \in BOOLEAN, Write(t, k, remember)
  PROVE  /\ store' \in Token \union {None, Cleared} /\ own' \in [Tab -> Token \union {None, Cleared}]
         /\ mem' \in [Tab -> Token \union {None}] /\ kept' \in [Tab -> BOOLEAN]
         /\ clobbered' \in BOOLEAN
<1>1. store' \in Token \union {None, Cleared} /\ own' \in [Tab -> Token \union {None, Cleared}]
  BY DEF Write, BrowserOK
<1>2. mem' \in [Tab -> Token \union {None}] /\ kept' \in [Tab -> BOOLEAN]
  BY DEF Write, BrowserOK
<1>3. clobbered' \in BOOLEAN
  BY DEF Write, HistoryOK
<1> QED BY <1>1, <1>2, <1>3

\* Every step keeps the types.
LEMMA TypesKept ==
  ASSUME IInv, Next  PROVE TypeOK'
<1>0. TypeOK
  BY DEF IInv
<1> USE <1>0 DEF TypeOK
<1>1. ASSUME NEW w \in Worker, RefreshFind(w)  PROVE TypeOK'
  <2>1. ServerOK'
    BY <1>1, ContinuedTypes, SeenTypes DEF RefreshFind, Steps, Redeeming, HistoryOK,
      ServerOK, Request
  <2>2. AccountOK' /\ TokensOK' /\ BrowserOK' /\ HistoryOK'
    BY <1>1 DEF RefreshFind, AccountOK, TokensOK, BrowserOK, HistoryOK, account, tokens,
      server, tabs, browser, bounds, history
  <2> QED BY <2>1, <2>2
<1>2. ASSUME NEW w \in Worker, RefreshRevoke(w)  PROVE TypeOK'
  <2>1. ServerOK' /\ BrowserOK'
    BY <1>2, AnsweredTypes DEF RefreshRevoke, Refuse
  <2>2. AccountOK' /\ TokensOK' /\ HistoryOK'
    BY <1>2 DEF RefreshRevoke, AccountOK, TokensOK, HistoryOK, account, tokens, server,
      tabs, browser, bounds, history, Refuse
  <2> QED BY <2>1, <2>2
<1>3. ASSUME NEW w \in Worker, RefreshDelete(w)  PROVE TypeOK'
  <2>1. ServerOK' /\ BrowserOK'
    BY <1>3, AnsweredTypes, ContinuedTypes, SeenTypes DEF RefreshDelete, Refuse, Steps,
      Redeeming, BrowserOK, tabs
  <2>2. AccountOK' /\ TokensOK' /\ HistoryOK'
    BY <1>3 DEF RefreshDelete, AccountOK, TokensOK, HistoryOK, account, tokens, server,
      tabs, browser, bounds, history, Refuse
  <2> QED BY <2>1, <2>2
<1>4. ASSUME NEW w \in Worker, RefreshAccount(w)  PROVE TypeOK'
  <2>1. ServerOK'
    BY <1>4, ContinuedTypes, SeenTypes DEF RefreshAccount, Steps, Redeeming
  <2>2. AccountOK' /\ TokensOK' /\ BrowserOK' /\ HistoryOK'
    BY <1>4 DEF RefreshAccount, AccountOK, TokensOK, BrowserOK, HistoryOK, account, tokens,
      server, tabs, browser, bounds, history
  <2> QED BY <2>1, <2>2
<1>5. ASSUME NEW w \in Worker, LoginRead(w)  PROVE TypeOK'
  <2>1. ServerOK' /\ BrowserOK'
    BY <1>5, AnsweredTypes, ContinuedTypes, SeenTypes DEF LoginRead, Refuse, Steps,
      Redeeming, BrowserOK, tabs, AccountOK, Seen
  <2>2. AccountOK' /\ TokensOK' /\ HistoryOK'
    BY <1>5 DEF LoginRead, AccountOK, TokensOK, HistoryOK, account, tokens, server, tabs, browser,
      bounds, history, Refuse
  <2> QED BY <2>1, <2>2
<1>6. ASSUME NEW w \in Worker, LoginWrong(w)  PROVE TypeOK'
  <2>1. ServerOK' /\ BrowserOK'
    BY <1>6, AnsweredTypes DEF LoginWrong, Refuse
  <2>2. seen[w].failed + 1 \in Nat
    BY DEF ServerOK, Seen
  <2>3. AccountOK'
    BY <1>6, <2>2 DEF LoginWrong, AccountOK
  <2>4. TokensOK' /\ HistoryOK'
    BY <1>6 DEF LoginWrong, Refuse, TokensOK, HistoryOK, tokens
  <2> QED BY <2>1, <2>2, <2>3, <2>4
<1>7. ASSUME NEW w \in Worker, LoginRight(w)  PROVE TypeOK'
  <2>1. ServerOK' /\ BrowserOK'
    BY <1>7, AnsweredTypes, ContinuedTypes, SeenTypes DEF LoginRight, Refuse, Steps,
      Redeeming, BrowserOK, tabs
  <2>2. AccountOK' /\ TokensOK' /\ HistoryOK'
    BY <1>7 DEF LoginRight, AccountOK, TokensOK, HistoryOK, account, tokens, server, tabs, browser,
      bounds, history, Refuse
  <2> QED BY <2>1, <2>2
<1>8. ASSUME NEW w \in Worker, LoginUnlock(w)  PROVE TypeOK'
  <2>1. ServerOK'
    BY <1>8, ContinuedTypes, SeenTypes DEF LoginUnlock, Steps, Redeeming
  <2>2. AccountOK' /\ TokensOK' /\ BrowserOK' /\ HistoryOK'
    BY <1>8 DEF LoginUnlock, AccountOK, TokensOK, BrowserOK, HistoryOK, account, tokens,
      server, tabs, browser, bounds, history
  <2> QED BY <2>1, <2>2
<1>9. ASSUME NEW w \in Worker, VerifyWrite(w)  PROVE TypeOK'
  <2>1. ServerOK'
    BY <1>9, ContinuedTypes, SeenTypes DEF VerifyWrite, Steps, Redeeming, AccountOK
  <2>2. AccountOK' /\ TokensOK' /\ BrowserOK' /\ HistoryOK'
    BY <1>9 DEF VerifyWrite, AccountOK, TokensOK, BrowserOK, HistoryOK, account, tokens,
      server, tabs, browser, bounds, history
  <2> QED BY <2>1, <2>2
<1>10. ASSUME NEW w \in Worker, ResetRevoke(w)  PROVE TypeOK'
  <2>1. ServerOK'
    BY <1>10, ContinuedTypes, SeenTypes DEF ResetRevoke, Steps, Redeeming
  <2>2. AccountOK' /\ TokensOK' /\ BrowserOK' /\ HistoryOK'
    BY <1>10 DEF ResetRevoke, AccountOK, TokensOK, BrowserOK, HistoryOK, account, tokens,
      server, tabs, browser, bounds, history, Busy
  <2> QED BY <2>1, <2>2
<1>11. ASSUME NEW w \in Worker, ResetWrite(w)  PROVE TypeOK'
  <2>1. ServerOK'
    BY <1>11, ContinuedTypes, SeenTypes DEF ResetWrite, Steps, Redeeming, AccountOK
  <2>2. password + 1 \in Nat
    BY DEF AccountOK
  <2>3. /\ password' = password + 1 /\ verified' = TRUE /\ failed' = 0 /\ locked' = FALSE
        /\ answered' = answered
    BY <1>11 DEF ResetWrite
  <2>4. AccountOK'
    BY <2>2, <2>3, Zenon DEF AccountOK
  <2>5. TokensOK' /\ BrowserOK' /\ HistoryOK'
    BY <1>11 DEF ResetWrite, TokensOK, BrowserOK, HistoryOK, tokens, tabs, browser, bounds, history
  <2> QED BY <2>1, <2>2, <2>3, <2>4, <2>5
<1>12. ASSUME NEW w \in Worker, Logout(w)  PROVE TypeOK'
  <2>1. ServerOK' /\ BrowserOK'
    BY <1>12, AnsweredTypes DEF Logout, Refuse
  <2>2. AccountOK' /\ TokensOK' /\ HistoryOK'
    BY <1>12 DEF Logout, AccountOK, TokensOK, HistoryOK, account, tokens, server, tabs, browser,
      bounds, history, Refuse
  <2> QED BY <2>1, <2>2
<1>13. ASSUME NEW w \in Worker, Issue(w)  PROVE TypeOK'
  <2>1. issued + 1 \in Token
    BY <1>13 DEF Issue, TokensOK, Token
  <2>2. ServerOK' /\ BrowserOK'
    BY <1>13, <2>1, AnsweredTypes DEF Issue
  <2>3. AccountOK' /\ TokensOK'
    BY <1>13 DEF Issue, AccountOK, TokensOK, account
  <2>4. seen[w].password \in Nat /\ (req[w].token # None => req[w].token \in Token)
    BY DEF ServerOK, Seen, Request
  <2>5. HistoryOK'
    BY <1>13, <2>1, <2>4 DEF Issue, HistoryOK, bounds
  <2> QED BY <2>1, <2>2, <2>3, <2>4, <2>5
<1>14. ASSUME NEW w \in Worker, Fail(w)  PROVE TypeOK'
  <2>1. ServerOK' /\ BrowserOK'
    BY <1>14, AnsweredTypes DEF Fail, Refuse
  <2>2. AccountOK' /\ TokensOK' /\ HistoryOK'
    BY <1>14 DEF Fail, AccountOK, TokensOK, HistoryOK, account, tokens, server, tabs, browser,
      bounds, history, Refuse
  <2> QED BY <2>1, <2>2
<1>15. ASSUME NEW w \in Worker, ResetElsewhere(w)  PROVE TypeOK'
  <2>1. NoRequest \in Request
    BY DEF NoRequest, Request
  <2>2. ServerOK'
    BY <1>15, <2>1, BegunTypes DEF ResetElsewhere, Steps, Redeeming
  <2>3. AccountOK' /\ TokensOK' /\ BrowserOK' /\ HistoryOK'
    BY <1>15 DEF ResetElsewhere, AccountOK, TokensOK, BrowserOK, HistoryOK, account, tokens,
      server, tabs, browser, bounds, history, Begin
  <2> QED BY <2>1, <2>2, <2>3
<1>16. ASSUME NEW w \in Worker, LogoutElsewhere(w)  PROVE TypeOK'
  <2>1. NoRequest \in Request
    BY DEF NoRequest, Request
  <2>2. ServerOK'
    BY <1>16, <2>1, BegunTypes DEF LogoutElsewhere, Steps, Redeeming
  <2>3. AccountOK' /\ TokensOK' /\ BrowserOK' /\ HistoryOK'
    BY <1>16 DEF LogoutElsewhere, AccountOK, TokensOK, BrowserOK, HistoryOK, account, tokens,
      server, tabs, browser, bounds, history, Begin
  <2> QED BY <2>1, <2>2, <2>3
<1>17. ASSUME NEW t \in Tab, NEW w \in Worker, AskRefresh(t, w)  PROVE TypeOK'
  <2> DEFINE k == Hydrated(t)
  <2>1. k \in Token
    BY <1>17, HydratedTypes DEF AskRefresh, Stored
  <2>2. /\ Begin(w, "find", [by |-> t, token |-> k, password |-> None])
        /\ flight' = [flight EXCEPT ![t] = "refresh"]
        /\ mem' = [mem EXCEPT ![t] = k]
        /\ kept' = [kept EXCEPT ![t] = IF Item(t) = None THEN kept[t] ELSE store # None]
        /\ raced' \in BOOLEAN
        /\ UNCHANGED <<account, tokens, store, own, reply, bounds, heirs, born, tainted, signedIn, clobbered>>
    BY <1>17 DEF AskRefresh, Stored, HistoryOK
  <2> HIDE DEF k
  <2>3. [by |-> t, token |-> k, password |-> None] \in Request
        /\ [by |-> t, token |-> k, password |-> None].token # None
    BY <2>1 DEF Request, Token
  <2>4. ServerOK'
    BY <2>2, <2>3, BegunTypes DEF Steps, Redeeming
  <2>5. BrowserOK'
    BY <2>1, <2>2 DEF BrowserOK
  <2>6. AccountOK' /\ TokensOK' /\ HistoryOK'
    BY <2>2 DEF AccountOK, TokensOK, HistoryOK, account, tokens, bounds, Begin
  <2> QED BY <2>4, <2>5, <2>6
<1>18. ASSUME NEW t \in Tab, NEW w \in Worker, AskVerify(t, w)  PROVE TypeOK'
  <2>1. [by |-> t, token |-> None, password |-> None] \in Request
    BY <1>18 DEF AskVerify, Request, BrowserOK
  <2>2. ServerOK'
    BY <1>18, <2>1, BegunTypes DEF AskVerify, Steps, Redeeming
  <2>3. AccountOK' /\ TokensOK' /\ BrowserOK' /\ HistoryOK'
    BY <1>18 DEF AskVerify, AccountOK, TokensOK, BrowserOK, HistoryOK, account, tokens,
      server, tabs, browser, bounds, history, Begin
  <2> QED BY <2>1, <2>2, <2>3
<1>19. ASSUME NEW t \in Tab, NEW w \in Worker, NEW right \in BOOLEAN,
  NEW how \in {"remember", "once"}, AskLogin(t, w, right, how)  PROVE TypeOK'
  <2>1. [by |-> t, token |-> None, password |-> IF right THEN password ELSE 0] \in Request
    BY DEF Request, AccountOK
  <2>2. ServerOK'
    BY <1>19, <2>1, BegunTypes DEF AskLogin, Steps, Redeeming
  <2>3. AccountOK' /\ TokensOK' /\ BrowserOK' /\ HistoryOK'
    BY <1>19 DEF AskLogin, AccountOK, TokensOK, BrowserOK, HistoryOK, account, tokens,
      server, tabs, browser, bounds, history, Begin
  <2> QED BY <2>1, <2>2, <2>3
<1>20. ASSUME NEW t \in Tab, Receive(t)  PROVE TypeOK'
  <2>1. \/ \E k \in Token \union {None}, remember \in BOOLEAN : Write(t, k, remember)
        \/ UNCHANGED <<tabs, clobbered>>
    <3>1. (flight[t] = "remember" \/ (kept[t] /\ flight[t] # "once")) \in BOOLEAN /\ kept[t] \in BOOLEAN
      BY DEF BrowserOK
    <3> QED BY <1>20, <3>1 DEF Receive
  <2>2. /\ store' \in Token \union {None, Cleared} /\ own' \in [Tab -> Token \union {None, Cleared}]
        /\ mem' \in [Tab -> Token \union {None}] /\ kept' \in [Tab -> BOOLEAN]
        /\ clobbered' \in BOOLEAN
    BY <2>1, WriteTypes DEF BrowserOK, HistoryOK, tabs
  <2>3. BrowserOK'
    BY <1>20, <2>2 DEF Receive, BrowserOK
  <2>4. AccountOK' /\ TokensOK' /\ ServerOK' /\ HistoryOK'
    BY <1>20, <2>2 DEF Receive, AccountOK, TokensOK, ServerOK, HistoryOK, account, tokens, server,
      bounds
  <2> QED BY <2>3, <2>4
<1>21. ASSUME NEW t \in Tab, Rehydrate(t)  PROVE TypeOK'
  <2>1. BrowserOK'
    BY <1>21, HydratedTypes DEF Rehydrate, BrowserOK
  <2> QED BY <1>21, <2>1 DEF Rehydrate, AccountOK, TokensOK, ServerOK, HistoryOK, account, tokens,
    server, bounds, history
<1>22. ASSUME NEW t \in Tab, SignOut(t)  PROVE TypeOK'
  <2>1. Write(t, None, TRUE) /\ UNCHANGED <<flight, reply>>
    BY <1>22 DEF SignOut
  <2>2. /\ store' \in Token \union {None, Cleared} /\ own' \in [Tab -> Token \union {None, Cleared}]
        /\ mem' \in [Tab -> Token \union {None}] /\ kept' \in [Tab -> BOOLEAN]
        /\ clobbered' \in BOOLEAN
    <3>1. None \in Token \union {None} /\ TRUE \in BOOLEAN
      OBVIOUS
    <3> QED BY <2>1, <3>1, WriteTypes
  <2>3. BrowserOK'
    BY <2>1, <2>2 DEF BrowserOK
  <2> QED BY <1>22, <2>2, <2>3 DEF SignOut, AccountOK, TokensOK, ServerOK, HistoryOK, account, tokens,
    server
<1>23. ASSUME NEW t \in Tab, LoseReply(t)  PROVE TypeOK'
  BY <1>23 DEF LoseReply, AccountOK, TokensOK, ServerOK, BrowserOK, HistoryOK, account,
    tokens, server, tabs, browser, bounds, history
<1>24. ASSUME LockElapses  PROVE TypeOK'
  BY <1>24 DEF LockElapses, AccountOK, TokensOK, ServerOK, BrowserOK, HistoryOK, account,
    tokens, server, tabs, browser, bounds, history
<1>25. ASSUME UNCHANGED vars  PROVE TypeOK'
  BY <1>25 DEF vars, AccountOK, TokensOK, ServerOK, BrowserOK, HistoryOK, account, tokens,
    server, tabs, browser, bounds, history
<1>26. ASSUME NEW w \in Worker, RoleRead(w)  PROVE TypeOK'
  <2>1. CASE answered
    <3>1. ServerOK' /\ BrowserOK'
      BY <1>26, <2>1, AnsweredTypes DEF RoleRead, Refuse
    <3> QED BY <1>26, <2>1, <3>1 DEF RoleRead, Refuse, AccountOK, TokensOK, HistoryOK, account, tokens,
      bounds
  <2>2. CASE ~answered
    <3>1. pc[w] = "role" /\ req[w].password \in Nat
      BY <1>26 DEF RoleRead, IInv, Ended, Asks
    <3>2. ServerOK'
      BY <1>26, <2>2, <3>1, ContinuedTypes, SeenTypes DEF RoleRead, Steps, Redeeming
    <3> QED BY <1>26, <2>2, <3>2 DEF RoleRead, AccountOK, TokensOK, BrowserOK, HistoryOK, account,
      tokens, tabs, bounds
  <2> QED BY <2>1, <2>2
<1>27. ASSUME NEW w \in Worker, RoleWrite(w)  PROVE TypeOK'
  <2>1. ServerOK'
    BY <1>27, ContinuedTypes, SeenTypes DEF RoleWrite, Steps, Redeeming
  <2> QED BY <1>27, <2>1 DEF RoleWrite, AccountOK, TokensOK, BrowserOK, HistoryOK, tokens, tabs,
    browser, bounds, history
<1>28. ASSUME NEW t \in Tab, NEW w \in Worker, AskRole(t, w)  PROVE TypeOK'
  <2>1. [by |-> t, token |-> None, password |-> born[mem[t]]] \in Request
    BY <1>28 DEF AskRole, Request, BrowserOK, HistoryOK
  <2>2. ServerOK'
    BY <1>28, <2>1, BegunTypes DEF AskRole, Steps, Redeeming
  <2> QED BY <1>28, <2>2 DEF AskRole, Begin, AccountOK, TokensOK, BrowserOK, HistoryOK, account,
    tokens, tabs, bounds
<1>29. ASSUME NEW t \in Tab, SetUser(t)  PROVE TypeOK'
  <2>1. /\ mem[t] \in Token \union {None} /\ kept[t] \in BOOLEAN
        /\ Write(t, mem[t], kept[t]) /\ UNCHANGED <<flight, reply>>
    BY <1>29 DEF SetUser, BrowserOK
  <2>2. /\ store' \in Token \union {None, Cleared} /\ own' \in [Tab -> Token \union {None, Cleared}]
        /\ mem' \in [Tab -> Token \union {None}] /\ kept' \in [Tab -> BOOLEAN]
        /\ clobbered' \in BOOLEAN
    BY <2>1, WriteTypes
  <2>3. BrowserOK'
    BY <2>1, <2>2 DEF BrowserOK
  <2> QED BY <1>29, <2>2, <2>3 DEF SetUser, AccountOK, TokensOK, ServerOK, HistoryOK, account, tokens,
    server, bounds
<1> QED
  BY <1>1, <1>2, <1>3, <1>4, <1>5, <1>6, <1>7, <1>8, <1>9, <1>10, <1>11, <1>12, <1>13, <1>14,
    <1>15, <1>16, <1>17, <1>18, <1>19, <1>20, <1>21, <1>22, <1>23, <1>24, <1>25, <1>26,
    <1>27, <1>28, <1>29 DEF Next, Proceed, RefreshInvalid

-----------------------------------------------------------------------------
(* Tokens *)

\* A step that issues nothing and stores nothing new.
LEMMA PresentedQuiet ==
  ASSUME Presented, NEW w \in Worker, NEW step, NEW r, NEW s, Moves(w, step, r, s),
         r.token \in (1..issued) \union {None} \/ r = req[w],
         step \in {"find", "revoke", "delete", "account", "issue"} \/ r.token = None,
         UNCHANGED <<issued, store, own, mem>>, reply' \in [Tab -> (1..issued) \union {None, Refused}]
  PROVE  Presented'
  BY DEF Presented, Moves

\* No action but two gives a token to a request that did not hold it.
LEMMA OnceQuiet ==
  ASSUME OnceOnly, NEW w \in Worker, NEW step, NEW r, NEW s, Moves(w, step, r, s),
         step \in {"account", "issue"} /\ r.token # None =>
           pc[w] \in {"account", "issue"} /\ r.token = req[w].token,
         rows' \subseteq rows, UNCHANGED <<issued, heirs>>
  PROVE  OnceOnly'
<1>1. \A v \in Worker, k \in Token : Holds(v, k)' => Holds(v, k)
  BY DEF Moves, Holds, Token
<1> QED BY <1>1 DEF OnceOnly, RotatedOnce

\* A step that issues nothing: the account may gain, and what w has seen holds.
LEMMA GuardedQuiet ==
  ASSUME Guarded, TypeOK, NEW w \in Worker, NEW step, NEW r, NEW s, Moves(w, step, r, s),
         verified => verified', issued' = issued, guesses' \in Nat, guesses <= guesses',
         failed' <= guesses', locked' => guesses' >= MaxFailed, s.failed <= guesses',
         (\/ s.verified \/ step \in {"unlock", "role", "roleWrite"}
          \/ step = "issue" /\ r.token = None) => verified'
  PROVE  Guarded'
<1>1. \A v \in Worker : SeesVerified(v)'
  BY DEF Moves, Guarded, SeesVerified
<1>2. \A v \in Worker : seen'[v].failed <= guesses'
  <2>1. \A v \in Worker : seen[v].failed \in Nat /\ guesses \in Nat
    BY DEF TypeOK, ServerOK, HistoryOK, Seen
  <2> QED BY <2>1 DEF Moves, Guarded
<1> QED BY <1>1, <1>2 DEF Guarded, LockIsEarned

\* A step that opens no session and sets no password.
LEMMA EndedQuiet ==
  ASSUME Ended, NEW w \in Worker, NEW step, NEW r, NEW s, Moves(w, step, r, s),
         UNCHANGED <<password, born, tainted>>, rows' \subseteq rows,
           brushed \ {w} \subseteq brushed',
         s.password <= password,
         step = "role" => r.password \in Nat /\ r.password <= password,
         step \in {"delete", "account", "compare", "unlock", "roleWrite", "issue"} /\ s.password < password
           => w \in brushed' \/ r.token \in tainted,
         step = "resetWrite" =>
           rows' = {} /\ \A v \in Worker \ {w} : pc[v] # "idle" => v \in brushed',
         step # "idle" /\ (\E u \in Worker \ {w} : pc[u] = "resetWrite") => w \in brushed'
  PROVE  Ended'
<1>1. OldSessionsEnd'
  BY DEF Ended, OldSessionsEnd
<1>2. \A v \in Worker : seen'[v].password <= password' /\ Behind(v)' /\ Asks(v)'
  BY DEF Ended, Behind, Asks, Moves
<1>3. \A v \in Worker : Brushes(v)'
  BY DEF Ended, Brushes, Moves
<1>4. \A k \in Token : born'[k] <= password'
  BY DEF Ended
<1> QED BY <1>1, <1>2, <1>3, <1>4 DEF Ended

\* What a tab reads, and what it writes, was issued.
LEMMA HydratedPresented ==
  ASSUME Presented, NEW t \in Tab
  PROVE  Hydrated(t) \in (1..issued) \union {None}
  BY DEF Presented, Hydrated, Item

LEMMA WritePresented ==
  ASSUME Presented, NEW t \in Tab, NEW k \in (1..issued) \union {None}, NEW remember,
         Write(t, k, remember), UNCHANGED <<issued, pc, req>>,
         reply' \in [Tab -> (1..issued) \union {None, Refused}]
  PROVE  Presented'
<1>1. /\ store' \in (1..issued) \union {None, Cleared}
      /\ own' \in [Tab -> (1..issued) \union {None, Cleared}]
      /\ mem' \in [Tab -> (1..issued) \union {None}]
  BY DEF Presented, Write
<1> QED BY <1>1 DEF Presented

\* Every step presents, sends and stores what was issued.
LEMMA PresentedKept ==
  ASSUME IInv, Next  PROVE Presented'
<1>1. ASSUME NEW w \in Worker, RefreshFind(w)  PROVE Presented'
  BY <1>1, Continued, PresentedQuiet DEF RefreshFind, Presented, NoRequest, IInv, TypeOK,
    account, tokens, server, tabs, browser, bounds, history
<1>2. ASSUME NEW w \in Worker, RefreshRevoke(w)  PROVE Presented'
  <2>1. reply' \in [Tab -> (1..issued) \union {None, Refused}]
    BY <1>2 DEF RefreshRevoke, Refuse, Answer, Continue, IInv, Presented, TypeOK, ServerOK,
      Request, account, tokens, server, tabs, browser, bounds, history
  <2> QED BY <1>2, <2>1, Answered, PresentedQuiet DEF RefreshRevoke, Refuse, NoRequest, IInv,
    Presented, TypeOK, account, tokens, server, tabs, browser, bounds, history
<1>3. ASSUME NEW w \in Worker, RefreshDelete(w)  PROVE Presented'
  <2>1. reply' \in [Tab -> (1..issued) \union {None, Refused}]
    BY <1>3 DEF RefreshDelete, Refuse, Answer, Continue, IInv, Presented, TypeOK, ServerOK,
      Request, account, tokens, server, tabs, browser, bounds, history
  <2> QED BY <1>3, <2>1, Answered, Continued, PresentedQuiet DEF RefreshDelete, Refuse,
    NoRequest, IInv, Presented, TypeOK, account, tokens, server, tabs, browser, bounds, history
<1>4. ASSUME NEW w \in Worker, RefreshAccount(w)  PROVE Presented'
  BY <1>4, Continued, PresentedQuiet DEF RefreshAccount, Presented, NoRequest, IInv, TypeOK,
    account, tokens, server, tabs, browser, bounds, history
<1>5. ASSUME NEW w \in Worker, LoginRead(w)  PROVE Presented'
  <2>1. reply' \in [Tab -> (1..issued) \union {None, Refused}]
    BY <1>5 DEF LoginRead, Refuse, Answer, Continue, IInv, Presented, TypeOK, ServerOK,
      Request, account, tokens, server, tabs, browser, bounds, history
  <2> QED BY <1>5, <2>1, Answered, Continued, PresentedQuiet DEF LoginRead, Refuse,
    NoRequest, IInv, Presented, TypeOK, account, tokens, server, tabs, browser, bounds, history
<1>6. ASSUME NEW w \in Worker, LoginWrong(w)  PROVE Presented'
  <2>1. reply' \in [Tab -> (1..issued) \union {None, Refused}]
    BY <1>6 DEF LoginWrong, Refuse, Answer, Continue, IInv, Presented, TypeOK, ServerOK,
      Request, account, tokens, server, tabs, browser, bounds, history
  <2> QED BY <1>6, <2>1, Answered, PresentedQuiet DEF LoginWrong, Refuse, NoRequest, IInv,
    Presented, TypeOK, account, tokens, server, tabs, browser, bounds, history
<1>7. ASSUME NEW w \in Worker, LoginRight(w)  PROVE Presented'
  <2>1. reply' \in [Tab -> (1..issued) \union {None, Refused}]
    BY <1>7 DEF LoginRight, Refuse, Answer, Continue, IInv, Presented, TypeOK, ServerOK,
      Request, account, tokens, server, tabs, browser, bounds, history
  <2> QED BY <1>7, <2>1, Answered, Continued, PresentedQuiet DEF LoginRight, Refuse,
    NoRequest, IInv, Presented, TypeOK, account, tokens, server, tabs, browser, bounds, history
<1>8. ASSUME NEW w \in Worker, LoginUnlock(w)  PROVE Presented'
  BY <1>8, Continued, PresentedQuiet DEF LoginUnlock, Presented, NoRequest, IInv, TypeOK,
    account, tokens, server, tabs, browser, bounds, history
<1>9. ASSUME NEW w \in Worker, VerifyWrite(w)  PROVE Presented'
  BY <1>9, Continued, PresentedQuiet DEF VerifyWrite, Presented, NoRequest, IInv, TypeOK,
    account, tokens, server, tabs, browser, bounds, history
<1>10. ASSUME NEW w \in Worker, ResetRevoke(w)  PROVE Presented'
  BY <1>10, Continued, PresentedQuiet DEF ResetRevoke, Presented, NoRequest, IInv, TypeOK,
    account, tokens, server, tabs, browser, bounds, history
<1>11. ASSUME NEW w \in Worker, ResetWrite(w)  PROVE Presented'
  BY <1>11, Continued, PresentedQuiet DEF ResetWrite, Presented, NoRequest, IInv, TypeOK,
    account, tokens, server, tabs, browser, bounds, history
<1>12. ASSUME NEW w \in Worker, Logout(w)  PROVE Presented'
  <2>1. reply' \in [Tab -> (1..issued) \union {None, Refused}]
    BY <1>12 DEF Logout, Refuse, Answer, Continue, IInv, Presented, TypeOK, ServerOK,
      Request, account, tokens, server, tabs, browser, bounds, history
  <2> QED BY <1>12, <2>1, Answered, PresentedQuiet DEF Logout, Refuse, NoRequest, IInv,
    Presented, TypeOK, account, tokens, server, tabs, browser, bounds, history
<1>13. ASSUME NEW w \in Worker, Issue(w)  PROVE Presented'
  <2>1. issued' = issued + 1 /\ UNCHANGED <<store, own, mem>> /\ issued \in Nat
    BY <1>13 DEF Issue, tabs, IInv, TypeOK, TokensOK
  <2>2. Moves(w, "idle", NoRequest, NothingSeen)
    BY <1>13, Answered DEF Issue, IInv, TypeOK
  <2>3. \A v \in Worker : req'[v].token \in (1..issued') \union {None} /\
    (pc'[v] \notin {"find", "revoke", "delete", "account", "issue"} => req'[v].token = None)
    BY <2>1, <2>2 DEF Moves, NoRequest, IInv, Presented
  <2>4. reply' \in [Tab -> (1..issued') \union {None, Refused}]
    BY <1>13, <2>1 DEF Issue, Answer, IInv, Presented, TypeOK, ServerOK, Request
  <2> QED BY <2>1, <2>3, <2>4 DEF IInv, Presented
<1>14. ASSUME NEW w \in Worker, Fail(w)  PROVE Presented'
  <2>1. reply' \in [Tab -> (1..issued) \union {None, Refused}]
    BY <1>14 DEF Fail, Refuse, Answer, Continue, IInv, Presented, TypeOK, ServerOK, Request,
      account, tokens, server, tabs, browser, bounds, history
  <2> QED BY <1>14, <2>1, Answered, PresentedQuiet DEF Fail, Refuse, NoRequest, IInv,
    Presented, TypeOK, account, tokens, server, tabs, browser, bounds, history
<1>15. ASSUME NEW w \in Worker, ResetElsewhere(w)  PROVE Presented'
  BY <1>15, Begun, PresentedQuiet DEF ResetElsewhere, Presented, NoRequest, IInv, TypeOK,
    account, tokens, server, tabs, browser, bounds, history
<1>16. ASSUME NEW w \in Worker, LogoutElsewhere(w)  PROVE Presented'
  BY <1>16, Begun, PresentedQuiet DEF LogoutElsewhere, Presented, NoRequest, IInv, TypeOK,
    account, tokens, server, tabs, browser, bounds, history
<1>17. ASSUME NEW t \in Tab, NEW w \in Worker, AskRefresh(t, w)  PROVE Presented'
  <2> DEFINE k == Hydrated(t)
  <2>1. k \in (1..issued) \union {None}
    BY HydratedPresented DEF IInv
  <2>2. /\ Begin(w, "find", [by |-> t, token |-> k, password |-> None])
        /\ mem' = [mem EXCEPT ![t] = k] /\ UNCHANGED <<issued, store, own, reply>>
    BY <1>17 DEF AskRefresh, Stored, tokens
  <2> HIDE DEF k
  <2>3. Moves(w, "find", [by |-> t, token |-> k, password |-> None], NothingSeen)
    BY <2>2, Begun DEF IInv, TypeOK
  <2>4. mem' \in [Tab -> (1..issued') \union {None}]
    BY <2>1, <2>2 DEF IInv, Presented
  <2>5. \A v \in Worker : req'[v].token \in (1..issued') \union {None} /\
    (pc'[v] \notin {"find", "revoke", "delete", "account", "issue"} => req'[v].token = None)
    BY <2>1, <2>2, <2>3 DEF Moves, IInv, Presented
  <2> QED BY <2>2, <2>4, <2>5 DEF IInv, Presented
<1>18. ASSUME NEW t \in Tab, NEW w \in Worker, AskVerify(t, w)  PROVE Presented'
  BY <1>18, Begun, PresentedQuiet DEF AskVerify, Presented, NoRequest, IInv, TypeOK, account,
    tokens, server, tabs, browser, bounds, history
<1>19. ASSUME NEW t \in Tab, NEW w \in Worker, NEW right \in BOOLEAN,
  NEW how \in {"remember", "once"}, AskLogin(t, w, right, how)  PROVE Presented'
  BY <1>19, Begun, PresentedQuiet DEF AskLogin, Presented, NoRequest, IInv, TypeOK, account,
    tokens, server, tabs, browser, bounds, history
<1>20. ASSUME NEW t \in Tab, Receive(t)  PROVE Presented'
  <2>1. UNCHANGED <<issued, pc, req>> /\ reply' \in [Tab -> (1..issued) \union {None, Refused}]
    BY <1>20 DEF Receive, tokens, server, IInv, Presented
  <2>2. reply[t] \in Token => reply[t] \in (1..issued) \union {None}
    BY DEF IInv, Presented, Token
  <2>3. \/ \E k \in (1..issued) \union {None} : \E remember : Write(t, k, remember)
        \/ UNCHANGED tabs
    BY <1>20, <2>2 DEF Receive
  <2>4. CASE UNCHANGED tabs
    BY <2>1, <2>4 DEF tabs, IInv, Presented
  <2> QED BY <2>1, <2>3, <2>4, WritePresented DEF IInv
<1>21. ASSUME NEW t \in Tab, Rehydrate(t)  PROVE Presented'
  <2>1. Hydrated(t) \in (1..issued) \union {None}
    BY HydratedPresented DEF IInv
  <2> QED BY <1>21, <2>1 DEF IInv, Presented, Rehydrate, tokens, server
<1>22. ASSUME NEW t \in Tab, SignOut(t)  PROVE Presented'
  BY <1>22, WritePresented DEF SignOut, tokens, server, IInv, Presented
<1>23. ASSUME NEW t \in Tab, LoseReply(t)  PROVE Presented'
  BY <1>23 DEF IInv, Presented, LoseReply, account, tokens, server, tabs, browser, bounds, history
<1>24. ASSUME LockElapses  PROVE Presented'
  BY <1>24 DEF IInv, Presented, LockElapses, account, tokens, server, tabs, browser, bounds, history
<1>25. ASSUME UNCHANGED vars  PROVE Presented'
  BY <1>25 DEF IInv, Presented, vars, account, tokens, server, tabs, browser, bounds, history
<1>26. ASSUME NEW w \in Worker, RoleRead(w)  PROVE Presented'
  <2>1. reply' \in [Tab -> (1..issued) \union {None, Refused}]
    BY <1>26 DEF RoleRead, Refuse, Answer, IInv, Presented, TypeOK, ServerOK, Request
  <2> QED BY <1>26, <2>1, Answered, Continued, PresentedQuiet DEF RoleRead, Refuse, NoRequest, IInv,
    Presented, TypeOK, tokens, tabs
<1>27. ASSUME NEW w \in Worker, RoleWrite(w)  PROVE Presented'
  BY <1>27, Continued, PresentedQuiet DEF RoleWrite, Presented, NoRequest, IInv, TypeOK,
    tokens, tabs, browser
<1>28. ASSUME NEW t \in Tab, NEW w \in Worker, AskRole(t, w)  PROVE Presented'
  BY <1>28, Begun, PresentedQuiet DEF AskRole, Presented, NoRequest, IInv, TypeOK, tokens, tabs
<1>29. ASSUME NEW t \in Tab, SetUser(t)  PROVE Presented'
  <2>1. mem[t] \in (1..issued) \union {None} /\ reply' \in [Tab -> (1..issued) \union {None, Refused}]
    BY <1>29 DEF SetUser, IInv, Presented
  <2> QED BY <1>29, <2>1, WritePresented DEF SetUser, tokens, server, IInv
<1> QED
  BY <1>1, <1>2, <1>3, <1>4, <1>5, <1>6, <1>7, <1>8, <1>9, <1>10, <1>11, <1>12, <1>13, <1>14,
    <1>15, <1>16, <1>17, <1>18, <1>19, <1>20, <1>21, <1>22, <1>23, <1>24, <1>25, <1>26,
    <1>27, <1>28, <1>29 DEF Next, Proceed, RefreshInvalid

\* Only the request whose delete removed the row holds a token, and issuing for
\* it gives it its one heir.
LEMMA OnceOnlyKept ==
  ASSUME IInv, Next  PROVE OnceOnly'
<1>1. ASSUME NEW w \in Worker, RefreshFind(w)  PROVE OnceOnly'
  BY <1>1, Continued, OnceQuiet DEF RefreshFind, NoRequest, IInv, Presented, TypeOK, account,
    tokens, server, tabs, browser, bounds, history
<1>2. ASSUME NEW w \in Worker, RefreshRevoke(w)  PROVE OnceOnly'
  BY <1>2, Answered, OnceQuiet DEF RefreshRevoke, Refuse, NoRequest, IInv, Presented, TypeOK,
    account, tokens, server, tabs, browser, bounds, history
<1>3. ASSUME NEW w \in Worker, RefreshDelete(w)  PROVE OnceOnly'
  <2>1. CASE req[w].token \notin rows
    BY <1>3, <2>1, Answered, OnceQuiet DEF RefreshDelete, Refuse, NoRequest, IInv, TypeOK
  <2>2. CASE req[w].token \in rows
    <3>1. Moves(w, "account", req[w], seen[w])
      BY <1>3, <2>2, Continued DEF RefreshDelete, IInv, TypeOK
    <3>2. \A v \in Worker, k \in Token : Holds(v, k)' =>
      Holds(v, k) \/ (v = w /\ k = req[w].token)
      BY <3>1 DEF Moves, Holds
    <3>3. req[w].token \in Token
      <4>1. req[w].token \in 1..issued
        BY <2>2 DEF IInv, TypeOK, TokensOK
      <4>2. issued \in 0..MaxIssue
        BY DEF IInv, TypeOK, TokensOK
      <4> QED BY <4>1, <4>2 DEF Token
    <3>4. rows' = rows \ {req[w].token} /\ issued' = issued /\ heirs' = heirs
      BY <1>3 DEF RefreshDelete
    <3>5. \A v \in Worker : ~Holds(v, req[w].token)
      BY <2>2, <3>3 DEF IInv, OnceOnly
    <3> QED BY <2>2, <3>2, <3>3, <3>4, <3>5 DEF IInv, OnceOnly, RotatedOnce
  <2> QED BY <2>1, <2>2
<1>4. ASSUME NEW w \in Worker, RefreshAccount(w)  PROVE OnceOnly'
  BY <1>4, Continued, OnceQuiet DEF RefreshAccount, NoRequest, IInv, Presented, TypeOK,
    account, tokens, server, tabs, browser, bounds, history
<1>5. ASSUME NEW w \in Worker, LoginRead(w)  PROVE OnceOnly'
  BY <1>5, Answered, Continued, OnceQuiet DEF LoginRead, Refuse, NoRequest, IInv, Presented,
    TypeOK, account, tokens, server, tabs, browser, bounds, history
<1>6. ASSUME NEW w \in Worker, LoginWrong(w)  PROVE OnceOnly'
  BY <1>6, Answered, OnceQuiet DEF LoginWrong, Refuse, NoRequest, IInv, Presented, TypeOK,
    account, tokens, server, tabs, browser, bounds, history
<1>7. ASSUME NEW w \in Worker, LoginRight(w)  PROVE OnceOnly'
  BY <1>7, Answered, Continued, OnceQuiet DEF LoginRight, Refuse, NoRequest, IInv, Presented,
    TypeOK, account, tokens, server, tabs, browser, bounds, history
<1>8. ASSUME NEW w \in Worker, LoginUnlock(w)  PROVE OnceOnly'
  BY <1>8, Continued, OnceQuiet DEF LoginUnlock, NoRequest, IInv, Presented, TypeOK, account,
    tokens, server, tabs, browser, bounds, history
<1>9. ASSUME NEW w \in Worker, VerifyWrite(w)  PROVE OnceOnly'
  BY <1>9, Continued, OnceQuiet DEF VerifyWrite, NoRequest, IInv, Presented, TypeOK, account,
    tokens, server, tabs, browser, bounds, history
<1>10. ASSUME NEW w \in Worker, ResetRevoke(w)  PROVE OnceOnly'
  BY <1>10, Continued, OnceQuiet DEF ResetRevoke, NoRequest, IInv, Presented, TypeOK,
    account, tokens, server, tabs, browser, bounds, history
<1>11. ASSUME NEW w \in Worker, ResetWrite(w)  PROVE OnceOnly'
  BY <1>11, Continued, OnceQuiet DEF ResetWrite, NoRequest, IInv, Presented, TypeOK, account,
    tokens, server, tabs, browser, bounds, history
<1>12. ASSUME NEW w \in Worker, Logout(w)  PROVE OnceOnly'
  BY <1>12, Answered, OnceQuiet DEF Logout, Refuse, NoRequest, IInv, Presented, TypeOK,
    account, tokens, server, tabs, browser, bounds, history
<1>13. ASSUME NEW w \in Worker, Issue(w)  PROVE OnceOnly'
  <2>1. Moves(w, "idle", NoRequest, NothingSeen)
    BY <1>13, Answered DEF Issue, IInv, TypeOK
  <2>2. \A v \in Worker, k \in Token : Holds(v, k)' => Holds(v, k) /\ v # w
    BY <2>1 DEF Moves, Holds, NoRequest
  <2>3. issued \in Nat /\ issued + 1 \in Token /\ rows \subseteq 1..issued /\
    heirs \in [Token -> Nat]
    BY <1>13 DEF Issue, Token, IInv, TypeOK, TokensOK, HistoryOK
  <2>4. req[w].token \in (1..issued) \union {None} /\ \A k \in Token : req[w].token = k =>
    Holds(w, k)
    BY <1>13 DEF Issue, Holds, IInv, Presented
  <2>5. \A v \in Worker : req[v].token \in (1..issued) \union {None}
    BY DEF IInv, Presented
  <2>6. rows' = rows \union {issued + 1} /\ issued' = issued + 1
    BY <1>13 DEF Issue
  <2>7. \A k \in Token : heirs'[k] = IF k = req[w].token THEN heirs[k] + 1 ELSE heirs[k]
    BY <1>13, <2>3, <2>4 DEF Issue, Token
  <2>8. \A k \in Token : heirs[k] <= 1 /\ (k \in rows \/ k > issued => heirs[k] = 0)
    BY DEF IInv, OnceOnly, RotatedOnce
  <2>9. \A v \in Worker, k \in Token : Holds(v, k) => k \notin rows /\ heirs[k] = 0 /\
    k <= issued /\ \A u \in Worker : Holds(u, k) => u = v
    BY <2>3, <2>5 DEF IInv, OnceOnly, Holds, Token
  <2>10. RotatedOnce'
    BY <2>4, <2>7, <2>8, <2>9 DEF RotatedOnce
  <2>11. \A k \in Token : k \in rows' \/ k > issued' => heirs'[k] = 0
    BY <2>3, <2>4, <2>6, <2>7, <2>8, <2>9 DEF Token
  <2>12. \A v \in Worker, k \in Token : Holds(v, k)' => k \notin rows' /\ heirs'[k] = 0 /\
    \A u \in Worker : Holds(u, k)' => u = v
    BY <2>2, <2>3, <2>4, <2>6, <2>7, <2>9 DEF Token
  <2> QED BY <2>10, <2>11, <2>12 DEF OnceOnly
<1>14. ASSUME NEW w \in Worker, Fail(w)  PROVE OnceOnly'
  BY <1>14, Answered, OnceQuiet DEF Fail, Refuse, NoRequest, IInv, Presented, TypeOK,
    account, tokens, server, tabs, browser, bounds, history
<1>15. ASSUME NEW w \in Worker, ResetElsewhere(w)  PROVE OnceOnly'
  BY <1>15, Begun, OnceQuiet DEF ResetElsewhere, NoRequest, IInv, Presented, TypeOK, account,
    tokens, server, tabs, browser, bounds, history
<1>16. ASSUME NEW w \in Worker, LogoutElsewhere(w)  PROVE OnceOnly'
  BY <1>16, Begun, OnceQuiet DEF LogoutElsewhere, NoRequest, IInv, Presented, TypeOK,
    account, tokens, server, tabs, browser, bounds, history
<1>17. ASSUME NEW t \in Tab, NEW w \in Worker, AskRefresh(t, w)  PROVE OnceOnly'
  BY <1>17, Begun, OnceQuiet DEF AskRefresh, Stored, NoRequest, IInv, Presented, TypeOK,
    account, tokens, server, tabs, browser, bounds, history
<1>18. ASSUME NEW t \in Tab, NEW w \in Worker, AskVerify(t, w)  PROVE OnceOnly'
  BY <1>18, Begun, OnceQuiet DEF AskVerify, NoRequest, IInv, Presented, TypeOK, account,
    tokens, server, tabs, browser, bounds, history
<1>19. ASSUME NEW t \in Tab, NEW w \in Worker, NEW right \in BOOLEAN,
  NEW how \in {"remember", "once"}, AskLogin(t, w, right, how)  PROVE OnceOnly'
  BY <1>19, Begun, OnceQuiet DEF AskLogin, NoRequest, IInv, Presented, TypeOK, account,
    tokens, server, tabs, browser, bounds, history
<1>20. ASSUME NEW t \in Tab, Receive(t)  PROVE OnceOnly'
  BY <1>20 DEF IInv, OnceOnly, RotatedOnce, Holds, Receive, account, tokens, server, tabs, browser,
    bounds, history
<1>21. ASSUME NEW t \in Tab, Rehydrate(t)  PROVE OnceOnly'
  BY <1>21 DEF IInv, OnceOnly, RotatedOnce, Holds, Rehydrate, account, tokens, server,
    tabs, browser, bounds, history
<1>22. ASSUME NEW t \in Tab, SignOut(t)  PROVE OnceOnly'
  BY <1>22 DEF IInv, OnceOnly, RotatedOnce, Holds, SignOut, account, tokens, server, tabs, browser,
    bounds, history
<1>23. ASSUME NEW t \in Tab, LoseReply(t)  PROVE OnceOnly'
  BY <1>23 DEF IInv, OnceOnly, RotatedOnce, Holds, LoseReply, account, tokens, server,
    tabs, browser, bounds, history
<1>24. ASSUME LockElapses  PROVE OnceOnly'
  BY <1>24 DEF IInv, OnceOnly, RotatedOnce, Holds, LockElapses, account, tokens, server,
    tabs, browser, bounds, history
<1>25. ASSUME UNCHANGED vars  PROVE OnceOnly'
  BY <1>25 DEF IInv, OnceOnly, RotatedOnce, Holds, vars, account, tokens, server, tabs, browser,
    bounds, history
<1>26. ASSUME NEW w \in Worker, RoleRead(w)  PROVE OnceOnly'
  BY <1>26, Answered, Continued, OnceQuiet DEF RoleRead, Refuse, NoRequest, IInv, TypeOK, tokens
<1>27. ASSUME NEW w \in Worker, RoleWrite(w)  PROVE OnceOnly'
  <2>1. pc[w] = "roleWrite" /\ req[w].token = None
    BY <1>27 DEF RoleWrite, IInv, Presented
  <2> QED BY <1>27, <2>1, Continued, OnceQuiet DEF RoleWrite, IInv, TypeOK, tokens, history
<1>28. ASSUME NEW t \in Tab, NEW w \in Worker, AskRole(t, w)  PROVE OnceOnly'
  BY <1>28, Begun, OnceQuiet DEF AskRole, IInv, TypeOK, tokens
<1>29. ASSUME NEW t \in Tab, SetUser(t)  PROVE OnceOnly'
  BY <1>29 DEF IInv, OnceOnly, RotatedOnce, Holds, SetUser, tokens, server
<1> QED
  BY <1>1, <1>2, <1>3, <1>4, <1>5, <1>6, <1>7, <1>8, <1>9, <1>10, <1>11, <1>12, <1>13, <1>14,
    <1>15, <1>16, <1>17, <1>18, <1>19, <1>20, <1>21, <1>22, <1>23, <1>24, <1>25, <1>26,
    <1>27, <1>28, <1>29 DEF Next, Proceed, RefreshInvalid

\* Every step keeps the account verified once it has tokens, and its lock earned.
LEMMA GuardedKept ==
  ASSUME IInv, Next  PROVE Guarded'
<1>1. ASSUME NEW w \in Worker, RefreshFind(w)  PROVE Guarded'
  <2>1. failed \in Nat /\ guesses \in Nat /\ failed <= guesses /\
    (locked => guesses >= MaxFailed) /\ seen[w].failed \in Nat /\ seen[w].failed <= guesses
    BY DEF IInv, Guarded, LockIsEarned, TypeOK, AccountOK, ServerOK, HistoryOK, Seen
  <2>2. [seen[w] EXCEPT !.password = born[req[w].token]].failed = seen[w].failed /\
    [seen[w] EXCEPT !.password = born[req[w].token]].verified = seen[w].verified /\
    [seen[w] EXCEPT !.password = born[req[w].token]].password = born[req[w].token]
    BY DEF IInv, TypeOK, ServerOK, Seen
  <2>3. Moves(w, IF req[w].token \in rows THEN "delete" ELSE "revoke", req[w],
      [seen[w] EXCEPT !.password = born[req[w].token]])
    BY <1>1, Continued DEF RefreshFind, IInv, TypeOK
  <2>4. issued' = issued /\ guesses' = guesses /\ (verified => verified') /\
    failed' <= guesses' /\ (locked' => guesses' >= MaxFailed)
    BY <1>1, <2>1 DEF RefreshFind, account, tokens, server, tabs, browser, bounds, history
  <2>5. seen[w].verified => verified'
    BY <2>4 DEF IInv, Guarded, SeesVerified
  <2>6. guesses' \in Nat
    BY <2>1, <2>4
  <2>7. Moves(w, pc'[w], req[w], seen'[w]) /\
    pc'[w] = (IF req[w].token \in rows THEN "delete" ELSE "revoke") /\
    seen'[w].failed = seen[w].failed /\ seen'[w].verified = seen[w].verified /\
    seen'[w].password = born[req[w].token]
    BY <2>2, <2>3 DEF Moves
  <2> QED BY <2>1, <2>4, <2>5, <2>6, <2>7, GuardedQuiet DEF IInv
<1>2. ASSUME NEW w \in Worker, RefreshRevoke(w)  PROVE Guarded'
  <2>1. failed \in Nat /\ guesses \in Nat /\ failed <= guesses /\
    (locked => guesses >= MaxFailed) /\ seen[w].failed \in Nat /\ seen[w].failed <= guesses
    BY DEF IInv, Guarded, LockIsEarned, TypeOK, AccountOK, ServerOK, HistoryOK, Seen
  <2> QED BY <1>2, <2>1, Answered, GuardedQuiet DEF RefreshRevoke, Refuse, IInv, Guarded,
    SeesVerified, NoRequest, NothingSeen, Seen, Presented, TypeOK, account, tokens, server,
    tabs, browser, bounds, history
<1>3. ASSUME NEW w \in Worker, RefreshDelete(w)  PROVE Guarded'
  <2>1. failed \in Nat /\ guesses \in Nat /\ failed <= guesses /\
    (locked => guesses >= MaxFailed) /\ seen[w].failed \in Nat /\ seen[w].failed <= guesses
    BY DEF IInv, Guarded, LockIsEarned, TypeOK, AccountOK, ServerOK, HistoryOK, Seen
  <2> QED BY <1>3, <2>1, Answered, Continued, GuardedQuiet DEF RefreshDelete, Refuse, IInv,
    Guarded, SeesVerified, NoRequest, NothingSeen, Seen, Presented, TypeOK, account, tokens,
    server, tabs, browser, bounds, history
<1>4. ASSUME NEW w \in Worker, RefreshAccount(w)  PROVE Guarded'
  <2>1. failed \in Nat /\ guesses \in Nat /\ failed <= guesses /\
    (locked => guesses >= MaxFailed) /\ seen[w].failed \in Nat /\ seen[w].failed <= guesses
    BY DEF IInv, Guarded, LockIsEarned, TypeOK, AccountOK, ServerOK, HistoryOK, Seen
  <2> QED BY <1>4, <2>1, Continued, GuardedQuiet DEF RefreshAccount, IInv, Guarded,
    SeesVerified, NoRequest, NothingSeen, Seen, Presented, TypeOK, ServerOK, account, tokens,
    server, tabs, browser, bounds, history
<1>5. ASSUME NEW w \in Worker, LoginRead(w)  PROVE Guarded'
  <2>1. failed \in Nat /\ guesses \in Nat /\ failed <= guesses /\
    (locked => guesses >= MaxFailed) /\ seen[w].failed \in Nat /\ seen[w].failed <= guesses
    BY DEF IInv, Guarded, LockIsEarned, TypeOK, AccountOK, ServerOK, HistoryOK, Seen
  <2> QED BY <1>5, <2>1, Answered, Continued, GuardedQuiet DEF LoginRead, Refuse, IInv,
    Guarded, SeesVerified, NoRequest, NothingSeen, Seen, Presented, TypeOK, account, tokens,
    server, tabs, browser, bounds, history
<1>6. ASSUME NEW w \in Worker, LoginWrong(w)  PROVE Guarded'
  <2>1. failed \in Nat /\ guesses \in Nat /\ failed <= guesses /\
    (locked => guesses >= MaxFailed) /\ seen[w].failed \in Nat /\ seen[w].failed <= guesses
    BY DEF IInv, Guarded, LockIsEarned, TypeOK, AccountOK, ServerOK, HistoryOK, Seen
  <2>2. Moves(w, "idle", NoRequest, NothingSeen)
    BY <1>6, Answered DEF LoginWrong, Refuse, IInv, TypeOK
  <2>3. failed' = seen[w].failed + 1 /\ guesses' = guesses + 1
    BY <1>6, Zenon DEF LoginWrong
  <2>4. locked' => seen[w].failed + 1 >= MaxFailed
    BY <1>6, Zenon DEF LoginWrong
  <2>5. verified' = verified /\ issued' = issued
    BY <1>6 DEF LoginWrong, tokens
  <2>6. failed' <= guesses' /\ guesses' \in Nat /\ guesses <= guesses' /\
    NothingSeen.failed <= guesses'
    BY <2>1, <2>3 DEF NothingSeen
  <2>7. locked' => guesses' >= MaxFailed
    BY <2>1, <2>3, <2>4
  <2> QED BY <2>2, <2>5, <2>6, <2>7, GuardedQuiet DEF IInv, NoRequest, NothingSeen
<1>7. ASSUME NEW w \in Worker, LoginRight(w)  PROVE Guarded'
  <2>1. failed \in Nat /\ guesses \in Nat /\ failed <= guesses /\
    (locked => guesses >= MaxFailed) /\ seen[w].failed \in Nat /\ seen[w].failed <= guesses
    BY DEF IInv, Guarded, LockIsEarned, TypeOK, AccountOK, ServerOK, HistoryOK, Seen
  <2> QED BY <1>7, <2>1, Answered, Continued, GuardedQuiet DEF LoginRight, Refuse, IInv,
    Guarded, SeesVerified, NoRequest, NothingSeen, Seen, Presented, TypeOK, account, tokens,
    server, tabs, browser, bounds, history
<1>8. ASSUME NEW w \in Worker, LoginUnlock(w)  PROVE Guarded'
  <2>1. failed \in Nat /\ guesses \in Nat /\ failed <= guesses /\
    (locked => guesses >= MaxFailed) /\ seen[w].failed \in Nat /\ seen[w].failed <= guesses
    BY DEF IInv, Guarded, LockIsEarned, TypeOK, AccountOK, ServerOK, HistoryOK, Seen
  <2> QED BY <1>8, <2>1, Continued, GuardedQuiet DEF LoginUnlock, IInv, Guarded,
    SeesVerified, NoRequest, NothingSeen, Seen, Presented, TypeOK, account, tokens, server,
    tabs, browser, bounds, history
<1>9. ASSUME NEW w \in Worker, VerifyWrite(w)  PROVE Guarded'
  <2>1. failed \in Nat /\ guesses \in Nat /\ failed <= guesses /\
    (locked => guesses >= MaxFailed) /\ seen[w].failed \in Nat /\ seen[w].failed <= guesses
    BY DEF IInv, Guarded, LockIsEarned, TypeOK, AccountOK, ServerOK, HistoryOK, Seen
  <2>2. [seen[w] EXCEPT !.password = password].failed = seen[w].failed /\
    [seen[w] EXCEPT !.password = password].verified = seen[w].verified /\
    [seen[w] EXCEPT !.password = password].password = password
    BY DEF IInv, TypeOK, ServerOK, Seen
  <2>3. Moves(w, "issue", req[w], [seen[w] EXCEPT !.password = password])
    BY <1>9, Continued DEF VerifyWrite, IInv, TypeOK
  <2>4. issued' = issued /\ guesses' = guesses /\ (verified => verified') /\
    failed' <= guesses' /\ (locked' => guesses' >= MaxFailed)
    BY <1>9, <2>1 DEF VerifyWrite, account, tokens, server, tabs, browser, bounds, history
  <2>5. seen[w].verified => verified'
    BY <2>4 DEF IInv, Guarded, SeesVerified
  <2>6. guesses' \in Nat
    BY <2>1, <2>4
  <2>7. verified'
    BY <1>9 DEF VerifyWrite
  <2>8. Moves(w, pc'[w], req[w], seen'[w]) /\ pc'[w] = ("issue") /\
    seen'[w].failed = seen[w].failed /\ seen'[w].verified = seen[w].verified /\
    seen'[w].password = password
    BY <2>2, <2>3 DEF Moves
  <2> QED BY <2>1, <2>4, <2>5, <2>6, <2>7, <2>8, GuardedQuiet DEF IInv
<1>10. ASSUME NEW w \in Worker, ResetRevoke(w)  PROVE Guarded'
  <2>1. failed \in Nat /\ guesses \in Nat /\ failed <= guesses /\
    (locked => guesses >= MaxFailed) /\ seen[w].failed \in Nat /\ seen[w].failed <= guesses
    BY DEF IInv, Guarded, LockIsEarned, TypeOK, AccountOK, ServerOK, HistoryOK, Seen
  <2> QED BY <1>10, <2>1, Continued, GuardedQuiet DEF ResetRevoke, IInv, Guarded,
    SeesVerified, NoRequest, NothingSeen, Seen, Presented, TypeOK, account, tokens, server,
    tabs, browser, bounds, history
<1>11. ASSUME NEW w \in Worker, ResetWrite(w)  PROVE Guarded'
  <2>1. failed \in Nat /\ guesses \in Nat /\ failed <= guesses /\
    (locked => guesses >= MaxFailed) /\ seen[w].failed \in Nat /\ seen[w].failed <= guesses
    BY DEF IInv, Guarded, LockIsEarned, TypeOK, AccountOK, ServerOK, HistoryOK, Seen
  <2>2. [seen[w] EXCEPT !.password = password + 1].failed = seen[w].failed /\
    [seen[w] EXCEPT !.password = password + 1].verified = seen[w].verified /\
    [seen[w] EXCEPT !.password = password + 1].password = password + 1
    BY DEF IInv, TypeOK, ServerOK, Seen
  <2>3. Moves(w, "issue", req[w], [seen[w] EXCEPT !.password = password + 1])
    BY <1>11, Continued DEF ResetWrite, IInv, TypeOK
  <2>4. issued' = issued /\ guesses' = guesses /\ (verified => verified') /\
    failed' <= guesses' /\ (locked' => guesses' >= MaxFailed)
    BY <1>11, <2>1 DEF ResetWrite, account, tokens, server, tabs, browser, bounds, history
  <2>5. seen[w].verified => verified'
    BY <2>4 DEF IInv, Guarded, SeesVerified
  <2>6. guesses' \in Nat
    BY <2>1, <2>4
  <2>7. verified'
    BY <1>11 DEF ResetWrite
  <2>8. Moves(w, pc'[w], req[w], seen'[w]) /\ pc'[w] = ("issue") /\
    seen'[w].failed = seen[w].failed /\ seen'[w].verified = seen[w].verified /\
    seen'[w].password = password + 1
    BY <2>2, <2>3 DEF Moves
  <2> QED BY <2>1, <2>4, <2>5, <2>6, <2>7, <2>8, GuardedQuiet DEF IInv
<1>12. ASSUME NEW w \in Worker, Logout(w)  PROVE Guarded'
  <2>1. failed \in Nat /\ guesses \in Nat /\ failed <= guesses /\
    (locked => guesses >= MaxFailed) /\ seen[w].failed \in Nat /\ seen[w].failed <= guesses
    BY DEF IInv, Guarded, LockIsEarned, TypeOK, AccountOK, ServerOK, HistoryOK, Seen
  <2> QED BY <1>12, <2>1, Answered, GuardedQuiet DEF Logout, Refuse, IInv, Guarded,
    SeesVerified, NoRequest, NothingSeen, Seen, Presented, TypeOK, account, tokens, server,
    tabs, browser, bounds, history
<1>13. ASSUME NEW w \in Worker, Issue(w)  PROVE Guarded'
  <2>1. Moves(w, "idle", NoRequest, NothingSeen)
    BY <1>13, Answered DEF Issue, IInv, TypeOK
  <2>2. issued \in Nat /\ req[w].token \in (1..issued) \union {None}
    BY DEF IInv, Presented, TypeOK, TokensOK
  <2>3. verified
    BY <1>13, <2>2 DEF Issue, IInv, Guarded, SeesVerified
  <2>4. UNCHANGED <<verified, failed, locked, guesses>>
    BY <1>13 DEF Issue, account, bounds
  <2>5. guesses \in Nat
    BY DEF IInv, TypeOK, HistoryOK
  <2>6. \A v \in Worker : SeesVerified(v)' /\ seen'[v].failed <= guesses'
    BY <2>1, <2>3, <2>4, <2>5 DEF Moves, NothingSeen, SeesVerified, IInv, Guarded
  <2> QED BY <2>3, <2>4, <2>6 DEF IInv, Guarded, LockIsEarned
<1>14. ASSUME NEW w \in Worker, Fail(w)  PROVE Guarded'
  <2>1. failed \in Nat /\ guesses \in Nat /\ failed <= guesses /\
    (locked => guesses >= MaxFailed) /\ seen[w].failed \in Nat /\ seen[w].failed <= guesses
    BY DEF IInv, Guarded, LockIsEarned, TypeOK, AccountOK, ServerOK, HistoryOK, Seen
  <2> QED BY <1>14, <2>1, Answered, GuardedQuiet DEF Fail, Refuse, IInv, Guarded,
    SeesVerified, NoRequest, NothingSeen, Seen, Presented, TypeOK, account, tokens, server,
    tabs, browser, bounds, history
<1>15. ASSUME NEW w \in Worker, ResetElsewhere(w)  PROVE Guarded'
  <2>1. failed \in Nat /\ guesses \in Nat /\ failed <= guesses /\
    (locked => guesses >= MaxFailed) /\ seen[w].failed \in Nat /\ seen[w].failed <= guesses
    BY DEF IInv, Guarded, LockIsEarned, TypeOK, AccountOK, ServerOK, HistoryOK, Seen
  <2> QED BY <1>15, <2>1, Begun, GuardedQuiet DEF ResetElsewhere, IInv, Guarded,
    SeesVerified, NoRequest, NothingSeen, Seen, Presented, TypeOK, account, tokens, server,
    tabs, browser, bounds, history
<1>16. ASSUME NEW w \in Worker, LogoutElsewhere(w)  PROVE Guarded'
  <2>1. failed \in Nat /\ guesses \in Nat /\ failed <= guesses /\
    (locked => guesses >= MaxFailed) /\ seen[w].failed \in Nat /\ seen[w].failed <= guesses
    BY DEF IInv, Guarded, LockIsEarned, TypeOK, AccountOK, ServerOK, HistoryOK, Seen
  <2> QED BY <1>16, <2>1, Begun, GuardedQuiet DEF LogoutElsewhere, IInv, Guarded,
    SeesVerified, NoRequest, NothingSeen, Seen, Presented, TypeOK, account, tokens, server,
    tabs, browser, bounds, history
<1>17. ASSUME NEW t \in Tab, NEW w \in Worker, AskRefresh(t, w)  PROVE Guarded'
  <2>1. failed \in Nat /\ guesses \in Nat /\ failed <= guesses /\
    (locked => guesses >= MaxFailed) /\ seen[w].failed \in Nat /\ seen[w].failed <= guesses
    BY DEF IInv, Guarded, LockIsEarned, TypeOK, AccountOK, ServerOK, HistoryOK, Seen
  <2> QED BY <1>17, <2>1, Begun, GuardedQuiet DEF AskRefresh, Stored, IInv, Guarded,
    SeesVerified, NoRequest, NothingSeen, Seen, Presented, TypeOK, account, tokens, server,
    tabs, browser, bounds, history
<1>18. ASSUME NEW t \in Tab, NEW w \in Worker, AskVerify(t, w)  PROVE Guarded'
  <2>1. failed \in Nat /\ guesses \in Nat /\ failed <= guesses /\
    (locked => guesses >= MaxFailed) /\ seen[w].failed \in Nat /\ seen[w].failed <= guesses
    BY DEF IInv, Guarded, LockIsEarned, TypeOK, AccountOK, ServerOK, HistoryOK, Seen
  <2> QED BY <1>18, <2>1, Begun, GuardedQuiet DEF AskVerify, IInv, Guarded, SeesVerified,
    NoRequest, NothingSeen, Seen, Presented, TypeOK, account, tokens, server, tabs, browser,
    bounds, history
<1>19. ASSUME NEW t \in Tab, NEW w \in Worker, NEW right \in BOOLEAN,
  NEW how \in {"remember", "once"}, AskLogin(t, w, right, how)  PROVE Guarded'
  <2>1. failed \in Nat /\ guesses \in Nat /\ failed <= guesses /\
    (locked => guesses >= MaxFailed) /\ seen[w].failed \in Nat /\ seen[w].failed <= guesses
    BY DEF IInv, Guarded, LockIsEarned, TypeOK, AccountOK, ServerOK, HistoryOK, Seen
  <2> QED BY <1>19, <2>1, Begun, GuardedQuiet DEF AskLogin, IInv, Guarded, SeesVerified,
    NoRequest, NothingSeen, Seen, Presented, TypeOK, account, tokens, server, tabs, browser,
    bounds, history
<1>20. ASSUME NEW t \in Tab, Receive(t)  PROVE Guarded'
  BY <1>20 DEF IInv, Guarded, SeesVerified, LockIsEarned, Receive, account, tokens, server,
    tabs, browser, bounds, history
<1>21. ASSUME NEW t \in Tab, Rehydrate(t)  PROVE Guarded'
  BY <1>21 DEF IInv, Guarded, SeesVerified, LockIsEarned, Rehydrate, account, tokens, server,
    tabs, browser, bounds, history
<1>22. ASSUME NEW t \in Tab, SignOut(t)  PROVE Guarded'
  BY <1>22 DEF IInv, Guarded, SeesVerified, LockIsEarned, SignOut, account, tokens, server,
    tabs, browser, bounds, history
<1>23. ASSUME NEW t \in Tab, LoseReply(t)  PROVE Guarded'
  BY <1>23 DEF IInv, Guarded, SeesVerified, LockIsEarned, LoseReply, account, tokens, server,
    tabs, browser, bounds, history
<1>24. ASSUME LockElapses  PROVE Guarded'
  BY <1>24 DEF IInv, Guarded, SeesVerified, LockIsEarned, LockElapses, account, tokens,
    server, tabs, browser, bounds, history
<1>25. ASSUME UNCHANGED vars  PROVE Guarded'
  BY <1>25 DEF IInv, Guarded, SeesVerified, LockIsEarned, vars, account, tokens, server,
    tabs, browser, bounds, history
<1>26. ASSUME NEW w \in Worker, RoleRead(w)  PROVE Guarded'
  <2>1. failed \in Nat /\ guesses \in Nat /\ failed <= guesses /\
    (locked => guesses >= MaxFailed) /\ seen[w].failed \in Nat /\ seen[w].failed <= guesses
    BY DEF IInv, Guarded, LockIsEarned, TypeOK, AccountOK, ServerOK, HistoryOK, Seen
  <2>2. verified
    BY <1>26 DEF RoleRead, IInv, Guarded, SeesVerified
  <2>3. UNCHANGED <<verified, failed, locked, issued, guesses>>
    BY <1>26 DEF RoleRead, account, tokens, bounds
  <2>4. CASE answered
    BY <1>26, <2>1, <2>2, <2>3, <2>4, Answered, GuardedQuiet DEF RoleRead, Refuse, IInv, NoRequest,
      NothingSeen, TypeOK
  <2>5. CASE ~answered
    <3> DEFINE s == [seen[w] EXCEPT !.password = req[w].password]
    <3>1. Moves(w, "roleWrite", req[w], s)
      BY <1>26, <2>5, Continued DEF RoleRead, IInv, TypeOK
    <3>2. s.failed = seen[w].failed
      BY DEF IInv, TypeOK, ServerOK, Seen
    <3> HIDE DEF s
    <3> QED BY <2>1, <2>2, <2>3, <3>1, <3>2, GuardedQuiet DEF IInv
  <2> QED BY <2>4, <2>5
<1>27. ASSUME NEW w \in Worker, RoleWrite(w)  PROVE Guarded'
  <2>1. failed \in Nat /\ guesses \in Nat /\ failed <= guesses /\
    (locked => guesses >= MaxFailed) /\ seen[w].failed \in Nat /\ seen[w].failed <= guesses
    BY DEF IInv, Guarded, LockIsEarned, TypeOK, AccountOK, ServerOK, HistoryOK, Seen
  <2>2. verified
    BY <1>27 DEF RoleWrite, IInv, Guarded, SeesVerified
  <2>3. UNCHANGED <<verified, failed, locked, issued, guesses>>
    BY <1>27 DEF RoleWrite, tokens, bounds
  <2>4. Moves(w, "issue", req[w], seen[w])
    BY <1>27, Continued DEF RoleWrite, IInv, TypeOK
  <2> QED BY <2>1, <2>2, <2>3, <2>4, GuardedQuiet DEF IInv
<1>28. ASSUME NEW t \in Tab, NEW w \in Worker, AskRole(t, w)  PROVE Guarded'
  <2>1. failed \in Nat /\ guesses \in Nat /\ failed <= guesses /\
    (locked => guesses >= MaxFailed) /\ seen[w].failed \in Nat /\ seen[w].failed <= guesses
    BY DEF IInv, Guarded, LockIsEarned, TypeOK, AccountOK, ServerOK, HistoryOK, Seen
  <2>2. verified
    <3>1. mem[t] \in 1..issued /\ issued \in Nat
      BY <1>28 DEF AskRole, IInv, Presented, TypeOK, TokensOK
    <3> QED BY <3>1 DEF IInv, Guarded
  <2>3. UNCHANGED <<verified, failed, locked, issued, guesses>>
    BY <1>28 DEF AskRole, account, tokens, bounds
  <2> QED BY <1>28, <2>1, <2>2, <2>3, Begun, GuardedQuiet DEF AskRole, IInv, NothingSeen, TypeOK
<1>29. ASSUME NEW t \in Tab, SetUser(t)  PROVE Guarded'
  BY <1>29 DEF IInv, Guarded, SeesVerified, LockIsEarned, SetUser, account, tokens, server, bounds
<1> QED
  BY <1>1, <1>2, <1>3, <1>4, <1>5, <1>6, <1>7, <1>8, <1>9, <1>10, <1>11, <1>12, <1>13, <1>14,
    <1>15, <1>16, <1>17, <1>18, <1>19, <1>20, <1>21, <1>22, <1>23, <1>24, <1>25, <1>26,
    <1>27, <1>28, <1>29 DEF Next, Proceed, RefreshInvalid

\* Every step marks the sessions of an old password: the reset's own two steps,
\* and Issue, are the ones to look at.
LEMMA EndedKept ==
  ASSUME IInv, Next  PROVE Ended'
<1>1. ASSUME NEW w \in Worker, RefreshFind(w)  PROVE Ended'
  <2>1. password \in Nat /\ seen[w].password \in Nat /\ seen[w].password <= password /\
    Behind(w) /\ Brushes(w) /\ \A u \in Worker : Brushes(u)
    BY DEF IInv, Ended, TypeOK, AccountOK, ServerOK, Seen
  <2>2. [seen[w] EXCEPT !.password = born[req[w].token]].failed = seen[w].failed /\
    [seen[w] EXCEPT !.password = born[req[w].token]].verified = seen[w].verified /\
    [seen[w] EXCEPT !.password = born[req[w].token]].password = born[req[w].token]
    BY DEF IInv, TypeOK, ServerOK, Seen
  <2>3. Moves(w, IF req[w].token \in rows THEN "delete" ELSE "revoke", req[w],
      [seen[w] EXCEPT !.password = born[req[w].token]])
    BY <1>1, Continued DEF RefreshFind, IInv, TypeOK
  <2>4. UNCHANGED <<password, rows, born, brushed, tainted>>
    BY <1>1 DEF RefreshFind, account, tokens, history
  <2>5. \A u \in Worker \ {w} : pc[u] = "resetWrite" => w \in brushed
    BY <1>1, <2>1 DEF RefreshFind, Brushes
  <2>6. req[w].token \in Token
    BY <1>1 DEF RefreshFind, IInv, TypeOK, ServerOK, Request
  <2>7. born[req[w].token] <= password
    BY <2>6 DEF IInv, Ended
  <2>8. req[w].token \in rows /\ born[req[w].token] < password => req[w].token \in tainted
    BY <2>6 DEF IInv, Ended, OldSessionsEnd
  <2>9. Moves(w, pc'[w], req[w], seen'[w]) /\
    pc'[w] = (IF req[w].token \in rows THEN "delete" ELSE "revoke") /\
    seen'[w].failed = seen[w].failed /\ seen'[w].verified = seen[w].verified /\
    seen'[w].password = born[req[w].token]
    BY <2>2, <2>3 DEF Moves
  <2> QED BY <2>4, <2>5, <2>7, <2>8, <2>9, EndedQuiet DEF IInv
<1>2. ASSUME NEW w \in Worker, RefreshRevoke(w)  PROVE Ended'
  <2>1. password \in Nat /\ seen[w].password \in Nat /\ seen[w].password <= password /\
    Behind(w) /\ Brushes(w) /\ \A u \in Worker : Brushes(u)
    BY DEF IInv, Ended, TypeOK, AccountOK, ServerOK, Seen
  <2> QED BY <1>2, <2>1, Answered, EndedQuiet DEF RefreshRevoke, Refuse, IInv, Ended,
    NoRequest, NothingSeen, Behind, Brushes, Busy, Resetting, TypeOK, account, tokens,
    server, tabs, browser, bounds, history
<1>3. ASSUME NEW w \in Worker, RefreshDelete(w)  PROVE Ended'
  <2>1. password \in Nat /\ seen[w].password \in Nat /\ seen[w].password <= password /\
    Behind(w) /\ Brushes(w) /\ \A u \in Worker : Brushes(u)
    BY DEF IInv, Ended, TypeOK, AccountOK, ServerOK, Seen
  <2> QED BY <1>3, <2>1, Answered, Continued, EndedQuiet DEF RefreshDelete, Refuse, IInv,
    Ended, NoRequest, NothingSeen, Behind, Brushes, Busy, Resetting, TypeOK, account, tokens,
    server, tabs, browser, bounds, history
<1>4. ASSUME NEW w \in Worker, RefreshAccount(w)  PROVE Ended'
  <2>1. password \in Nat /\ seen[w].password \in Nat /\ seen[w].password <= password /\
    Behind(w) /\ Brushes(w) /\ \A u \in Worker : Brushes(u)
    BY DEF IInv, Ended, TypeOK, AccountOK, ServerOK, Seen
  <2> QED BY <1>4, <2>1, Continued, EndedQuiet DEF RefreshAccount, IInv, Ended, NoRequest,
    NothingSeen, Behind, Brushes, Busy, Resetting, TypeOK, account, tokens, server, tabs, browser,
    bounds, history
<1>5. ASSUME NEW w \in Worker, LoginRead(w)  PROVE Ended'
  <2>1. password \in Nat /\ seen[w].password \in Nat /\ seen[w].password <= password /\
    Behind(w) /\ Brushes(w) /\ \A u \in Worker : Brushes(u)
    BY DEF IInv, Ended, TypeOK, AccountOK, ServerOK, Seen
  <2> QED BY <1>5, <2>1, Answered, Continued, EndedQuiet DEF LoginRead, Refuse, IInv, Ended,
    NoRequest, NothingSeen, Behind, Brushes, Busy, Resetting, TypeOK, account, tokens,
    server, tabs, browser, bounds, history
<1>6. ASSUME NEW w \in Worker, LoginWrong(w)  PROVE Ended'
  <2>1. password \in Nat /\ seen[w].password \in Nat /\ seen[w].password <= password /\
    Behind(w) /\ Brushes(w) /\ \A u \in Worker : Brushes(u)
    BY DEF IInv, Ended, TypeOK, AccountOK, ServerOK, Seen
  <2> QED BY <1>6, <2>1, Answered, EndedQuiet DEF LoginWrong, Refuse, IInv, Ended, NoRequest,
    NothingSeen, Behind, Brushes, Busy, Resetting, TypeOK, account, tokens, server, tabs, browser,
    bounds, history
<1>7. ASSUME NEW w \in Worker, LoginRight(w)  PROVE Ended'
  <2>1. password \in Nat /\ seen[w].password \in Nat /\ seen[w].password <= password /\
    Behind(w) /\ Brushes(w) /\ \A u \in Worker : Brushes(u)
    BY DEF IInv, Ended, TypeOK, AccountOK, ServerOK, Seen
  <2> QED BY <1>7, <2>1, Answered, Continued, EndedQuiet DEF LoginRight, Refuse, IInv, Ended,
    NoRequest, NothingSeen, Behind, Brushes, Busy, Resetting, TypeOK, account, tokens,
    server, tabs, browser, bounds, history
<1>8. ASSUME NEW w \in Worker, LoginUnlock(w)  PROVE Ended'
  <2>1. password \in Nat /\ seen[w].password \in Nat /\ seen[w].password <= password /\
    Behind(w) /\ Brushes(w) /\ \A u \in Worker : Brushes(u)
    BY DEF IInv, Ended, TypeOK, AccountOK, ServerOK, Seen
  <2> QED BY <1>8, <2>1, Continued, EndedQuiet DEF LoginUnlock, IInv, Ended, NoRequest,
    NothingSeen, Behind, Brushes, Busy, Resetting, TypeOK, account, tokens, server, tabs, browser,
    bounds, history
<1>9. ASSUME NEW w \in Worker, VerifyWrite(w)  PROVE Ended'
  <2>1. password \in Nat /\ seen[w].password \in Nat /\ seen[w].password <= password /\
    Behind(w) /\ Brushes(w) /\ \A u \in Worker : Brushes(u)
    BY DEF IInv, Ended, TypeOK, AccountOK, ServerOK, Seen
  <2>2. [seen[w] EXCEPT !.password = password].failed = seen[w].failed /\
    [seen[w] EXCEPT !.password = password].verified = seen[w].verified /\
    [seen[w] EXCEPT !.password = password].password = password
    BY DEF IInv, TypeOK, ServerOK, Seen
  <2>3. Moves(w, "issue", req[w], [seen[w] EXCEPT !.password = password])
    BY <1>9, Continued DEF VerifyWrite, IInv, TypeOK
  <2>4. UNCHANGED <<password, rows, born, brushed, tainted>>
    BY <1>9 DEF VerifyWrite, account, tokens, history
  <2>5. \A u \in Worker \ {w} : pc[u] = "resetWrite" => w \in brushed
    BY <1>9, <2>1 DEF VerifyWrite, Brushes
  <2>6. Moves(w, pc'[w], req[w], seen'[w]) /\ pc'[w] = ("issue") /\
    seen'[w].failed = seen[w].failed /\ seen'[w].verified = seen[w].verified /\
    seen'[w].password = password
    BY <2>2, <2>3 DEF Moves
  <2> QED BY <2>1, <2>4, <2>5, <2>6, EndedQuiet DEF IInv
<1>10. ASSUME NEW w \in Worker, ResetRevoke(w)  PROVE Ended'
  <2>1. password \in Nat /\ seen[w].password \in Nat /\ seen[w].password <= password /\
    Behind(w) /\ Brushes(w) /\ \A u \in Worker : Brushes(u)
    BY DEF IInv, Ended, TypeOK, AccountOK, ServerOK, Seen
  <2> QED BY <1>10, <2>1, Continued, EndedQuiet DEF ResetRevoke, IInv, Ended, NoRequest,
    NothingSeen, Behind, Brushes, Busy, Resetting, TypeOK, account, tokens, server, tabs, browser,
    bounds, history
<1>11. ASSUME NEW w \in Worker, ResetWrite(w)  PROVE Ended'
  <2>1. Moves(w, "issue", req[w], [seen[w] EXCEPT !.password = password + 1])
    BY <1>11, Continued DEF ResetWrite, IInv, TypeOK
  <2>2. UNCHANGED <<rows, born, brushed, tainted>> /\ password' = password + 1
    BY <1>11 DEF ResetWrite, tokens, history
  <2>3. rows \subseteq tainted /\ \A v \in Worker \ {w} : pc[v] # "idle" => v \in brushed
    BY <1>11 DEF ResetWrite, IInv, Ended, Brushes
  <2>4. password \in Nat /\ \A v \in Worker : seen[v] \in Seen
    BY DEF IInv, TypeOK, AccountOK, ServerOK
  <2>5. OldSessionsEnd'
    BY <2>2, <2>3 DEF OldSessionsEnd
  <2>6. \A v \in Worker : seen'[v].password <= password'
    BY <2>1, <2>2, <2>4 DEF IInv, Ended, Moves, Seen
  <2>7. \A v \in Worker : Behind(v)'
    BY <2>1, <2>2, <2>3, <2>4 DEF Behind, Moves, Seen
  <2>8. \A v \in Worker : Brushes(v)'
    BY <1>11, <2>1, <2>2, <2>3 DEF ResetWrite, IInv, Ended, Brushes, Moves
  <2>9. \A k \in Token : born'[k] <= password'
    BY <2>2, <2>4 DEF IInv, Ended, TypeOK, HistoryOK
  <2>10. \A v \in Worker : Asks(v)'
    BY <2>1, <2>2, <2>4 DEF IInv, Ended, Asks, Moves
  <2> QED BY <2>5, <2>6, <2>7, <2>8, <2>9, <2>10 DEF Ended
<1>12. ASSUME NEW w \in Worker, Logout(w)  PROVE Ended'
  <2>1. password \in Nat /\ seen[w].password \in Nat /\ seen[w].password <= password /\
    Behind(w) /\ Brushes(w) /\ \A u \in Worker : Brushes(u)
    BY DEF IInv, Ended, TypeOK, AccountOK, ServerOK, Seen
  <2> QED BY <1>12, <2>1, Answered, EndedQuiet DEF Logout, Refuse, IInv, Ended, NoRequest,
    NothingSeen, Behind, Brushes, Busy, Resetting, TypeOK, account, tokens, server, tabs, browser,
    bounds, history
<1>13. ASSUME NEW w \in Worker, Issue(w)  PROVE Ended'
  <2>1. Moves(w, "idle", NoRequest, NothingSeen)
    BY <1>13, Answered DEF Issue, IInv, TypeOK
  <2>2. issued + 1 \in Token /\ issued + 1 \notin rows /\ password \in Nat
    BY <1>13 DEF Issue, Token, IInv, TypeOK, TokensOK, AccountOK
  <2>3. rows' = rows \union {issued + 1} /\ password' = password
    BY <1>13 DEF Issue, account
  <2>4. \A k \in Token : born'[k] = IF k = issued + 1 THEN seen[w].password ELSE born[k]
    BY <1>13, <2>2 DEF Issue, IInv, TypeOK, HistoryOK
  <2>5. tainted \subseteq tainted' /\
    (w \in brushed \/ req[w].token \in tainted => issued + 1 \in tainted')
    BY <1>13 DEF Issue
  <2>6. brushed' = brushed \ {w}
    BY <1>13 DEF Issue
  <2>7. pc[w] = "issue" /\ seen[w].password <= password /\ Behind(w)
    BY <1>13 DEF Issue, IInv, Ended
  <2>8. OldSessionsEnd'
    <3>1. seen[w].password < password => issued + 1 \in tainted'
      BY <2>5, <2>7 DEF Behind
    <3>2. \A k \in rows : k \in Token /\ (born[k] < password => k \in tainted)
      BY DEF IInv, Ended, OldSessionsEnd, Token, TypeOK, TokensOK
    <3> QED BY <2>2, <2>3, <2>4, <2>5, <3>1, <3>2 DEF OldSessionsEnd
  <2>9. \A v \in Worker : seen'[v].password <= password' /\ Behind(v)' /\ Asks(v)'
    BY <2>1, <2>2, <2>3, <2>5, <2>6 DEF IInv, Ended, Behind, Asks, Moves, NothingSeen
  <2>10. \A v \in Worker : Brushes(v)'
    BY <2>1, <2>3, <2>5, <2>6, <2>7 DEF IInv, Ended, Brushes, Moves
  <2>11. \A k \in Token : born'[k] <= password'
    BY <2>3, <2>4, <2>7 DEF IInv, Ended
  <2> QED BY <2>8, <2>9, <2>10, <2>11 DEF Ended
<1>14. ASSUME NEW w \in Worker, Fail(w)  PROVE Ended'
  <2>1. password \in Nat /\ seen[w].password \in Nat /\ seen[w].password <= password /\
    Behind(w) /\ Brushes(w) /\ \A u \in Worker : Brushes(u)
    BY DEF IInv, Ended, TypeOK, AccountOK, ServerOK, Seen
  <2> QED BY <1>14, <2>1, Answered, EndedQuiet DEF Fail, Refuse, IInv, Ended, NoRequest,
    NothingSeen, Behind, Brushes, Busy, Resetting, TypeOK, account, tokens, server, tabs, browser,
    bounds, history
<1>15. ASSUME NEW w \in Worker, ResetElsewhere(w)  PROVE Ended'
  <2>1. password \in Nat /\ seen[w].password \in Nat /\ seen[w].password <= password /\
    Behind(w) /\ Brushes(w) /\ \A u \in Worker : Brushes(u)
    BY DEF IInv, Ended, TypeOK, AccountOK, ServerOK, Seen
  <2>2. brushed \ {w} \subseteq brushed' /\ \A u \in Worker : pc[u] = "resetWrite" =>
    w \in brushed'
    BY <1>15 DEF ResetElsewhere, Begin, Resetting
  <2> QED BY <1>15, <2>1, <2>2, Begun, EndedQuiet DEF ResetElsewhere, IInv, Ended,
    NothingSeen, TypeOK, account, tokens, server, tabs, browser, bounds, history
<1>16. ASSUME NEW w \in Worker, LogoutElsewhere(w)  PROVE Ended'
  <2>1. password \in Nat /\ seen[w].password \in Nat /\ seen[w].password <= password /\
    Behind(w) /\ Brushes(w) /\ \A u \in Worker : Brushes(u)
    BY DEF IInv, Ended, TypeOK, AccountOK, ServerOK, Seen
  <2>2. brushed \ {w} \subseteq brushed' /\ \A u \in Worker : pc[u] = "resetWrite" =>
    w \in brushed'
    BY <1>16 DEF LogoutElsewhere, Begin, Resetting
  <2> QED BY <1>16, <2>1, <2>2, Begun, EndedQuiet DEF LogoutElsewhere, IInv, Ended,
    NothingSeen, TypeOK, account, tokens, server, tabs, browser, bounds, history
<1>17. ASSUME NEW t \in Tab, NEW w \in Worker, AskRefresh(t, w)  PROVE Ended'
  <2>1. password \in Nat /\ seen[w].password \in Nat /\ seen[w].password <= password /\
    Behind(w) /\ Brushes(w) /\ \A u \in Worker : Brushes(u)
    BY DEF IInv, Ended, TypeOK, AccountOK, ServerOK, Seen
  <2>2. brushed \ {w} \subseteq brushed' /\ \A u \in Worker : pc[u] = "resetWrite" =>
    w \in brushed'
    BY <1>17 DEF AskRefresh, Begin, Resetting
  <2> QED BY <1>17, <2>1, <2>2, Begun, EndedQuiet DEF AskRefresh, Stored, IInv, Ended,
    NothingSeen, TypeOK, account, tokens, server, tabs, browser, bounds, history
<1>18. ASSUME NEW t \in Tab, NEW w \in Worker, AskVerify(t, w)  PROVE Ended'
  <2>1. password \in Nat /\ seen[w].password \in Nat /\ seen[w].password <= password /\
    Behind(w) /\ Brushes(w) /\ \A u \in Worker : Brushes(u)
    BY DEF IInv, Ended, TypeOK, AccountOK, ServerOK, Seen
  <2>2. brushed \ {w} \subseteq brushed' /\ \A u \in Worker : pc[u] = "resetWrite" =>
    w \in brushed'
    BY <1>18 DEF AskVerify, Begin, Resetting
  <2> QED BY <1>18, <2>1, <2>2, Begun, EndedQuiet DEF AskVerify, IInv, Ended, NothingSeen,
    TypeOK, account, tokens, server, tabs, browser, bounds, history
<1>19. ASSUME NEW t \in Tab, NEW w \in Worker, NEW right \in BOOLEAN,
  NEW how \in {"remember", "once"}, AskLogin(t, w, right, how)  PROVE Ended'
  <2>1. password \in Nat /\ seen[w].password \in Nat /\ seen[w].password <= password /\
    Behind(w) /\ Brushes(w) /\ \A u \in Worker : Brushes(u)
    BY DEF IInv, Ended, TypeOK, AccountOK, ServerOK, Seen
  <2>2. brushed \ {w} \subseteq brushed' /\ \A u \in Worker : pc[u] = "resetWrite" =>
    w \in brushed'
    BY <1>19 DEF AskLogin, Begin, Resetting
  <2> QED BY <1>19, <2>1, <2>2, Begun, EndedQuiet DEF AskLogin, IInv, Ended, NothingSeen,
    TypeOK, account, tokens, server, tabs, browser, bounds, history
<1>20. ASSUME NEW t \in Tab, Receive(t)  PROVE Ended'
  BY <1>20 DEF IInv, Ended, OldSessionsEnd, Behind, Asks, Brushes, Receive, account, tokens,
    server, tabs, browser, bounds, history
<1>21. ASSUME NEW t \in Tab, Rehydrate(t)  PROVE Ended'
  BY <1>21 DEF IInv, Ended, OldSessionsEnd, Behind, Asks, Brushes, Rehydrate, account, tokens,
    server, tabs, browser, bounds, history
<1>22. ASSUME NEW t \in Tab, SignOut(t)  PROVE Ended'
  BY <1>22 DEF IInv, Ended, OldSessionsEnd, Behind, Asks, Brushes, SignOut, account, tokens,
    server, tabs, browser, bounds, history
<1>23. ASSUME NEW t \in Tab, LoseReply(t)  PROVE Ended'
  BY <1>23 DEF IInv, Ended, OldSessionsEnd, Behind, Asks, Brushes, LoseReply, account, tokens,
    server, tabs, browser, bounds, history
<1>24. ASSUME LockElapses  PROVE Ended'
  BY <1>24 DEF IInv, Ended, OldSessionsEnd, Behind, Asks, Brushes, LockElapses, account, tokens,
    server, tabs, browser, bounds, history
<1>25. ASSUME UNCHANGED vars  PROVE Ended'
  BY <1>25 DEF IInv, Ended, OldSessionsEnd, Behind, Asks, Brushes, vars, account, tokens, server,
    tabs, browser, bounds, history
<1>26. ASSUME NEW w \in Worker, RoleRead(w)  PROVE Ended'
  <2>1. password \in Nat /\ seen[w].password \in Nat /\ seen[w].password <= password /\
    Behind(w) /\ Asks(w) /\ \A u \in Worker : Brushes(u)
    BY DEF IInv, Ended, TypeOK, AccountOK, ServerOK, Seen
  <2>2. pc[w] = "role" /\ UNCHANGED <<password, rows, born, tainted>>
    BY <1>26 DEF RoleRead, account, tokens
  <2>3. CASE answered
    BY <1>26, <2>1, <2>2, <2>3, Answered, EndedQuiet DEF RoleRead, Refuse, IInv, NoRequest, NothingSeen,
      TypeOK
  <2>4. CASE ~answered
    <3> DEFINE s == [seen[w] EXCEPT !.password = req[w].password]
    <3>1. Moves(w, "roleWrite", req[w], s) /\ brushed \subseteq brushed'
          /\ (req[w].password < password => w \in brushed')
      BY <1>26, <2>4, Continued DEF RoleRead, IInv, TypeOK
    <3>2. s.password = req[w].password /\ req[w].password \in Nat /\ req[w].password <= password
      BY <2>1, <2>2 DEF Asks, IInv, TypeOK, ServerOK, Seen
    <3> HIDE DEF s
    <3>3. \A u \in Worker \ {w} : pc[u] = "resetWrite" => w \in brushed'
      BY <2>1, <2>2, <3>1 DEF Brushes
    <3> QED BY <2>1, <2>2, <3>1, <3>2, <3>3, EndedQuiet DEF IInv
  <2> QED BY <2>3, <2>4
<1>27. ASSUME NEW w \in Worker, RoleWrite(w)  PROVE Ended'
  <2>1. password \in Nat /\ seen[w].password \in Nat /\ seen[w].password <= password /\
    Behind(w) /\ Asks(w) /\ \A u \in Worker : Brushes(u)
    BY DEF IInv, Ended, TypeOK, AccountOK, ServerOK, Seen
  <2>2. pc[w] = "roleWrite" /\ UNCHANGED <<password, rows, born, brushed, tainted>>
    BY <1>27 DEF RoleWrite, tokens, history
  <2>3. Moves(w, "issue", req[w], seen[w])
    BY <1>27, Continued DEF RoleWrite, IInv, TypeOK
  <2>4. \A u \in Worker \ {w} : pc[u] = "resetWrite" => w \in brushed
    BY <2>1, <2>2 DEF Brushes
  <2> QED BY <2>1, <2>2, <2>3, <2>4, EndedQuiet DEF IInv, Behind
<1>28. ASSUME NEW t \in Tab, NEW w \in Worker, AskRole(t, w)  PROVE Ended'
  <2>1. password \in Nat /\ seen[w].password \in Nat /\ seen[w].password <= password /\
    Behind(w) /\ Asks(w) /\ \A u \in Worker : Brushes(u)
    BY DEF IInv, Ended, TypeOK, AccountOK, ServerOK, Seen
  <2>2. brushed \ {w} \subseteq brushed' /\ \A u \in Worker : pc[u] = "resetWrite" =>
    w \in brushed'
    BY <1>28 DEF AskRole, Begin, Resetting
  <2>3. born[mem[t]] \in Nat /\ born[mem[t]] <= password
    BY <1>28 DEF AskRole, IInv, Ended, TypeOK, BrowserOK, HistoryOK
  <2>4. UNCHANGED <<password, rows, born, tainted>>
    BY <1>28 DEF AskRole, account, tokens
  <2> QED BY <1>28, <2>1, <2>2, <2>3, <2>4, Begun, EndedQuiet DEF AskRole, IInv, NothingSeen, TypeOK
<1>29. ASSUME NEW t \in Tab, SetUser(t)  PROVE Ended'
  BY <1>29 DEF IInv, Ended, OldSessionsEnd, Behind, Asks, Brushes, SetUser, account, tokens, server
<1> QED
  BY <1>1, <1>2, <1>3, <1>4, <1>5, <1>6, <1>7, <1>8, <1>9, <1>10, <1>11, <1>12, <1>13, <1>14,
    <1>15, <1>16, <1>17, <1>18, <1>19, <1>20, <1>21, <1>22, <1>23, <1>24, <1>25, <1>26,
    <1>27, <1>28, <1>29 DEF Next, Proceed, RefreshInvalid

-----------------------------------------------------------------------------
(* The theorems *)

\* The invariant holds at first.
LEMMA IInvStarts ==
  Init => IInv
<1> SUFFICES ASSUME Init  PROVE IInv
  OBVIOUS
<1>1. TypeOK
  <2>1. AccountOK /\ TokensOK /\ BrowserOK /\ HistoryOK
    <3>1. AccountOK
      BY DEF Init, AccountOK
    <3>2. TokensOK
      BY DEF Init, TokensOK
    <3>3. BrowserOK
      BY DEF Init, BrowserOK
    <3>4. HistoryOK
      BY DEF Init, HistoryOK
    <3> QED BY <3>1, <3>2, <3>3, <3>4
  <2>2. ServerOK
    BY DEF Init, ServerOK, Request, NoRequest, Seen, NothingSeen
  <2> QED BY <2>1, <2>2 DEF TypeOK
<1>2. Presented
  BY DEF Init, Presented, NoRequest
<1>3. OnceOnly
  BY DEF Init, OnceOnly, RotatedOnce, Holds
<1>4. Guarded
  BY DEF Init, Guarded, SeesVerified, LockIsEarned, NothingSeen
<1>5. Ended
  BY DEF Init, Ended, OldSessionsEnd, Behind, Asks, Brushes, NothingSeen
<1> QED BY <1>1, <1>2, <1>3, <1>4, <1>5 DEF IInv

\* And every step keeps it.
LEMMA IInvKept ==
  IInv /\ [Next]_vars => IInv'
<1>1. ASSUME IInv, Next  PROVE IInv'
  BY <1>1, TypesKept, PresentedKept, OnceOnlyKept, GuardedKept, EndedKept DEF IInv
<1>2. ASSUME IInv, UNCHANGED vars  PROVE IInv'
  <2> USE <1>2 DEF IInv, vars, account, tokens, server, tabs, browser, bounds, history
  <2>1. TypeOK'
    BY DEF TypeOK, AccountOK, TokensOK, ServerOK, BrowserOK, HistoryOK
  <2>2. Presented' /\ OnceOnly'
    BY DEF Presented, OnceOnly, RotatedOnce, Holds
  <2>3. Guarded' /\ Ended'
    BY DEF Guarded, SeesVerified, LockIsEarned, Ended, OldSessionsEnd, Behind, Asks, Brushes
  <2> QED BY <2>1, <2>2, <2>3
<1> QED BY <1>1, <1>2

\* The invariant of the proofs.
THEOREM IInvHolds == Spec => []IInv
  BY IInvStarts, IInvKept, PTL DEF Spec

\* Every variable keeps its type.
THEOREM TypesHold == Spec => []TypeOK
<1>1. IInv => TypeOK
  BY DEF IInv
<1> QED BY <1>1, IInvHolds, PTL

\* consumeRefresh: a refresh token gets one pair, however requests race.
THEOREM TokensRotateOnce == Spec => []RotatedOnce
<1>1. IInv => RotatedOnce
  BY DEF IInv, OnceOnly
<1> QED BY <1>1, IInvHolds, PTL

\* No session is opened unverified, and the account is never locked before
\* MAX_FAILED wrong passwords.
THEOREM SignInStaysGuarded == Spec => []SignInIsGuarded
<1>1. IInv => SignInIsGuarded
  <2> SUFFICES ASSUME IInv  PROVE SignInIsGuarded
    OBVIOUS
  <2>1. TypeOK /\ LockIsEarned
    BY DEF IInv, Guarded
  <2>2. NoSessionUnverified
    <3>1. rows \subseteq 1..issued /\ issued \in Nat /\ (issued > 0 => verified)
      BY DEF IInv, Guarded, TypeOK, TokensOK
    <3>2. \A k \in 1..issued : issued > 0
      BY <3>1
    <3> QED BY <3>1, <3>2 DEF NoSessionUnverified
  <2> QED BY <2>1, <2>2 DEF SignInIsGuarded
<1> QED BY <1>1, IInvHolds, PTL

\* A reset ends every session of the old password that did not run while it
\* did its two writes, and that no open role question revived.
THEOREM ResetsEndSessions == Spec => []OldSessionsEnd
<1>1. IInv => OldSessionsEnd
  BY DEF IInv, Ended
<1> QED BY <1>1, IInvHolds, PTL

-----------------------------------------------------------------------------
(* A browser left alone *)

Alone == ~raced /\ ~clobbered /\ faults = 0 /\ endings = 0

\* The steps of a request that ends every session, and what a tab awaits of
\* one that opens a session.
Ending == {"revoke", "resetRevoke", "resetWrite", "logout"}
SigningIn == {"signIn", "remember", "once"}

\* Every request is a tab's, the one it waits for, and what a refresh presents
\* is live until it is redeemed; it is the tab's own where none is shared.
Attended(w) ==
  pc[w] # "idle" =>
    /\ pc[w] \notin Ending
    /\ req[w].by \in Tab /\ reply[req[w].by] = None
    /\ req[w].token = None => flight[req[w].by] \in SigningIn
    /\ req[w].token # None => flight[req[w].by] = "refresh"
    /\ \A v \in Worker \ {w} : pc[v] # "idle" => req[v].by # req[w].by
    /\ pc[w] \in {"find", "delete"} =>
         req[w].token \in rows /\ (store = None => req[w].token = own[req[w].by])

\* An answer is awaited; a new token is live and in nobody else's hands, and
\* only who signs in is refused.
Awaited(t) ==
  /\ reply[t] # None => flight[t] # "none"
  /\ reply[t] = Refused => flight[t] \in SigningIn
  /\ reply[t] \in Token =>
       /\ reply[t] \in rows /\ reply[t] # store
       /\ \A w \in Worker : req[w].token # reply[t]
       /\ \A u \in Tab : own[u] # reply[t] /\ (u # t => reply[u] # reply[t])

\* A tab without a shared token holds the one it stores for itself, which is
\* live unless the tab is refreshing it.
Separate(t) ==
  /\ own[t] # Cleared
  /\ store = None =>
       /\ own[t] = mem[t]
       /\ own[t] # None => ~kept[t] /\ (flight[t] # "refresh" => own[t] \in rows)
       /\ t \in signedIn => own[t] # None
       /\ \A u \in Tab \ {t} : own[t] # None => own[u] # own[t]

\* One tab refreshes at a time, and when none does the shared token is live.
LeftAlone ==
  /\ \A w \in Worker : Attended(w)
  /\ \A t \in Tab : Awaited(t) /\ Separate(t)
  /\ \A t, u \in Tab : flight[t] = "refresh" /\ flight[u] = "refresh" => t = u
  /\ store # Cleared
  /\ store # None /\ (\A t \in Tab : flight[t] # "refresh") => store \in rows

AloneInv == Alone => LeftAlone

\* A request goes on, and touches no row.
LEMMA ContinueLeavesAlone ==
  ASSUME TypeOK, LeftAlone, NEW w \in Worker, NEW step, NEW s, Moves(w, step, req[w], s),
         pc[w] # "idle", step \notin Ending,
         step \in {"find", "delete"} => pc[w] \in {"find", "delete"},
         UNCHANGED <<rows, reply, flight, tabs, signedIn>>
  PROVE  LeftAlone'
<1>0. UNCHANGED <<store, own, mem, kept>> BY DEF tabs
<1>1. \A v \in Worker : req'[v] = req[v] /\ (pc'[v] # "idle" => pc[v] # "idle") BY DEF Moves
<1>2. ASSUME NEW v \in Worker PROVE Attended(v)'
      <2>1. Attended(v) /\ Attended(w) BY DEF LeftAlone
      <2>2. CASE v = w BY <1>0, <1>1, <2>1, <2>2 DEF Attended, Moves
      <2>3. CASE v # w BY <1>0, <1>1, <2>1, <2>3 DEF Attended, Moves
      <2> QED BY <2>2, <2>3
<1>3. ASSUME NEW t \in Tab PROVE Awaited(t)' /\ Separate(t)'
      <2>1. Awaited(t) /\ Separate(t) BY DEF LeftAlone
      <2> QED BY <1>0, <1>1, <2>1 DEF Awaited, Separate
<1> QED BY <1>0, <1>2, <1>3 DEF LeftAlone

\* Only somebody who signs in is refused.
LEMMA RefusalLeavesAlone ==
  ASSUME TypeOK, LeftAlone, NEW w \in Worker, pc[w] # "idle", req[w].token = None,
         Answer(w, Refused), UNCHANGED <<rows, flight, tabs, signedIn>>
  PROVE  LeftAlone'
<1>0. UNCHANGED <<store, own, mem, kept>> BY DEF tabs
<1>1. /\ req[w].by \in Tab /\ flight[req[w].by] \in SigningIn /\ reply[req[w].by] = None
      /\ \A v \in Worker \ {w} : pc[v] # "idle" => req[v].by # req[w].by
      BY DEF LeftAlone, Attended
<1>2. Moves(w, "idle", NoRequest, NothingSeen) BY Answered DEF TypeOK
<1>3. reply' = [reply EXCEPT ![req[w].by] = Refused] /\ None # Refused /\ Refused \notin Token
      BY <1>1 DEF Answer, Token
<1>4. \A t \in Tab : reply'[t] = IF t = req[w].by THEN Refused ELSE reply[t]
      BY <1>3 DEF TypeOK, BrowserOK
<1>5. ASSUME NEW v \in Worker PROVE Attended(v)'
      <2>1. CASE v = w BY <1>2, <2>1 DEF Attended, Moves
      <2>2. CASE v # w
            <3>1. Attended(v) BY DEF LeftAlone
            <3> QED BY <1>0, <1>1, <1>2, <1>4, <2>2, <3>1 DEF Attended, Moves
      <2> QED BY <2>1, <2>2
<1>6. ASSUME NEW t \in Tab PROVE Awaited(t)'
      <2>1. CASE t = req[w].by BY <1>1, <1>3, <1>4, <2>1 DEF Awaited, SigningIn
      <2>2. CASE t # req[w].by
            <3>1. Awaited(t) BY DEF LeftAlone
            <3>2. \A v \in Worker : req'[v].token \in {None, req[v].token} BY <1>2 DEF Moves, NoRequest
            <3>3. reply[t] \in Token => reply[t] # None BY DEF Token
            <3> QED BY <1>0, <1>3, <1>4, <2>2, <3>1, <3>2, <3>3 DEF Awaited
      <2> QED BY <2>1, <2>2
<1>7. \A t \in Tab : Separate(t)' BY <1>0 DEF LeftAlone, Separate
<1> QED BY <1>0, <1>5, <1>6, <1>7 DEF LeftAlone

\* Redeeming takes the row of the only refresh.
LEMMA DeleteLeavesAlone ==
  ASSUME IInv, LeftAlone, NEW w \in Worker, RefreshDelete(w)
  PROVE  LeftAlone'
<1>1. /\ pc[w] = "delete" /\ req[w].token \in rows /\ req[w].token # None
      /\ req[w].by \in Tab /\ flight[req[w].by] = "refresh"
      /\ store = None => req[w].token = own[req[w].by]
      BY DEF LeftAlone, Attended, RefreshDelete, IInv, TypeOK, ServerOK
<1>2. /\ rows' = rows \ {req[w].token} /\ Continue(w, "account", seen[w])
      /\ UNCHANGED <<reply, flight, store, own, mem, kept, signedIn>>
      BY <1>1 DEF RefreshDelete, tabs
<1>3. Moves(w, "account", req[w], seen[w]) BY <1>2, Continued DEF IInv, TypeOK
<1>4. \A v \in Worker : req'[v] = req[v] /\ (pc'[v] # "idle" => pc[v] # "idle") BY <1>1, <1>3 DEF Moves
<1>5. ASSUME NEW v \in Worker PROVE Attended(v)'
      <2>1. Attended(v) /\ Attended(w) BY DEF LeftAlone
      <2>2. CASE v = w BY <1>1, <1>2, <1>3, <1>4, <2>1, <2>2 DEF Attended, Moves, Ending
      <2>3. CASE v # w
            <3>1. pc[v] \notin {"find", "delete"}
                  <4>1. SUFFICES ASSUME pc[v] \in {"find", "delete"} PROVE FALSE OBVIOUS
                  <4>2. req[v].token # None BY <4>1 DEF IInv, TypeOK, ServerOK
                  <4>3. flight[req[v].by] = "refresh" /\ req[v].by \in Tab /\ req[v].by # req[w].by
                        BY <1>1, <2>1, <2>3, <4>1, <4>2 DEF Attended
                  <4> QED BY <1>1, <4>3 DEF LeftAlone
            <3> QED BY <1>2, <1>3, <1>4, <2>1, <2>3, <3>1 DEF Attended, Moves
      <2> QED BY <2>2, <2>3
<1>6. ASSUME NEW t \in Tab PROVE Awaited(t)'
      <2>1. Awaited(t) BY DEF LeftAlone
      <2> QED BY <1>2, <1>4, <2>1 DEF Awaited
<1>7. ASSUME NEW t \in Tab PROVE Separate(t)'
      <2>1. Separate(t) /\ Separate(req[w].by) BY <1>1 DEF LeftAlone
      <2> QED BY <1>1, <1>2, <2>1 DEF Separate
<1>8. ~(\A t \in Tab : flight'[t] # "refresh") BY <1>1, <1>2
<1> QED BY <1>2, <1>5, <1>6, <1>7, <1>8 DEF LeftAlone

\* A new pair's row is live, and its token nobody's yet.
LEMMA IssueLeavesAlone ==
  ASSUME IInv, LeftAlone, NEW w \in Worker, Issue(w)
  PROVE  LeftAlone'
<1> DEFINE k == issued + 1
<1>1. /\ pc[w] = "issue" /\ req[w].by \in Tab /\ reply[req[w].by] = None
      /\ flight[req[w].by] # "none"
      /\ \A v \in Worker \ {w} : pc[v] # "idle" => req[v].by # req[w].by
      BY DEF LeftAlone, Attended, Issue, SigningIn
<1>2. /\ rows' = rows \union {k} /\ Answer(w, k)
      /\ UNCHANGED <<flight, store, own, mem, kept, signedIn>>
      BY DEF Issue, tabs
<1>3. Moves(w, "idle", NoRequest, NothingSeen) BY <1>2, Answered DEF IInv, TypeOK
<1>4. /\ k \notin 1..issued /\ k \in Token /\ k # None /\ k # Refused /\ k # Cleared
      BY DEF Issue, Token, IInv, TypeOK, TokensOK
<1>5. reply' = [reply EXCEPT ![req[w].by] = k] BY <1>1, <1>2 DEF Answer
<1> HIDE DEF k
<1>6. \A t \in Tab : reply'[t] = IF t = req[w].by THEN k ELSE reply[t]
      BY <1>5 DEF IInv, TypeOK, BrowserOK
<1>7. /\ store # k /\ \A t \in Tab : reply[t] # k /\ own[t] # k
      /\ \A v \in Worker : req[v].token # k /\ req'[v].token # k
      <2>1. /\ store # k /\ \A t \in Tab : reply[t] # k /\ own[t] # k
            /\ \A v \in Worker : req[v].token # k
            BY <1>4 DEF IInv, Presented
      <2> QED BY <1>3, <1>4, <2>1 DEF Moves, NoRequest
<1>8. ASSUME NEW v \in Worker PROVE Attended(v)'
      <2>1. CASE v = w BY <1>3, <2>1 DEF Attended, Moves
      <2>2. CASE v # w
            <3>1. Attended(v) BY DEF LeftAlone
            <3> QED BY <1>1, <1>2, <1>3, <1>6, <2>2, <3>1 DEF Attended, Moves
      <2> QED BY <2>1, <2>2
<1>9. ASSUME NEW t \in Tab PROVE Awaited(t)'
      <2>1. CASE t = req[w].by BY <1>1, <1>2, <1>4, <1>6, <1>7, <2>1 DEF Awaited
      <2>2. CASE t # req[w].by
            <3>1. Awaited(t) BY DEF LeftAlone
            <3>2. \A v \in Worker : req'[v].token \in {None, req[v].token} BY <1>3 DEF Moves, NoRequest
            <3>3. reply[t] \in Token => reply[t] # None BY DEF Token
            <3>4. reply'[t] = reply[t] /\ \A u \in Tab : reply'[u] \in {k, reply[u]} BY <1>6, <2>2
            <3> QED BY <1>2, <1>7, <3>1, <3>2, <3>3, <3>4 DEF Awaited
      <2> QED BY <2>1, <2>2
<1>10. \A t \in Tab : Separate(t)' BY <1>2 DEF LeftAlone, Separate
<1> QED BY <1>2, <1>8, <1>9, <1>10 DEF LeftAlone

\* What a tab would present is live while none refreshes: the shared token, or
\* the tab's own.
LEMMA HydratedIsLive ==
  ASSUME IInv, LeftAlone, NEW t \in Tab, \A u \in Tab : flight[u] # "refresh"
  PROVE  /\ Hydrated(t) # None => Hydrated(t) \in rows
         /\ store # None => Hydrated(t) = store
         /\ store = None => Hydrated(t) = own[t] /\ Hydrated(t) = mem[t]
<1>1. Separate(t) /\ store # Cleared BY DEF LeftAlone
<1>2. CASE store # None BY <1>1, <1>2 DEF LeftAlone, Hydrated, Item
<1>3. CASE store = None BY <1>1, <1>3 DEF Separate, Hydrated, Item
<1> QED BY <1>2, <1>3

\* A tab asks once, and refreshes when no other does.
LEMMA AskLeavesAlone ==
  ASSUME IInv, LeftAlone, NEW w \in Worker, NEW t \in Tab, NEW step, NEW r, NEW f, Begin(w, step, r),
         flight[t] = "none", r.by = t, step \notin Ending \union {"idle"},
         flight' = [flight EXCEPT ![t] = f],
         \/ r.token = None /\ step \notin {"find", "delete"} /\ f \in SigningIn
         \/ /\ r.token = Hydrated(t) /\ Hydrated(t) # None /\ f = "refresh"
            /\ \A u \in Tab : flight[u] # "refresh",
         store = None => UNCHANGED <<mem, kept>>,
         UNCHANGED <<rows, reply, store, own, signedIn>>
  PROVE  LeftAlone'
<1>1. Moves(w, step, r, NothingSeen) /\ pc[w] = "idle" BY Begun DEF Begin, IInv, TypeOK
<1>2. \A u \in Tab : flight'[u] = IF u # t THEN flight[u] ELSE f
      BY DEF IInv, TypeOK, BrowserOK
<1>3. reply[t] = None /\ \A v \in Worker : pc[v] # "idle" => req[v].by # t
      <2>1. reply[t] = None BY DEF LeftAlone, Awaited
      <2>2. ASSUME NEW v \in Worker, pc[v] # "idle" PROVE req[v].by # t
            <3>1. Attended(v) BY DEF LeftAlone
            <3> QED BY <2>2, <3>1 DEF Attended, SigningIn
      <2> QED BY <2>1, <2>2
<1>4. r.token # None =>
        /\ r.token \in rows /\ r.token \in {store, own[t]} /\ f = "refresh"
        /\ store = None => r.token = own[t]
      BY HydratedIsLive
<1>5. ASSUME NEW v \in Worker PROVE Attended(v)'
      <2>1. CASE v = w BY <1>1, <1>2, <1>3, <1>4, <2>1 DEF Attended, Moves, SigningIn
      <2>2. CASE v # w
            <3>1. Attended(v) BY DEF LeftAlone
            <3> QED BY <1>1, <1>2, <1>3, <2>2, <3>1 DEF Attended, Moves
      <2> QED BY <2>1, <2>2
<1>6. ASSUME NEW u \in Tab PROVE Awaited(u)'
      <2>1. Awaited(u) BY DEF LeftAlone
      <2>2. reply[u] \in Token => reply[u] # None BY DEF Token
      <2>3. \A v \in Worker : reply[u] \in Token => req'[v].token # reply[u]
            BY <1>1, <1>4, <2>1, <2>2 DEF Awaited, Moves
      <2> QED BY <1>2, <1>3, <2>1, <2>2, <2>3 DEF Awaited
<1>7. \A u, v \in Tab : flight'[u] = "refresh" /\ flight'[v] = "refresh" => u = v
      BY <1>2 DEF LeftAlone, SigningIn
<1>8. store' # None /\ (\A u \in Tab : flight'[u] # "refresh") => store' \in rows'
      BY <1>2 DEF LeftAlone
<1>9. ASSUME NEW u \in Tab PROVE Separate(u)'
      <2>1. Separate(u) BY DEF LeftAlone
      <2> QED BY <1>2, <2>1 DEF Separate
<1> QED BY <1>5, <1>6, <1>7, <1>8, <1>9 DEF LeftAlone

\* A tab that stores its new token writes over none, so it is the shared one or
\* the tab's own as it was before.
LEMMA StoringLeavesAlone ==
  ASSUME IInv, LeftAlone, NEW t \in Tab, NEW k \in Token, NEW remember \in BOOLEAN,
         Write(t, k, remember), ~clobbered'
  PROVE  /\ store' = IF remember THEN k ELSE None
         /\ \A u \in Tab \ {t} : own'[u] = own[u] /\ mem'[u] = mem[u] /\ kept'[u] = kept[u]
         /\ own'[t] = (IF remember THEN None ELSE k) /\ mem'[t] = k /\ kept'[t] = remember
         /\ ~remember => store = None
<1>1. k # None BY DEF Token
<1>2. store \in Token => remember BY DEF Write
<1>3. store \in Token \union {None}
      BY DEF LeftAlone, IInv, TypeOK, BrowserOK
<1> QED BY <1>1, <1>2, <1>3 DEF Write, IInv, TypeOK, BrowserOK

\* What a tab stores is live.
LEMMA ReceiveLeavesAlone ==
  ASSUME IInv, LeftAlone, NEW t \in Tab, Receive(t), ~clobbered'
  PROVE  LeftAlone'
<1>1. /\ reply[t] # None /\ reply[t] \in Token \union {Refused} /\ Refused \notin Token /\ None \notin Token
      /\ Cleared \notin Token
      BY DEF Receive, IInv, TypeOK, BrowserOK, Token
<1>2. Awaited(t) /\ Separate(t) BY DEF LeftAlone
<1>3. reply[t] = Refused => flight[t] # "refresh" BY <1>2 DEF Awaited, SigningIn
<1>4. UNCHANGED <<pc, req, seen, rows>>
      BY DEF Receive, server, tokens
<1>5. /\ \A u \in Tab : flight'[u] = IF u = t THEN "none" ELSE flight[u]
      /\ \A u \in Tab : reply'[u] = IF u = t THEN None ELSE reply[u]
      BY DEF Receive, IInv, TypeOK, BrowserOK
<1>6. CASE reply[t] = Refused
      <2>1. UNCHANGED <<store, own, mem, kept, signedIn>> BY <1>1, <1>3, <1>6 DEF Receive, tabs
      <2>2. ASSUME NEW v \in Worker PROVE Attended(v)'
            <3>1. Attended(v) BY DEF LeftAlone
            <3>2. pc[v] # "idle" => req[v].by # t BY <1>1, <3>1 DEF Attended
            <3> QED BY <1>4, <1>5, <2>1, <3>1, <3>2 DEF Attended
      <2>3. ASSUME NEW u \in Tab PROVE Awaited(u)' /\ Separate(u)'
            <3>1. Awaited(u) /\ Separate(u) BY DEF LeftAlone
            <3>2. Awaited(u)'
                  <4>1. CASE u = t BY <1>1, <1>5, <4>1 DEF Awaited
                  <4>2. CASE u # t
                        <5>1. reply[u] \in Token => reply[u] # None BY <1>1
                        <5> QED BY <1>4, <1>5, <2>1, <3>1, <4>2, <5>1 DEF Awaited
                  <4> QED BY <4>1, <4>2
            <3>3. Separate(u)' BY <1>2, <1>3, <1>4, <1>5, <1>6, <2>1, <3>1 DEF Separate
            <3> QED BY <3>2, <3>3
      <2>4. (\A u \in Tab : flight'[u] # "refresh") => \A u \in Tab : flight[u] # "refresh"
            BY <1>3, <1>5, <1>6
      <2> QED BY <1>4, <1>5, <2>1, <2>2, <2>3, <2>4 DEF LeftAlone
<1>7. CASE reply[t] \in Token
      <2> DEFINE k == reply[t]
                 remember == flight[t] = "remember" \/ (kept[t] /\ flight[t] # "once")
      <2>1. Write(t, k, remember) /\ signedIn' = signedIn \union {t} BY <1>7 DEF Receive
      <2>2. remember \in BOOLEAN OBVIOUS
      <2>3. /\ k \in rows /\ k # store /\ k \in Token
            /\ \A w \in Worker : req[w].token # k
            /\ \A u \in Tab : own[u] # k /\ (u # t => reply[u] # k)
            BY <1>2, <1>7 DEF Awaited
      <2>4. flight[t] = "refresh" /\ remember => kept[t] OBVIOUS
      <2> HIDE DEF k, remember
      <2>5. /\ store' = IF remember THEN k ELSE None
            /\ \A u \in Tab \ {t} : own'[u] = own[u] /\ mem'[u] = mem[u] /\ kept'[u] = kept[u]
            /\ own'[t] = (IF remember THEN None ELSE k) /\ mem'[t] = k /\ kept'[t] = remember
            /\ ~remember => store = None
            BY <2>1, <2>2, <2>3, StoringLeavesAlone
      <2>6. ASSUME NEW v \in Worker PROVE Attended(v)'
            <3>1. Attended(v) BY DEF LeftAlone
            <3>2. pc[v] # "idle" => req[v].by # t BY <1>1, <3>1 DEF Attended
            <3>3. store' = None => store = None BY <1>1, <2>3, <2>5
            <3> QED BY <1>4, <1>5, <2>5, <3>1, <3>2, <3>3 DEF Attended
      <2>7. ASSUME NEW u \in Tab PROVE Awaited(u)'
            <3>1. CASE u = t BY <1>1, <1>5, <3>1 DEF Awaited
            <3>2. CASE u # t
                  <4>1. Awaited(u) BY DEF LeftAlone
                  <4>2. reply'[u] = reply[u] /\ flight'[u] = flight[u] BY <1>5, <3>2
                  <4>3. reply[u] \in Token =>
                          reply[u] # store' /\ \A v \in Tab : own'[v] # reply[u] /\ (v # u => reply'[v] # reply[u])
                        <5>1. reply[u] # k BY <2>3, <3>2
                        <5> QED BY <1>1, <1>5, <2>5, <4>1, <5>1 DEF Awaited
                  <4> QED BY <1>4, <4>1, <4>2, <4>3 DEF Awaited
            <3> QED BY <3>1, <3>2
      <2>8. ASSUME NEW u \in Tab PROVE Separate(u)'
            <3>1. Separate(u) BY DEF LeftAlone
            <3>2. own'[u] # Cleared BY <1>1, <2>3, <2>5, <3>1 DEF Separate
            <3>3. ASSUME store' = None
                  PROVE  /\ own'[u] = mem'[u]
                         /\ own'[u] # None => ~kept'[u] /\ (flight'[u] # "refresh" => own'[u] \in rows')
                         /\ u \in signedIn' => own'[u] # None
                         /\ \A v \in Tab \ {u} : own'[u] # None => own'[v] # own'[u]
                  <4>1. ~remember /\ store = None /\ k # None BY <1>1, <2>3, <2>5, <3>3
                  <4>2. own'[t] = k /\ mem'[t] = k /\ ~kept'[t] BY <2>5, <4>1
                  <4>3. CASE u = t BY <1>4, <1>5, <2>3, <2>5, <4>1, <4>2, <4>3
                  <4>4. CASE u # t
                        <5>1. own'[u] = own[u] /\ mem'[u] = mem[u] /\ kept'[u] = kept[u] /\ flight'[u] = flight[u]
                              BY <1>5, <2>5, <4>4
                        <5>2. \A v \in Tab \ {u} : own'[u] # None => own'[v] # own'[u]
                              BY <2>3, <2>5, <3>1, <4>1, <4>2, <5>1 DEF Separate
                        <5> QED BY <1>4, <2>1, <3>1, <4>1, <4>4, <5>1, <5>2 DEF Separate
                  <4> QED BY <4>3, <4>4
            <3> QED BY <3>2, <3>3 DEF Separate
      <2>9. store' # Cleared /\ (store' # None => store' \in rows') BY <1>1, <1>4, <2>3, <2>5
      <2>10. \A u, v \in Tab : flight'[u] = "refresh" /\ flight'[v] = "refresh" => u = v
            BY <1>5 DEF LeftAlone
      <2> QED BY <2>6, <2>7, <2>8, <2>9, <2>10 DEF LeftAlone
<1> QED BY <1>1, <1>6, <1>7

\* A tab that reads the storages, or writes back what it holds, changes nothing
\* that is stored but what it stored for itself beside a shared token.
LEMMA TabsLeaveAlone ==
  ASSUME LeftAlone, UNCHANGED <<pc, req, rows, reply, flight, store, signedIn>>,
         store = None => UNCHANGED <<own, mem, kept>>,
         \A t \in Tab : own'[t] \in {None, own[t]}
  PROVE  LeftAlone'
<1>1. ASSUME NEW w \in Worker PROVE Attended(w)'
      <2>1. Attended(w) BY DEF LeftAlone
      <2> QED BY <2>1 DEF Attended
<1>2. ASSUME NEW t \in Tab PROVE Awaited(t)' /\ Separate(t)'
      <2>1. Awaited(t) /\ Separate(t) BY DEF LeftAlone
      <2>2. reply[t] \in Token => reply[t] # None BY DEF Token
      <2>3. Awaited(t)' BY <2>1, <2>2 DEF Awaited
      <2>4. Separate(t)' BY <2>1 DEF Separate
      <2> QED BY <2>3, <2>4
<1> QED BY <1>1, <1>2 DEF LeftAlone

LEMMA RehydrateLeavesAlone ==
  ASSUME IInv, LeftAlone, NEW t \in Tab, Rehydrate(t)
  PROVE  LeftAlone'
<1>1. UNCHANGED <<pc, req, rows, reply, flight, store, own, signedIn>>
      BY DEF Rehydrate, server, tokens, history
<1>2. Separate(t) BY DEF LeftAlone
<1>3. ASSUME store = None PROVE UNCHANGED <<mem, kept>>
      <2>1. own[t] # None /\ own[t] # Cleared /\ mem[t] = own[t] /\ kept[t] = FALSE
            BY <1>2, <1>3 DEF Rehydrate, Item, Separate, IInv, TypeOK, BrowserOK
      <2>2. mem' = [mem EXCEPT ![t] = mem[t]] /\ kept' = [kept EXCEPT ![t] = FALSE]
            BY <1>3, <2>1 DEF Rehydrate, Hydrated, Item
      <2> QED BY <2>1, <2>2 DEF IInv, TypeOK, BrowserOK
<1> QED BY <1>1, <1>3, TabsLeaveAlone

LEMMA SetUserLeavesAlone ==
  ASSUME IInv, LeftAlone, NEW t \in Tab, SetUser(t), ~clobbered'
  PROVE  LeftAlone'
<1>1. UNCHANGED <<pc, req, rows, reply, flight, signedIn>> /\ Write(t, mem[t], kept[t])
      BY DEF SetUser, server, tokens
<1>2. Separate(t) /\ store # Cleared BY DEF LeftAlone
<1>3. mem[t] \in Token /\ mem[t] # None /\ kept[t] \in BOOLEAN /\ store \in Token \union {None}
      BY <1>2 DEF SetUser, IInv, TypeOK, BrowserOK
<1>4. /\ store' = IF kept[t] THEN mem[t] ELSE None
      /\ own' = [own EXCEPT ![t] = IF kept[t] THEN None ELSE mem[t]]
      /\ mem' = [mem EXCEPT ![t] = mem[t]] /\ kept' = [kept EXCEPT ![t] = kept[t]]
      /\ store \in Token => kept[t] /\ mem[t] = store
      BY <1>1, <1>3 DEF Write
<1>5. mem' = mem /\ kept' = kept BY <1>4 DEF IInv, TypeOK, BrowserOK
<1>6. CASE store = None
      <2>1. own[t] = mem[t] /\ ~kept[t] BY <1>2, <1>3, <1>6 DEF Separate
      <2>2. store' = store /\ own' = [own EXCEPT ![t] = own[t]] BY <1>4, <1>6, <2>1
      <2>3. own' = own BY <2>2 DEF IInv, TypeOK, BrowserOK
      <2> QED BY <1>1, <1>5, <2>2, <2>3, TabsLeaveAlone
<1>7. CASE store \in Token
      <2>1. store' = store /\ own' = [own EXCEPT ![t] = None] BY <1>4, <1>7
      <2>2. \A u \in Tab : own'[u] \in {None, own[u]} BY <2>1 DEF IInv, TypeOK, BrowserOK
      <2>3. store # None BY <1>7 DEF Token
      <2> QED BY <1>1, <2>1, <2>2, <2>3, TabsLeaveAlone
<1> QED BY <1>3, <1>6, <1>7

\* Every step of the browser and of its requests leaves it so.
LEMMA AloneKept == ASSUME IInv, AloneInv, [Next]_vars PROVE AloneInv'
<1> SUFFICES ASSUME Alone' PROVE LeftAlone' BY DEF AloneInv
<1>0. TypeOK BY DEF IInv
<1>1. ASSUME NEW w \in Worker, Proceed(w) PROVE LeftAlone'
      <2>1. Alone BY <1>1 DEF Proceed, Alone, bounds, history, RefreshFind, RefreshRevoke, RefreshDelete,
              RefreshAccount, LoginRead, LoginWrong, LoginRight, LoginUnlock, VerifyWrite, RoleRead,
              RoleWrite, ResetRevoke, ResetWrite, Logout, Issue
      <2>2. LeftAlone /\ Attended(w) BY <2>1 DEF AloneInv, LeftAlone
      <2>3. CASE RefreshFind(w)
            <3>1. pc[w] = "find" /\ req[w].token \in rows BY <2>2, <2>3 DEF RefreshFind, Attended
            <3>2. \E s : Continue(w, "delete", s) BY <2>3, <3>1 DEF RefreshFind
            <3>3. UNCHANGED <<rows, reply, flight, tabs, signedIn>>
                  BY <2>3 DEF RefreshFind, tokens, browser, history
            <3>4. PICK s : Moves(w, "delete", req[w], s) BY <1>0, <3>2, Continued DEF TypeOK
            <3>5. "delete" \notin Ending BY DEF Ending
            <3> QED BY <1>0, <2>2, <3>1, <3>3, <3>4, <3>5, ContinueLeavesAlone
      <2>4. CASE RefreshRevoke(w) \/ ResetRevoke(w) \/ ResetWrite(w) \/ Logout(w)
            BY <2>2, <2>4 DEF RefreshRevoke, ResetRevoke, ResetWrite, Logout, Attended, Ending
      <2>5. CASE RefreshDelete(w) BY <2>2, <2>5, DeleteLeavesAlone
      <2>6. CASE Issue(w) BY <2>2, <2>6, IssueLeavesAlone
      <2>7. CASE RefreshAccount(w) \/ LoginUnlock(w) \/ VerifyWrite(w) \/ RoleWrite(w)
            <3>1. pc[w] # "idle" /\ \E s : Continue(w, "issue", s)
                  BY <2>7 DEF RefreshAccount, LoginUnlock, VerifyWrite, RoleWrite
            <3>2. UNCHANGED <<rows, reply, flight, tabs, signedIn>>
                  BY <2>7 DEF RefreshAccount, LoginUnlock, VerifyWrite, RoleWrite, tokens, browser, history
            <3> QED BY <1>0, <2>2, <3>1, <3>2, Continued, ContinueLeavesAlone DEF TypeOK, Ending
      <2>8. CASE LoginRead(w) \/ LoginWrong(w) \/ LoginRight(w) \/ RoleRead(w)
            <3>1. pc[w] \in {"login", "compare", "role"} /\ req[w].token = None
                  BY <2>8 DEF LoginRead, LoginWrong, LoginRight, RoleRead, IInv, Presented
            <3>2. UNCHANGED <<rows, flight, tabs, signedIn>>
                  BY <2>8 DEF LoginRead, LoginWrong, LoginRight, RoleRead, tokens
            <3>3. CASE Answer(w, Refused) BY <1>0, <2>2, <3>1, <3>2, <3>3, RefusalLeavesAlone
            <3>4. CASE reply' = reply /\ \E s : \E step \in {"compare", "unlock", "roleWrite"} : Continue(w, step, s)
                  BY <1>0, <2>2, <3>1, <3>2, <3>4, Continued, ContinueLeavesAlone DEF TypeOK, Ending
            <3> QED BY <2>8, <3>3, <3>4 DEF LoginRead, LoginWrong, LoginRight, RoleRead, Refuse
      <2> QED BY <1>1, <2>3, <2>4, <2>5, <2>6, <2>7, <2>8 DEF Proceed
<1>2. ASSUME NEW w \in Worker, Fail(w) \/ ResetElsewhere(w) \/ LogoutElsewhere(w) PROVE LeftAlone'
      <2>1. faults \in Nat /\ endings \in Nat BY <1>0 DEF TypeOK, HistoryOK
      <2> QED BY <1>2, <2>1 DEF Fail, ResetElsewhere, LogoutElsewhere, Alone
<1>3. ASSUME NEW t \in Tab, SignOut(t) \/ LoseReply(t) PROVE LeftAlone'
      <2>1. faults \in Nat /\ endings \in Nat BY <1>0 DEF TypeOK, HistoryOK
      <2>2. CASE SignOut(t)
            <3>1. endings' = endings + 1 BY <2>2 DEF SignOut
            <3> QED BY <2>1, <3>1 DEF Alone
      <2>3. CASE LoseReply(t) BY <2>1, <2>3 DEF LoseReply, Alone
      <2> QED BY <1>3, <2>2, <2>3
<1>4. ASSUME NEW t \in Tab, NEW w \in Worker, AskRefresh(t, w) PROVE LeftAlone'
      <2>1. Alone /\ \A u \in Tab : flight[u] # "refresh" BY <1>4 DEF AskRefresh, Alone, bounds
      <2>2. LeftAlone BY <2>1 DEF AloneInv
      <2> DEFINE r == [by |-> t, token |-> Hydrated(t), password |-> None]
      <2>3. r.by = t /\ r.token = Hydrated(t) OBVIOUS
      <2>4. /\ Begin(w, "find", r) /\ flight[t] = "none" /\ Hydrated(t) # None
            /\ flight' = [flight EXCEPT ![t] = "refresh"]
            /\ mem' = [mem EXCEPT ![t] = Hydrated(t)]
            /\ kept' = [kept EXCEPT ![t] = IF Item(t) = None THEN kept[t] ELSE store # None]
            /\ UNCHANGED <<rows, reply, store, own, signedIn>>
            BY <1>4 DEF AskRefresh, Stored, tokens
      <2> HIDE DEF r
      <2>5. ASSUME store = None PROVE UNCHANGED <<mem, kept>>
            <3>1. Hydrated(t) = own[t] /\ Hydrated(t) = mem[t] BY <2>1, <2>2, <2>5, HydratedIsLive
            <3>2. kept[t] = FALSE BY <2>2, <2>4, <2>5, <3>1 DEF LeftAlone, Separate, IInv, TypeOK, BrowserOK
            <3>3. mem' = [mem EXCEPT ![t] = mem[t]] /\ kept' = [kept EXCEPT ![t] = kept[t]]
                  BY <2>4, <2>5, <3>1, <3>2 DEF Item
            <3> QED BY <3>3 DEF IInv, TypeOK, BrowserOK
      <2> QED BY <2>1, <2>2, <2>3, <2>4, <2>5, AskLeavesAlone DEF Ending
<1>5. ASSUME NEW t \in Tab, NEW w \in Worker,
             \/ AskVerify(t, w) \/ AskRole(t, w)
             \/ \E right \in BOOLEAN, how \in {"remember", "once"} : AskLogin(t, w, right, how)
      PROVE  LeftAlone'
      <2>1. UNCHANGED <<raced, clobbered, faults, endings>>
            BY <1>5 DEF AskVerify, AskRole, AskLogin, bounds
      <2>2. LeftAlone BY <2>1 DEF AloneInv, Alone
      <2>3. /\ \E p, step, f : /\ step \in {"verify", "role", "login"} /\ f \in SigningIn
                               /\ Begin(w, step, [by |-> t, token |-> None, password |-> p])
                               /\ flight' = [flight EXCEPT ![t] = f]
            /\ flight[t] = "none" /\ UNCHANGED <<rows, reply, tabs, signedIn>>
            BY <1>5 DEF AskVerify, AskRole, AskLogin, tokens, SigningIn
      <2>4. PICK p, step, f : /\ step \in {"verify", "role", "login"} /\ f \in SigningIn
                              /\ Begin(w, step, [by |-> t, token |-> None, password |-> p])
                              /\ flight' = [flight EXCEPT ![t] = f]
            BY <2>3
      <2> DEFINE r == [by |-> t, token |-> None, password |-> p]
      <2>5. r.by = t /\ r.token = None /\ Begin(w, step, r) BY <2>4
      <2> HIDE DEF r
      <2> QED BY <2>2, <2>3, <2>4, <2>5, AskLeavesAlone DEF Ending, tabs
<1>6. ASSUME NEW t \in Tab, Receive(t) \/ SetUser(t) PROVE LeftAlone'
      <2>1. ~clobbered' BY DEF Alone
      <2>2. Alone
            <3>1. UNCHANGED <<raced, faults, endings>> BY <1>6 DEF Receive, SetUser, bounds
            <3>2. clobbered => clobbered' BY <1>6 DEF Receive, SetUser, Write
            <3> QED BY <3>1, <3>2 DEF Alone
      <2> QED BY <1>6, <2>1, <2>2, ReceiveLeavesAlone, SetUserLeavesAlone DEF AloneInv
<1>7. ASSUME NEW t \in Tab, Rehydrate(t) PROVE LeftAlone'
      <2>1. Alone BY <1>7 DEF Rehydrate, Alone, bounds, history
      <2> QED BY <1>7, <2>1, RehydrateLeavesAlone DEF AloneInv
<1>8. CASE LockElapses \/ UNCHANGED vars
      <2>1. /\ UNCHANGED <<pc, req, rows, reply, flight, store, own, mem, kept, signedIn>>
            /\ UNCHANGED <<raced, clobbered, faults, endings>>
            BY <1>8 DEF LockElapses, vars, account, tokens, server, tabs, browser, bounds, history
      <2>2. LeftAlone BY <2>1 DEF AloneInv, Alone
      <2> QED BY <2>1, <2>2, TabsLeaveAlone
<1> QED BY <1>1, <1>2, <1>3, <1>4, <1>5, <1>6, <1>7, <1>8 DEF Next, RefreshInvalid

\* While no two tabs refresh at one time, no tab writes over a token it has not
\* read and nothing is lost or ended, every tab that has signed in keeps a live
\* session.
THEOREM LoneBrowserStaysSignedIn == Spec => []KeptWhileAlone
<1>1. Init => AloneInv
      <2> SUFFICES ASSUME Init PROVE LeftAlone BY DEF AloneInv
      <2>1. None # Refused /\ None \notin Token /\ None # Cleared BY DEF Token
      <2> QED BY <2>1 DEF Init, LeftAlone, Attended, Awaited, Separate
<1>2. IInv /\ AloneInv /\ [Next]_vars => AloneInv' BY AloneKept
<1>3. IInv /\ AloneInv => KeptWhileAlone
      <2> SUFFICES ASSUME IInv, LeftAlone, Alone, \A u \in Tab : flight[u] = "none", NEW t \in Tab
                   PROVE  Hydrated(t) \in rows \/ (Hydrated(t) = None /\ t \notin signedIn)
          BY DEF AloneInv, Alone, KeptWhileAlone
      <2>1. Hydrated(t) # None => Hydrated(t) \in rows BY HydratedIsLive
      <2>2. ASSUME Hydrated(t) = None PROVE t \notin signedIn
            <3>1. store = None /\ own[t] = None BY <2>2, HydratedIsLive
            <3> QED BY <3>1 DEF LeftAlone, Separate
      <2> QED BY <2>1, <2>2
<1> QED BY <1>1, <1>2, <1>3, IInvHolds, PTL DEF Spec
=============================================================================
