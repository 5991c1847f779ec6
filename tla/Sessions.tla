------------------------------ MODULE Sessions ------------------------------
(***************************************************************************)
(* One account's sessions: sign-in with a password or a code, the rotation *)
(* of refresh tokens, the password reset and the failed-login lock of the  *)
(* API, and the browser's tabs, which refresh on their own.  With Remember *)
(* me they share one stored token, without it each tab stores its own.     *)
(*                                                                         *)
(* Each statement on the database is a step of its own; bcrypt and the     *)
(* network lie between them.  A refresh token is the number of its row.    *)
(* Which codes are accepted is not decided here: a request that presents   *)
(* one starts after checkCode.  Nothing in the code disables an account,   *)
(* so it is active throughout.                                             *)
(***************************************************************************)
EXTENDS Integers, FiniteSets

CONSTANTS
  Worker, Tab, None,
  Refused,        \* the answer of a refused request
  Cleared,        \* what a browser that was signed out stores
  MaxFailed,      \* MAX_FAILED wrong passwords lock the account
  MaxIssue,       \* bound on the tokens issued
  MaxGuess,       \* bound on the wrong passwords: none is typed after as many
  MaxSlip         \* bound on the resets, sign-outs and lost requests together

ASSUME SessionsAssumption ==
  /\ None \notin Worker \union Tab \union Nat \union {Refused, Cleared}
  /\ Refused \notin Nat /\ Cleared \notin Nat
  /\ MaxFailed \in Nat \ {0} /\ MaxIssue \in Nat /\ MaxGuess \in Nat
  /\ MaxSlip \in Nat

Token == 1..MaxIssue

VARIABLES
  verified,      \* the account's email or phone is verified
  password,      \* the password's version; a reset sets the next one
  failed,        \* User.failedLogins
  locked,        \* User.lockedUntil is in the future
  answered,      \* User.roleConfirmed: the role question is answered
  rows,          \* the RefreshToken rows
  issued,        \* the tokens issued so far
  pc, req, seen, \* the requests the API is serving
  store,         \* the refresh token in localStorage, which the tabs share
  own,           \* own[t]: the one in the tab's sessionStorage
  mem,           \* mem[t]: the refresh token in the memory of a tab
  kept,          \* kept[t]: remember, which says where the tab writes
  flight,        \* flight[t]: what the tab waits for
  reply,         \* reply[t]: the answer on its way to the tab
  endings, guesses, faults,
  heirs,         \* history: how many tokens were issued for a token
  born,          \* history: the password a token's session was opened with
  brushed,       \* history: requests that ran while a reset did its writes, or
                 \*   answer the role question on an older access token
  tainted,       \* history: tokens issued by these, or for one of those
  signedIn,      \* history: the tabs that have signed in
  raced,         \* history: two tabs refreshed at one time
  clobbered      \* history: a tab wrote over a token it had not read

account == <<verified, password, failed, locked, answered>>
tokens  == <<rows, issued>>
server  == <<pc, req, seen>>
tabs    == <<store, own, mem, kept>>
browser == <<tabs, flight, reply>>
bounds  == <<endings, guesses, faults>>
history == <<heirs, born, brushed, tainted, signedIn, raced, clobbered>>
vars    == <<account, tokens, server, browser, bounds, history>>

\* A request: who asked, with which refresh token or password.
Request == [by : Tab \union {None}, token : Token \union {None}, password : Nat \union {None}]
NoRequest == [by |-> None, token |-> None, password |-> None]
\* What it has read: the account before bcrypt, and the session it extends.
Seen == [failed : Nat, verified : BOOLEAN, password : Nat]
NothingSeen == [failed |-> 0, verified |-> FALSE, password |-> 0]

AccountOK ==
  /\ verified \in BOOLEAN /\ locked \in BOOLEAN /\ answered \in BOOLEAN
  /\ password \in Nat /\ failed \in Nat

TokensOK == issued \in 0..MaxIssue /\ rows \subseteq 1..issued

ServerOK ==
  /\ pc \in [Worker -> {"idle", "find", "revoke", "delete", "account", "login", "compare",
                        "unlock", "verify", "role", "roleWrite", "resetRevoke", "resetWrite",
                        "logout", "issue"}]
  /\ req \in [Worker -> Request] /\ seen \in [Worker -> Seen]
  /\ \A w \in Worker :
       /\ pc[w] = "idle" => req[w] = NoRequest
       /\ pc[w] \in {"find", "revoke", "delete", "account"} => req[w].token # None

BrowserOK ==
  /\ store \in Token \union {None, Cleared} /\ own \in [Tab -> Token \union {None, Cleared}]
  /\ mem \in [Tab -> Token \union {None}] /\ kept \in [Tab -> BOOLEAN]
  /\ flight \in [Tab -> {"none", "refresh", "signIn", "remember", "once"}]
  /\ reply \in [Tab -> Token \union {None, Refused}]

HistoryOK ==
  /\ endings \in Nat /\ guesses \in Nat /\ faults \in Nat
  /\ heirs \in [Token -> Nat] /\ born \in [Token -> Nat]
  /\ brushed \subseteq Worker /\ tainted \subseteq Token
  /\ signedIn \subseteq Tab /\ raced \in BOOLEAN /\ clobbered \in BOOLEAN

TypeOK == AccountOK /\ TokensOK /\ ServerOK /\ BrowserOK /\ HistoryOK

Init ==
  /\ verified = FALSE /\ locked = FALSE /\ password = 1 /\ failed = 0 /\ answered \in BOOLEAN
  /\ rows = {} /\ issued = 0
  /\ pc = [w \in Worker |-> "idle"] /\ req = [w \in Worker |-> NoRequest]
  /\ seen = [w \in Worker |-> NothingSeen]
  /\ store = None /\ own = [t \in Tab |-> None]
  /\ mem = [t \in Tab |-> None] /\ kept = [t \in Tab |-> TRUE]
  /\ flight = [t \in Tab |-> "none"] /\ reply = [t \in Tab |-> None]
  /\ endings = 0 /\ guesses = 0 /\ faults = 0
  /\ heirs = [k \in Token |-> 0] /\ born = [k \in Token |-> 0]
  /\ brushed = {} /\ tainted = {} /\ signedIn = {} /\ raced = FALSE /\ clobbered = FALSE

-----------------------------------------------------------------------------
(* The requests *)

Busy == {w \in Worker : pc[w] # "idle"}
Resetting == \E w \in Worker : pc[w] = "resetWrite"

Begin(w, step, r) ==
  /\ pc[w] = "idle" /\ issued + Cardinality(Busy) < MaxIssue
  /\ pc' = [pc EXCEPT ![w] = step]
  /\ req' = [req EXCEPT ![w] = r]
  /\ seen' = [seen EXCEPT ![w] = NothingSeen]
  /\ brushed' = IF Resetting THEN brushed \union {w} ELSE brushed

Continue(w, step, s) ==
  /\ pc' = [pc EXCEPT ![w] = step]
  /\ seen' = [seen EXCEPT ![w] = s]
  /\ UNCHANGED req

\* The answer goes to the tab that asked, if one did.
Answer(w, a) ==
  /\ pc' = [pc EXCEPT ![w] = "idle"]
  /\ req' = [req EXCEPT ![w] = NoRequest]
  /\ seen' = [seen EXCEPT ![w] = NothingSeen]
  /\ reply' = IF req[w].by = None THEN reply ELSE [reply EXCEPT ![req[w].by] = a]

Refuse(w) == Answer(w, Refused) /\ brushed' = brushed \ {w}

\* TokenService.issue: the row of a new pair is created, then it is sent.
Issue(w) ==
  LET k == issued + 1 IN
  /\ pc[w] = "issue" /\ issued < MaxIssue
  /\ issued' = k
  /\ rows' = rows \union {k}
  /\ Answer(w, k)
  /\ heirs' = IF req[w].token = None THEN heirs ELSE [heirs EXCEPT ![req[w].token] = @ + 1]
  /\ born' = [born EXCEPT ![k] = seen[w].password]
  /\ tainted' = IF w \in brushed \/ req[w].token \in tainted THEN tainted \union {k} ELSE tainted
  /\ brushed' = brushed \ {w}
  /\ UNCHANGED <<account, tabs, flight, bounds, signedIn, raced, clobbered>>

-----------------------------------------------------------------------------
(* AuthService.refresh and TokenService.consumeRefresh *)

\* A token whose signature or date is wrong is refused at once.
RefreshInvalid == UNCHANGED vars

RefreshFind(w) ==
  /\ pc[w] = "find"
  /\ Continue(w, IF req[w].token \in rows THEN "delete" ELSE "revoke",
              [seen[w] EXCEPT !.password = born[req[w].token]])
  /\ UNCHANGED <<account, tokens, browser, bounds, history>>

\* The row is gone, so the token was used before: every session is revoked.
RefreshRevoke(w) ==
  /\ pc[w] = "revoke"
  /\ rows' = {}
  /\ Refuse(w)
  /\ UNCHANGED <<account, issued, tabs, flight, bounds, heirs, born, tainted, signedIn, raced, clobbered>>

\* Mutant: whoever has found the row goes on.
RefreshDeleteAny(w) ==
  /\ pc[w] = "delete"
  /\ rows' = rows \ {req[w].token}
  /\ Continue(w, "account", seen[w])
  /\ UNCHANGED <<account, issued, browser, bounds, history>>

\* "Two requests racing with the same token: only one delete wins."
RefreshDelete(w) ==
  /\ pc[w] = "delete"
  /\ rows' = rows \ {req[w].token}
  /\ IF req[w].token \in rows
       THEN Continue(w, "account", seen[w]) /\ UNCHANGED <<reply, brushed>>
       ELSE Refuse(w)
  /\ UNCHANGED <<account, issued, tabs, flight, bounds, heirs, born, tainted, signedIn, raced, clobbered>>

\* The account is read rather than the token's copy of it trusted.
RefreshAccount(w) ==
  /\ pc[w] = "account"
  /\ Continue(w, "issue", seen[w])
  /\ UNCHANGED <<account, tokens, browser, bounds, history>>

-----------------------------------------------------------------------------
(* AuthService.login *)

LoginRead(w) ==
  /\ pc[w] = "login"
  /\ IF locked
       THEN Refuse(w)
       ELSE /\ Continue(w, "compare", [failed |-> failed, verified |-> verified, password |-> password])
            /\ UNCHANGED <<reply, brushed>>
  /\ UNCHANGED <<account, tokens, tabs, flight, bounds, heirs, born, tainted, signedIn, raced, clobbered>>

\* The count and the lock are written from what was read before bcrypt.
LoginWrong(w) ==
  /\ pc[w] = "compare" /\ req[w].password # seen[w].password
  /\ failed' = seen[w].failed + 1
  /\ locked' = (seen[w].failed + 1 >= MaxFailed)
  /\ guesses' = guesses + 1
  /\ Refuse(w)
  /\ UNCHANGED <<verified, password, answered, tokens, tabs, flight, endings, faults, heirs, born, tainted, signedIn, raced, clobbered>>

\* Mutant: an unverified account is signed in.
LoginRightUnverified(w) ==
  /\ pc[w] = "compare" /\ req[w].password = seen[w].password
  /\ Continue(w, "unlock", seen[w]) /\ UNCHANGED <<reply, brushed>>
  /\ UNCHANGED <<account, tokens, tabs, flight, bounds, heirs, born, tainted, signedIn, raced, clobbered>>

\* An unverified account is sent a code instead of a session.
LoginRight(w) ==
  /\ pc[w] = "compare" /\ req[w].password = seen[w].password
  /\ IF seen[w].verified
       THEN Continue(w, "unlock", seen[w]) /\ UNCHANGED <<reply, brushed>>
       ELSE Refuse(w)
  /\ UNCHANGED <<account, tokens, tabs, flight, bounds, heirs, born, tainted, signedIn, raced, clobbered>>

LoginUnlock(w) ==
  /\ pc[w] = "unlock"
  /\ failed' = 0 /\ locked' = FALSE
  /\ Continue(w, "issue", seen[w])
  /\ UNCHANGED <<verified, password, answered, tokens, browser, bounds, history>>

\* Fifteen minutes later.  failedLogins stays where it was.
LockElapses ==
  /\ locked
  /\ locked' = FALSE
  /\ UNCHANGED <<verified, password, failed, answered, tokens, server, browser, bounds, history>>

-----------------------------------------------------------------------------
(* EmailVerificationService: verify and resetPassword, after checkCode *)

VerifyWrite(w) ==
  /\ pc[w] = "verify"
  /\ verified' = TRUE /\ failed' = 0 /\ locked' = FALSE
  /\ Continue(w, "issue", [seen[w] EXCEPT !.password = password])
  /\ UNCHANGED <<password, answered, tokens, browser, bounds, history>>

\* Mutant: the sessions are left alone.
ResetRevokeNone(w) ==
  /\ pc[w] = "resetRevoke"
  /\ Continue(w, "resetWrite", seen[w])
  /\ brushed' = brushed \union (Busy \ {w})
  /\ UNCHANGED <<account, tokens, browser, bounds, heirs, born, tainted, signedIn, raced, clobbered>>

\* "Every other session is ended", and then the new password is hashed.
ResetRevoke(w) ==
  /\ pc[w] = "resetRevoke"
  /\ rows' = {}
  /\ Continue(w, "resetWrite", seen[w])
  /\ brushed' = brushed \union (Busy \ {w})
  /\ UNCHANGED <<account, issued, browser, bounds, heirs, born, tainted, signedIn, raced, clobbered>>

ResetWrite(w) ==
  /\ pc[w] = "resetWrite"
  /\ password' = password + 1 /\ verified' = TRUE
  /\ failed' = 0 /\ locked' = FALSE
  /\ Continue(w, "issue", [seen[w] EXCEPT !.password = password + 1])
  /\ UNCHANGED <<answered, tokens, browser, bounds, history>>

\* AuthService.logout.  The access token's blacklisting is not modelled.
Logout(w) ==
  /\ pc[w] = "logout"
  /\ rows' = {}
  /\ Refuse(w)
  /\ UNCHANGED <<account, issued, tabs, flight, bounds, heirs, born, tainted, signedIn, raced, clobbered>>

-----------------------------------------------------------------------------
(* AuthService.selectRole, for whoever holds an access token: it asks for no *)
(* refresh token, and a reset ends none of the access tokens.                *)

RoleRead(w) ==
  /\ pc[w] = "role"
  /\ IF answered
       THEN Refuse(w)
       ELSE /\ Continue(w, "roleWrite", [seen[w] EXCEPT !.password = req[w].password])
            /\ brushed' = IF req[w].password < password THEN brushed \union {w} ELSE brushed
            /\ UNCHANGED reply
  /\ UNCHANGED <<account, tokens, tabs, flight, bounds, heirs, born, tainted, signedIn, raced, clobbered>>

\* "Hand back a fresh pair"; what the answer writes otherwise is in Membership.
RoleWrite(w) ==
  /\ pc[w] = "roleWrite"
  /\ answered' = TRUE
  /\ Continue(w, "issue", seen[w])
  /\ UNCHANGED <<verified, password, failed, locked, tokens, browser, bounds, history>>

-----------------------------------------------------------------------------
(* The browser *)

\* getItem looks in localStorage and then in sessionStorage.  A rehydration
\* that finds nothing leaves the tab as it was.
Item(t) == IF store # None THEN store ELSE own[t]
Hydrated(t) == IF Item(t) = None THEN mem[t] ELSE IF Item(t) = Cleared THEN None ELSE Item(t)

\* A set of the tab's state, which persist writes whole to one of the storages
\* while it empties the other.
Write(t, k, remember) ==
  LET item == IF k = None THEN Cleared ELSE k IN
  /\ mem' = [mem EXCEPT ![t] = k] /\ kept' = [kept EXCEPT ![t] = remember]
  /\ store' = IF remember THEN item ELSE None
  /\ own' = [own EXCEPT ![t] = IF remember THEN None ELSE item]
  /\ clobbered' = (clobbered \/ (store \in Token /\ ~(remember /\ mem[t] = store)))

\* Mutant: doRefresh trusts the memory of its tab.
StoredInMemory(t) == mem[t]
\* doRefresh rehydrates first: "another tab may have rotated the token".
Stored(t) == Hydrated(t)

\* An access token was refused; refreshOnce and the store keep one refresh in
\* flight per tab.
AskRefresh(t, w) ==
  LET k == Stored(t) IN
  /\ flight[t] = "none" /\ k # None
  /\ Begin(w, "find", [by |-> t, token |-> k, password |-> None])
  /\ flight' = [flight EXCEPT ![t] = "refresh"]
  /\ mem' = [mem EXCEPT ![t] = k]
  /\ kept' = [kept EXCEPT ![t] = IF Item(t) = None THEN @ ELSE store # None]
  /\ raced' = (raced \/ \E u \in Tab : flight[u] = "refresh")
  /\ UNCHANGED <<account, tokens, store, own, reply, bounds, heirs, born, tainted, signedIn, clobbered>>

\* Signing in with the password, the right one or a wrong one, with Remember
\* me or for once.
AskLogin(t, w, right, how) ==
  /\ flight[t] = "none" /\ Hydrated(t) = None
  /\ right \/ guesses < MaxGuess
  /\ Begin(w, "login", [by |-> t, token |-> None, password |-> IF right THEN password ELSE 0])
  /\ flight' = [flight EXCEPT ![t] = how]
  /\ UNCHANGED <<account, tokens, tabs, reply, bounds, heirs, born, tainted, signedIn, raced, clobbered>>

\* Signing in with a code that was just accepted.
AskVerify(t, w) ==
  /\ flight[t] = "none" /\ Hydrated(t) = None
  /\ Begin(w, "verify", [by |-> t, token |-> None, password |-> None])
  /\ flight' = [flight EXCEPT ![t] = "signIn"]
  /\ UNCHANGED <<account, tokens, tabs, reply, bounds, heirs, born, tainted, signedIn, raced, clobbered>>

\* "How will you use Kidora?", with the access token of the tab's pair.
AskRole(t, w) ==
  /\ flight[t] = "none" /\ mem[t] # None
  /\ Begin(w, "role", [by |-> t, token |-> None, password |-> born[mem[t]]])
  /\ flight' = [flight EXCEPT ![t] = "signIn"]
  /\ UNCHANGED <<account, tokens, tabs, reply, bounds, heirs, born, tainted, signedIn, raced, clobbered>>

\* Another device resets the password, or ends every session.
ResetElsewhere(w) ==
  /\ endings + faults < MaxSlip /\ endings' = endings + 1
  /\ Begin(w, "resetRevoke", NoRequest)
  /\ UNCHANGED <<account, tokens, browser, guesses, faults, heirs, born, tainted, signedIn, raced, clobbered>>

LogoutElsewhere(w) ==
  /\ endings + faults < MaxSlip /\ endings' = endings + 1
  /\ Begin(w, "logout", NoRequest)
  /\ UNCHANGED <<account, tokens, browser, guesses, faults, heirs, born, tainted, signedIn, raced, clobbered>>

\* The store's setSession, or doRefresh's set.  A sign-in that is refused sets
\* nothing, a refused refresh signs the tab out.
Receive(t) ==
  /\ reply[t] # None
  /\ flight' = [flight EXCEPT ![t] = "none"]
  /\ reply' = [reply EXCEPT ![t] = None]
  /\ IF reply[t] \in Token
       THEN Write(t, reply[t], flight[t] = "remember" \/ (kept[t] /\ flight[t] # "once"))
       ELSE IF flight[t] = "refresh"
              THEN Write(t, None, kept[t])
              ELSE UNCHANGED <<tabs, clobbered>>
  /\ signedIn' = IF reply[t] \in Token THEN signedIn \union {t} ELSE signedIn
  /\ UNCHANGED <<account, tokens, server, bounds, heirs, born, brushed, tainted, raced>>

\* Keep tabs in step: the storage event of another tab's write.
Rehydrate(t) ==
  /\ Item(t) # None
  /\ mem' = [mem EXCEPT ![t] = Hydrated(t)]
  /\ kept' = [kept EXCEPT ![t] = (store # None)]
  /\ UNCHANGED <<account, tokens, server, store, own, flight, reply, bounds, history>>

\* Any other set of a signed-in tab, after a request for the user: it writes
\* back the token the tab holds, even when the storage has a newer one.
SetUser(t) ==
  /\ mem[t] # None
  /\ Write(t, mem[t], kept[t])
  /\ UNCHANGED <<account, tokens, server, flight, reply, bounds, heirs, born, brushed, tainted,
                 signedIn, raced>>

\* The store's logout: nothing is sent, and a refresh in flight goes on.
SignOut(t) ==
  /\ endings + faults < MaxSlip /\ endings' = endings + 1
  /\ Write(t, None, TRUE)
  /\ UNCHANGED <<account, tokens, server, flight, reply, guesses, faults, heirs, born, brushed,
                 tainted, signedIn, raced>>

\* An answer does not arrive: the client takes it for a refusal.
LoseReply(t) ==
  /\ reply[t] \in Token /\ endings + faults < MaxSlip
  /\ faults' = faults + 1
  /\ reply' = [reply EXCEPT ![t] = Refused]
  /\ UNCHANGED <<account, tokens, server, tabs, flight, endings, guesses, history>>

\* A request ends in an error between two of its statements.
Fail(w) ==
  /\ pc[w] # "idle" /\ endings + faults < MaxSlip
  /\ faults' = faults + 1
  /\ Refuse(w)
  /\ UNCHANGED <<account, tokens, tabs, flight, endings, guesses, heirs, born, tainted, signedIn, raced, clobbered>>

Proceed(w) ==
  \/ RefreshFind(w) \/ RefreshRevoke(w) \/ RefreshDelete(w) \/ RefreshAccount(w)
  \/ LoginRead(w) \/ LoginWrong(w) \/ LoginRight(w) \/ LoginUnlock(w)
  \/ VerifyWrite(w) \/ RoleRead(w) \/ RoleWrite(w) \/ ResetRevoke(w) \/ ResetWrite(w) \/ Logout(w) \/ Issue(w)

Next ==
  \/ \E w \in Worker : Proceed(w) \/ Fail(w) \/ ResetElsewhere(w) \/ LogoutElsewhere(w)
  \/ \E t \in Tab, w \in Worker :
       \/ AskRefresh(t, w) \/ AskVerify(t, w) \/ AskRole(t, w)
       \/ \E right \in BOOLEAN, how \in {"remember", "once"} : AskLogin(t, w, right, how)
  \/ \E t \in Tab : Receive(t) \/ Rehydrate(t) \/ SetUser(t) \/ SignOut(t) \/ LoseReply(t)
  \/ LockElapses \/ RefreshInvalid

Spec == Init /\ [][Next]_vars

-----------------------------------------------------------------------------
(* Properties *)

\* consumeRefresh: "redeems a refresh token exactly once": however requests
\* race, replay or fail, a token never gets a second pair.
RotatedOnce == \A k \in Token : heirs[k] <= 1

\* EmailVerification: "no session is issued until the code comes back".
NoSessionUnverified == rows # {} => verified

\* auth.store: single-flight per tab, and reading the storage before each
\* refresh, are enough: while no two tabs refresh at one time, no tab writes
\* over a stored token it has not read and nothing is lost or ended, every tab
\* that has signed in keeps a live session, and no tab would present a token
\* that is not.
KeptWhileAlone ==
  ~raced /\ ~clobbered /\ faults = 0 /\ endings = 0 /\ (\A t \in Tab : flight[t] = "none")
    => \A t \in Tab : Hydrated(t) \in rows \/ (Hydrated(t) = None /\ t \notin signedIn)

\* resetPassword: "every other session is ended - whoever had the old password
\* is signed out", except where a request ran while the reset did its two
\* writes, where an open role question gave an older access token a new pair,
\* and what those sessions are rotated to.
OldSessionsEnd == \A k \in rows : born[k] < password => k \in tainted

\* The account is never locked with fewer wrong passwords than MAX_FAILED,
\* though counts are written from what was read before.
LockIsEarned == locked => guesses >= MaxFailed

\* What stands between a visitor and a session, over well-formed requests.
SignInIsGuarded == TypeOK /\ NoSessionUnverified /\ LockIsEarned
=============================================================================
