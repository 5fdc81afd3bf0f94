------------------------------ MODULE Sessions ------------------------------
(***************************************************************************)
(* Accounts and refresh sessions of the API: auth.service.ts, the password *)
(* change of user.service.ts, the activation switch of admin.service.ts    *)
(* and the middleware that guards them.                                     *)
(*                                                                         *)
(* A request is a process that keeps, between two awaits, what it has      *)
(* read; each action is one statement of the database.  A transaction runs *)
(* at READ COMMITTED: each of its statements has a snapshot of its own,    *)
(* nothing of it is visible before it commits, and a statement that needs  *)
(* a row another transaction holds waits: it is not enabled.               *)
(* A password is a version number: who knows the current one may log in.   *)
(***************************************************************************)
EXTENDS Naturals, FiniteSets

CONSTANTS
    Accounts,     \* the e-mail addresses
    Admins,       \* those whose role is ADMIN; a role never changes
    TokenIds,     \* the refresh tokens that may be issued
    ResetIds,     \* the password reset tokens that may be issued
    Expiring,     \* the tokens of both kinds old enough to expire
    Requests,     \* the requests the server handles at a time
    MaxPassword,  \* bound: how often one password may be changed
    MaxTries,     \* runSerializable's attempts
    None

ASSUME SessionsAssumption ==
    /\ Admins \subseteq Accounts
    /\ Admins # {}
    /\ Expiring \subseteq TokenIds \cup ResetIds
    /\ MaxPassword \in Nat
    /\ MaxTries \in Nat \ {0}
    /\ None \notin Accounts \cup TokenIds \cup ResetIds \cup Nat

VARIABLES
    account,  \* the User rows: is it active, which password; None before it registers
    token,    \* the RefreshToken rows; user = None marks an id not issued yet
    reset,    \* the PasswordResetToken rows, likewise
    expired,  \* the tokens whose expiry date has passed
    req       \* what each request has read and does next

sessionVars == <<account, token, reset, expired, req>>

Account == [active : BOOLEAN, pw : 0..MaxPassword]

\* The mark of an absent row is not itself a row.
ASSUME AbsentAssumption == None \notin Account

\* from: the token this one was rotated from.
Token == [user : Accounts \cup {None}, live : BOOLEAN, from : TokenIds \cup {None}]

\* uses: how many password changes this reset token has paid for.
Reset == [user : Accounts \cup {None}, live : BOOLEAN, uses : 0..MaxPassword]

Idle == [at |-> "idle"]

\* A reply carries the new refresh token, or None: an error, or an answer that has none.
Reply(u, t) == [at |-> "reply", user |-> u, token |-> t]

\* A password change keeps the reset link it consumes (None when the current password is its
\* credential) and what its statements have found to mark.
Request ==
    {Idle}
    \cup [at : {"reply"}, user : Accounts \cup {None}, token : TokenIds \cup {None}]
    \cup [at : {"register", "stamp", "forgot"}, user : Accounts]
    \cup [at : {"issue"}, user : Accounts, from : TokenIds \cup {None}]
    \cup [at : {"rotate", "reload"}, user : Accounts, token : TokenIds]
    \cup [at : {"revoke"}, user : Accounts, token : TokenIds \cup {None}]
    \cup [at : {"sweep"}, user : Accounts, tokens : SUBSET TokenIds]
    \cup [at : {"store"}, user : Accounts, links : SUBSET ResetIds]
    \cup [at : {"consume"}, user : Accounts, key : ResetIds]
    \cup [at : {"update"}, user : Accounts, key : ResetIds \cup {None}]
    \cup [at : {"links"}, user : Accounts, key : ResetIds \cup {None}, tokens : SUBSET TokenIds]
    \cup [at : {"close"}, user : Accounts, key : ResetIds \cup {None}, tokens : SUBSET TokenIds,
          links : SUBSET ResetIds]
    \cup [at : {"patch"}, user : Accounts, active : BOOLEAN, tries : 1..MaxTries]
    \cup [at : {"commit"}, user : Accounts, active : BOOLEAN, tries : 1..MaxTries,
          seen : SUBSET Admins, row : Account, tokens : SUBSET TokenIds]

Registered(u) == account[u] # None

Active(u) == Registered(u) /\ account[u].active

ActiveAdmins == {u \in Admins : Active(u)}

LiveTokens(u) == {t \in TokenIds : token[t].user = u /\ token[t].live}

LiveResets(u) == {k \in ResetIds : reset[k].user = u /\ reset[k].live}

Unissued == {t \in TokenIds : token[t].user = None}

UnissuedResets == {k \in ResetIds : reset[k].user = None}

TokensRevoked(S) ==
    [t \in TokenIds |-> IF t \in S THEN [token[t] EXCEPT !.live = FALSE] ELSE token[t]]

ResetsUsed(S) ==
    [k \in ResetIds |-> IF k \in S THEN [reset[k] EXCEPT !.live = FALSE] ELSE reset[k]]

\* Rows a transaction that sets a password has written: the account and the tokens it found once
\* it has updated the account, the link it consumes from its first statement.
HoldsAccount(r, u) == req[r].at \in {"links", "close"} /\ req[r].user = u

HoldsToken(r, t) == req[r].at \in {"links", "close"} /\ t \in req[r].tokens

HoldsLink(r, k) == req[r].at \in {"update", "links", "close"} /\ req[r].key = k

AccountFree(u) == \A q \in Requests : ~HoldsAccount(q, u)

TokensFree(S) == \A q \in Requests : \A t \in S : ~HoldsToken(q, t)

LinksFree(r, S) == \A q \in Requests \ {r} : \A k \in S : ~HoldsLink(q, k)

Running == Cardinality({r \in Requests : req[r] # Idle})

\* Bounds: a request starts only while what it may create is left for all that run.
RoomForToken == Running < Cardinality(Unissued)
RoomForReset == Running < Cardinality(UnissuedResets)
RoomForPassword(u) == account[u].pw + Running < MaxPassword

Continue(r, next) == req' = [req EXCEPT ![r] = next]

-----------------------------------------------------------------------------
\* issueTokens: the last step of register, login and refresh; the id is random, hence fresh.
\* No lock is in the way of an insert: it only needs the key of the account's row.
Issue(r) ==
    /\ req[r].at = "issue"
    /\ Unissued # {}
    /\ LET u == req[r].user
           t == CHOOSE i \in Unissued : TRUE
       IN  /\ token' = [token EXCEPT ![t] = [user |-> u, live |-> TRUE, from |-> req[r].from]]
           /\ Continue(r, Reply(u, t))
    /\ UNCHANGED <<account, reset, expired>>

\* register reads that the e-mail is free before it hashes the password.
RegisterRead(r, u) ==
    /\ req[r] = Idle
    /\ ~Registered(u)
    /\ RoomForToken
    /\ Continue(r, [at |-> "register", user |-> u])
    /\ UNCHANGED <<account, token, reset, expired>>

\* The insert: the unique e-mail refuses the second of two registrations.
RegisterCreate(r) ==
    /\ req[r].at = "register"
    /\ LET u == req[r].user
       IN  \/ /\ ~Registered(u)
              /\ account' = [account EXCEPT ![u] = [active |-> TRUE, pw |-> 0]]
              /\ Continue(r, [at |-> "issue", user |-> u, from |-> None])
           \/ /\ Registered(u)
              /\ Continue(r, Reply(u, None))
              /\ UNCHANGED account
    /\ UNCHANGED <<token, reset, expired>>

\* login reads the account once: the password and the active flag are those of that row.
Login(r, u) ==
    /\ req[r] = Idle
    /\ Active(u)
    /\ RoomForToken
    /\ Continue(r, [at |-> "stamp", user |-> u])
    /\ UNCHANGED <<account, token, reset, expired>>

\* It stamps the row with the time (which is left out): it waits while another request has it.
LoginStamp(r) ==
    /\ req[r].at = "stamp"
    /\ AccountFree(req[r].user)
    /\ Continue(r, [at |-> "issue", user |-> req[r].user, from |-> None])
    /\ UNCHANGED <<account, token, reset, expired>>

\* refresh: what it read of the token decides between rotating it and the reuse answer.
RefreshRead(r, t) ==
    /\ req[r] = Idle
    /\ token[t].user # None
    /\ RoomForToken
    /\ LET u == token[t].user
       IN  Continue(r, IF t \in expired THEN Reply(u, None)
                       ELSE IF token[t].live THEN [at |-> "rotate", user |-> u, token |-> t]
                       ELSE [at |-> "revoke", user |-> u, token |-> None])
    /\ UNCHANGED <<account, token, reset, expired>>

\* Mutant: the update does not ask whether the token is still live.
RefreshRotate_Unguarded(r) ==
    /\ req[r].at = "rotate"
    /\ token' = TokensRevoked({req[r].token})
    /\ Continue(r, [at |-> "reload", user |-> req[r].user, token |-> req[r].token])
    /\ UNCHANGED <<account, reset, expired>>

\* The guarded update: only the request that finds the token live goes on.  It waits for a
\* transaction that is about to revoke the token, and then finds it dead.
RefreshRotate(r) ==
    /\ req[r].at = "rotate"
    /\ LET u == req[r].user
           t == req[r].token
       IN  /\ TokensFree({t})
           /\ \/ /\ token[t].live
                 /\ token' = TokensRevoked({t})
                 /\ Continue(r, [at |-> "reload", user |-> u, token |-> t])
              \/ /\ ~token[t].live
                 /\ Continue(r, [at |-> "revoke", user |-> u, token |-> None])
                 /\ UNCHANGED token
    /\ UNCHANGED <<account, reset, expired>>

\* The account is read again: a disabled one gets no new session.
RefreshReload(r) ==
    /\ req[r].at = "reload"
    /\ LET u == req[r].user
       IN  Continue(r, IF Active(u)
                       THEN [at |-> "issue", user |-> u, from |-> req[r].token]
                       ELSE Reply(u, None))
    /\ UNCHANGED <<account, token, reset, expired>>

\* refresh or logout without any credential: the route answers, the service is not reached.
NoCredential(r) ==
    /\ req[r] = Idle
    /\ Continue(r, Reply(None, None))
    /\ UNCHANGED <<account, token, reset, expired>>

\* logout of u, with the token its client holds or, without one, of all its sessions.
Logout(r, u, t) ==
    /\ req[r] = Idle
    /\ Registered(u)
    /\ t # None => token[t].user = u
    /\ Continue(r, IF t \in expired THEN Reply(u, None)
                   ELSE [at |-> "revoke", user |-> u, token |-> t])
    /\ UNCHANGED <<account, token, reset, expired>>

\* What a statement that revokes sessions sees when it starts: the client's token, or (after a
\* token was used twice, too) every live one; what is stored after that escapes it.
Revoke(r) ==
    /\ req[r].at = "revoke"
    /\ LET live == LiveTokens(req[r].user)
       IN  Continue(r, [at |-> "sweep", user |-> req[r].user, tokens |->
                           IF req[r].token = None THEN live ELSE live \cap {req[r].token}])
    /\ UNCHANGED <<account, token, reset, expired>>

Sweep(r) ==
    /\ req[r].at = "sweep"
    /\ TokensFree(req[r].tokens)
    /\ token' = TokensRevoked(req[r].tokens)
    /\ Continue(r, Reply(req[r].user, None))
    /\ UNCHANGED <<account, reset, expired>>

-----------------------------------------------------------------------------
\* changePassword: the current password is compared with the row read here.
ChangeRead(r, u) ==
    /\ req[r] = Idle
    /\ Active(u)
    /\ RoomForPassword(u)
    /\ Continue(r, [at |-> "update", user |-> u, key |-> None])
    /\ UNCHANGED <<account, token, reset, expired>>

\* resetPassword reads the link and hashes the password before its transaction starts.
ResetRead(r, k) ==
    /\ req[r] = Idle
    /\ reset[k].user # None
    /\ reset[k].live
    /\ k \notin expired
    /\ RoomForPassword(reset[k].user)
    /\ Continue(r, [at |-> "consume", user |-> reset[k].user, key |-> k])
    /\ UNCHANGED <<account, token, reset, expired>>

Consumable(k) == reset[k].live /\ k \notin expired

\* Mutant: the update neither asks whether the link was used nor waits for who uses it.
ResetConsume_Unguarded(r) ==
    /\ req[r].at = "consume"
    /\ Continue(r, [at |-> "update", user |-> req[r].user, key |-> req[r].key])
    /\ UNCHANGED <<account, token, reset, expired>>

\* The guarded update of the link: the second of two resets waits, and finds it used.
ResetConsume(r) ==
    /\ req[r].at = "consume"
    /\ LinksFree(r, {req[r].key})
    /\ Continue(r, IF Consumable(req[r].key)
                   THEN [at |-> "update", user |-> req[r].user, key |-> req[r].key]
                   ELSE Reply(req[r].user, None))
    /\ UNCHANGED <<account, token, reset, expired>>

\* The update of the account's row, and what the next statement sees of its sessions.
SetPassword(r) ==
    /\ req[r].at = "update"
    /\ AccountFree(req[r].user)
    /\ Continue(r, [at |-> "links", user |-> req[r].user, key |-> req[r].key,
                    tokens |-> LiveTokens(req[r].user)])
    /\ UNCHANGED <<account, token, reset, expired>>

\* What the last statement sees of the account's reset links.
SeeLinks(r) ==
    /\ req[r].at = "links"
    /\ Continue(r, [at |-> "close", user |-> req[r].user, key |-> req[r].key,
                    tokens |-> req[r].tokens, links |-> LiveResets(req[r].user) \ {req[r].key}])
    /\ UNCHANGED <<account, token, reset, expired>>

\* The last statement marks the links it has seen, once nobody holds one, and the transaction
\* commits: the sessions and links it has found end with the old password.
PasswordCommit(r) ==
    /\ req[r].at = "close"
    /\ LinksFree(r, req[r].links)
    /\ LET u == req[r].user
           k == req[r].key
           marked == ResetsUsed(req[r].links \cup ({k} \ {None}))
       IN  /\ account[u].pw < MaxPassword
           /\ account' = [account EXCEPT ![u].pw = @ + 1]
           /\ token' = TokensRevoked(req[r].tokens)
           /\ reset' = IF k = None THEN marked ELSE [marked EXCEPT ![k].uses = @ + 1]
           /\ Continue(r, Reply(u, None))
    /\ UNCHANGED expired

\* Two transactions that wait for each other, or one that waits too long, are rolled back.
Rollback(r) ==
    /\ \/ req[r].at = "update" /\ ~AccountFree(req[r].user)
       \/ req[r].at \in {"store", "close"} /\ ~LinksFree(r, req[r].links)
    /\ Continue(r, Reply(req[r].user, None))
    /\ UNCHANGED <<account, token, reset, expired>>

\* requestPasswordReset, only for an active account.
ForgotRead(r, u) ==
    /\ req[r] = Idle
    /\ Active(u)
    /\ RoomForReset
    /\ Continue(r, [at |-> "forgot", user |-> u])
    /\ UNCHANGED <<account, token, reset, expired>>

\* Its transaction sees the links that are live, waits until nobody holds one, marks them and
\* stores the new one.
ForgotSee(r) ==
    /\ req[r].at = "forgot"
    /\ Continue(r, [at |-> "store", user |-> req[r].user, links |-> LiveResets(req[r].user)])
    /\ UNCHANGED <<account, token, reset, expired>>

ForgotStore(r) ==
    /\ req[r].at = "store"
    /\ LinksFree(r, req[r].links)
    /\ UnissuedResets # {}
    /\ LET k == CHOOSE i \in UnissuedResets : TRUE
       IN  reset' = [ResetsUsed(req[r].links)
                       EXCEPT ![k] = [user |-> req[r].user, live |-> TRUE, uses |-> 0]]
    /\ Continue(r, Reply(req[r].user, None))
    /\ UNCHANGED <<account, token, expired>>

-----------------------------------------------------------------------------
\* patchAdminUser: an active administrator switches another account on or off.
AdminPatch(r, actor, u, active) ==
    /\ req[r] = Idle
    /\ actor \in ActiveAdmins
    /\ Registered(u)
    /\ actor # u
    /\ Continue(r, [at |-> "patch", user |-> u, active |-> active, tries |-> 1])
    /\ UNCHANGED <<account, token, reset, expired>>

\* The reads of its serializable transaction; the last active administrator stays.
AdminRead(r) ==
    /\ req[r].at = "patch"
    /\ LET u == req[r].user
       IN  Continue(r,
             IF u \in Admins /\ ~req[r].active /\ ActiveAdmins \ {u} = {}
             THEN Reply(u, None)
             ELSE [at |-> "commit", user |-> u, active |-> req[r].active,
                   tries |-> req[r].tries, seen |-> ActiveAdmins, row |-> account[u],
                   tokens |-> IF req[r].active THEN {} ELSE LiveTokens(u)])
    /\ UNCHANGED <<account, token, reset, expired>>

\* Mutant: the transaction runs at the database's default level.
Serializable_ReadCommitted(r) == AccountFree(req[r].user)

\* Serializable: it commits only if what it has counted still holds and nobody has changed a
\* row that it writes.
Serializable(r) ==
    LET u == req[r].user
    IN  /\ u \in Admins /\ ~req[r].active => req[r].seen = ActiveAdmins
        /\ account[u] = req[r].row
        /\ req[r].tokens \subseteq LiveTokens(u)
        /\ AccountFree(u)

AdminCommit(r) ==
    /\ req[r].at = "commit"
    /\ Serializable(r)
    /\ account' = [account EXCEPT ![req[r].user].active = req[r].active]
    /\ token' = TokensRevoked(req[r].tokens)
    /\ Continue(r, Reply(req[r].user, None))
    /\ UNCHANGED <<reset, expired>>

\* Mutant: attempts are not counted.
AdminAbort_RetriesForever(r) ==
    /\ req[r].at = "commit"
    /\ Continue(r, [at |-> "patch", user |-> req[r].user, active |-> req[r].active,
                    tries |-> req[r].tries])
    /\ UNCHANGED <<account, token, reset, expired>>

\* A serialization failure, at any conflict with another transaction, is retried, up to MaxTries
\* attempts in all.
AdminAbort(r) ==
    /\ req[r].at = "commit"
    /\ Continue(r, IF req[r].tries < MaxTries
                   THEN [at |-> "patch", user |-> req[r].user, active |-> req[r].active,
                         tries |-> req[r].tries + 1]
                   ELSE Reply(req[r].user, None))
    /\ UNCHANGED <<account, token, reset, expired>>

\* Time: an issued token passes its expiry date.
Expire(k) ==
    /\ k \notin expired
    /\ k \in TokenIds => token[k].user # None
    /\ k \in ResetIds => reset[k].user # None
    /\ expired' = expired \cup {k}
    /\ UNCHANGED <<account, token, reset, req>>

\* The client takes the answer; the request slot is free again.
Answered(r) ==
    /\ req[r].at = "reply"
    /\ Continue(r, Idle)
    /\ UNCHANGED <<account, token, reset, expired>>

-----------------------------------------------------------------------------
SessionsInit ==
    /\ account \in [Accounts -> {None, [active |-> TRUE, pw |-> 0]}]
    /\ ActiveAdmins # {}
    /\ token = [t \in TokenIds |-> [user |-> None, live |-> FALSE, from |-> None]]
    /\ reset = [k \in ResetIds |-> [user |-> None, live |-> FALSE, uses |-> 0]]
    /\ expired = {}
    /\ req = [r \in Requests |-> Idle]

\* The steps of a request that has started.
Serve(r) ==
    \/ Issue(r) \/ RegisterCreate(r) \/ LoginStamp(r)
    \/ RefreshRotate(r) \/ RefreshReload(r) \/ Revoke(r) \/ Sweep(r)
    \/ ResetConsume(r) \/ SetPassword(r) \/ SeeLinks(r) \/ PasswordCommit(r)
    \/ ForgotSee(r) \/ ForgotStore(r) \/ Rollback(r)
    \/ AdminRead(r) \/ AdminCommit(r) \/ AdminAbort(r)

\* Requests that no browser of this system need have sent: any client, any token it holds.
Arrive(r) ==
    \/ NoCredential(r)
    \/ \E u \in Accounts : RegisterRead(r, u) \/ Login(r, u) \/ ChangeRead(r, u) \/ ForgotRead(r, u)
    \/ \E t \in TokenIds : RefreshRead(r, t)
    \/ \E k \in ResetIds : ResetRead(r, k)
    \/ \E u \in Accounts, t \in TokenIds \cup {None} : Logout(r, u, t)
    \/ \E actor, u \in Accounts, active \in BOOLEAN : AdminPatch(r, actor, u, active)

SessionsNext ==
    \/ \E r \in Requests : Arrive(r) \/ Serve(r) \/ Answered(r)
    \/ \E k \in Expiring : Expire(k)

SessionsSpec == SessionsInit /\ [][SessionsNext]_sessionVars

-----------------------------------------------------------------------------
\* Accounts, tokens, reset links and the requests in flight (authenticated or not)
\* are of the shapes of the User, RefreshToken and PasswordResetToken tables.
SessionsTypeOK ==
    /\ account \in [Accounts -> Account \cup {None}]
    /\ token \in [TokenIds -> Token]
    /\ reset \in [ResetIds -> Reset]
    /\ expired \subseteq TokenIds \cup ResetIds
    /\ req \in [Requests -> Request]

\* A refresh token is redeemed at most once, however many requests present it together:
\* it has one successor, or one request about to store it, and is dead by then.
Redeemers(t) ==
    {<<"token", i>> : i \in {j \in TokenIds : token[j].from = t}}
    \cup {<<"request", r>> : r \in {q \in Requests :
            \/ req[q].at = "issue" /\ req[q].from = t
            \/ req[q].at = "reload" /\ req[q].token = t}}

RedeemedOnce ==
    \A t \in TokenIds :
        \A x, y \in Redeemers(t) : x = y /\ ~token[t].live

\* A reset link changes the password at most once.
ResetOnce == \A k \in ResetIds : reset[k].uses <= 1

\* The secrets an account hands out work once: a refresh token, a reset link.
TokensWorkOnce == RedeemedOnce /\ ResetOnce

\* Two administrators who switch each other off at the same time leave one of them on.
AnAdminStays == ActiveAdmins # {}

\* A new password revokes all refresh sessions: when it is in force, no token of the account
\* that was stored before works any more.
AllSessionsRevoked ==
    [][\A u \in Accounts :
          Registered(u) /\ account'[u].pw # account[u].pw => LiveTokens(u)' = {}]_sessionVars

\* Every request is answered: an administrator's gives up after MaxTries conflicts.
RequestsAreAnswered == \A r \in Requests : []<>(req[r].at \in {"idle", "reply"})
=============================================================================
