--------------------------- MODULE AccountsProofs ---------------------------
(***************************************************************************)
(* Theorems about the accounts, for any accounts, tokens, links, tabs,     *)
(* addresses, nonces and requests: Sessions, the tabs of a browser that    *)
(* use it (WebSession), and Wallets.                                       *)
(***************************************************************************)
EXTENDS WebSession, Wallets, TLAPS

\* Rows and requests in flight speak of registered accounts.
Known ==
    /\ \A t \in TokenIds :
         /\ token[t].user # None => Registered(token[t].user)
         /\ token[t].user = None => ~token[t].live
    /\ \A k \in ResetIds :
         /\ reset[k].user # None => Registered(reset[k].user)
         /\ reset[k].user = None => ~reset[k].live
    /\ \A r \in Requests :
         req[r].at \notin {"idle", "reply", "register"} => Registered(req[r].user)

\* What is redeemed had been issued.
Issued ==
    /\ \A t \in TokenIds : token[t].from # None => token[token[t].from].user # None
    /\ \A r \in Requests :
         /\ req[r].at \in {"rotate", "reload"} => token[req[r].token].user # None
         /\ req[r].at = "issue" /\ req[r].from # None => token[req[r].from].user # None

Redeems(x, t) ==
    \/ x.at = "issue" /\ x.from = t
    \/ x.at = "reload" /\ x.token = t

\* RedeemedOnce without the set of redeemers.
OneRedeemer ==
    \A t \in TokenIds :
        /\ \A i \in TokenIds :
             token[i].from = t =>
               /\ ~token[t].live
               /\ \A j \in TokenIds : token[j].from = t => j = i
               /\ \A r \in Requests : ~Redeems(req[r], t)
        /\ \A r \in Requests :
             Redeems(req[r], t) =>
               /\ ~token[t].live
               /\ \A q \in Requests : Redeems(req[q], t) => q = r

LinksFresh == \A k \in ResetIds : reset[k].uses <= 1 /\ (reset[k].live => reset[k].uses = 0)

\* A link that pays for a password change is live, and pays for no other.
Pays(x, k) == x.at \in {"update", "links", "close"} /\ x.key = k

PaysOnce ==
    \A r \in Requests, k \in ResetIds :
        Pays(req[r], k) => reset[k].live /\ \A q \in Requests : Pays(req[q], k) => q = r

\* A transaction that is to switch an administrator off has seen another one.
SeenAnother(x) == x.at = "commit" /\ x.user \in Admins /\ ~x.active => x.seen \ {x.user} # {}

AdminsKept == AnAdminStays /\ \A r \in Requests : SeenAnother(req[r])

SessionsInv ==
    /\ SessionsTypeOK
    /\ Known
    /\ Issued
    /\ OneRedeemer
    /\ LinksFresh
    /\ PaysOnce
    /\ AdminsKept

-----------------------------------------------------------------------------
(* What the definitions give *)

LEMMA Distinct == None \notin Accounts /\ None \notin TokenIds /\ None \notin ResetIds
  BY SessionsAssumption

\* The fields of a request in each state.
LEMMA RequestFields ==
  ASSUME NEW x \in Request
  PROVE  /\ x.at \notin {"idle", "reply"} => x.user \in Accounts
         /\ x.at = "reply" => x.user \in Accounts \cup {None} /\ x.token \in TokenIds \cup {None}
         /\ x.at = "issue" => x.from \in TokenIds \cup {None}
         /\ x.at \in {"rotate", "reload"} => x.token \in TokenIds
         /\ x.at = "revoke" => x.token \in TokenIds \cup {None}
         /\ x.at \in {"sweep", "links", "close", "commit"} => x.tokens \subseteq TokenIds
         /\ x.at \in {"store", "close"} => x.links \subseteq ResetIds
         /\ x.at = "consume" => x.key \in ResetIds
         /\ x.at \in {"update", "links", "close"} => x.key \in ResetIds \cup {None}
         /\ x.at \in {"patch", "commit"} => x.active \in BOOLEAN /\ x.tries \in 1..MaxTries
         /\ x.at = "commit" => x.seen \subseteq Admins
  BY DEF Request, Idle

LEMMA RevokedTokens ==
  ASSUME SessionsTypeOK, NEW S
  PROVE  /\ TokensRevoked(S) \in [TokenIds -> Token]
         /\ \A t \in TokenIds :
              /\ TokensRevoked(S)[t].user = token[t].user
              /\ TokensRevoked(S)[t].from = token[t].from
              /\ TokensRevoked(S)[t].live <=> token[t].live /\ t \notin S
  BY DEF SessionsTypeOK, TokensRevoked, Token

LEMMA UsedResets ==
  ASSUME SessionsTypeOK, NEW S
  PROVE  /\ ResetsUsed(S) \in [ResetIds -> Reset]
         /\ \A k \in ResetIds :
              /\ ResetsUsed(S)[k].user = reset[k].user
              /\ ResetsUsed(S)[k].uses = reset[k].uses
              /\ ResetsUsed(S)[k].live <=> reset[k].live /\ k \notin S
  BY DEF SessionsTypeOK, ResetsUsed, Reset

LEMMA RedeemedOnceFromOne == SessionsTypeOK /\ OneRedeemer => RedeemedOnce
  BY DEF OneRedeemer, RedeemedOnce, Redeemers, Redeems

-----------------------------------------------------------------------------
LEMMA SessionsInitHolds == SessionsInit => SessionsInv
<1> SUFFICES ASSUME SessionsInit PROVE SessionsInv
  OBVIOUS
<1>0. None \notin Accounts /\ None \notin TokenIds /\ None \notin ResetIds
  BY Distinct
<1>1. SessionsTypeOK
  <2>1. 0 \in 0..MaxPassword
    BY SessionsAssumption
  <2>2. account \in [Accounts -> Account \cup {None}]
    <3>1. [active |-> TRUE, pw |-> 0] \in Account
      BY <2>1 DEF Account
    <3> QED BY <3>1 DEF SessionsInit
  <2>3. token \in [TokenIds -> Token] /\ reset \in [ResetIds -> Reset]
    BY <2>1 DEF SessionsInit, Token, Reset
  <2> QED BY <2>2, <2>3 DEF SessionsInit, SessionsTypeOK, Request
<1>2. Known /\ Issued /\ OneRedeemer /\ LinksFresh /\ PaysOnce
  BY <1>0 DEF SessionsInit, Known, Issued, OneRedeemer, LinksFresh, PaysOnce, Pays, Redeems, Idle
<1>3. AdminsKept
  BY DEF SessionsInit, AdminsKept, AnAdminStays, SeenAnother, Idle
<1> QED BY <1>1, <1>2, <1>3 DEF SessionsInv

\* A request that only goes on: it redeems nothing, or what it has rotated itself.
LEMMA GoesOn ==
  ASSUME SessionsInv, NEW r \in Requests, NEW next \in Request,
         Continue(r, next), UNCHANGED <<account, token, reset, expired>>,
         next.at \notin {"idle", "reply", "register"} => Registered(next.user),
         next.at = "rotate" => token[next.token].user # None,
         next.at # "reload",
         next.at = "issue" =>
           next.from = None \/ (req[r].at = "reload" /\ next.from = req[r].token),
         \A k \in ResetIds :
           Pays(next, k) =>
             Pays(req[r], k) \/ (reset[k].live /\ \A q \in Requests \ {r} : ~Pays(req[q], k)),
         SeenAnother(next)
  PROVE  SessionsInv'
<1>0. /\ req' = [req EXCEPT ![r] = next]
      /\ req' \in [Requests -> Request]
      /\ req'[r] = next
      /\ \A q \in Requests : q # r => req'[q] = req[q]
  BY DEF SessionsInv, SessionsTypeOK, Continue
<1>1. SessionsTypeOK'
  BY <1>0 DEF SessionsInv, SessionsTypeOK
<1>2. Known'
  BY <1>0 DEF SessionsInv, Known, Registered
<1>3. Issued'
  BY <1>0 DEF SessionsInv, Issued
<1>4. OneRedeemer'
  <2>1. \A q \in Requests, t \in TokenIds : Redeems(req'[q], t) => Redeems(req[q], t)
    BY <1>0, Distinct DEF Redeems
  <2> QED BY <2>1 DEF SessionsInv, OneRedeemer
<1>5. LinksFresh' /\ PaysOnce'
  <2>1. \A q \in Requests, k \in ResetIds : q # r => (Pays(req'[q], k) <=> Pays(req[q], k))
    BY <1>0
  <2>2. \A k \in ResetIds : Pays(req'[r], k) => reset[k].live /\ \A q \in Requests \ {r} : ~Pays(req[q], k)
    BY <1>0 DEF SessionsInv, PaysOnce
  <2>3. \A q \in Requests, k \in ResetIds :
          Pays(req'[q], k) => reset[k].live /\ \A x \in Requests : Pays(req'[x], k) => x = q
    BY <2>1, <2>2 DEF SessionsInv, PaysOnce
  <2>4. \A q \in Requests, k \in ResetIds : Pays(req[q], k)' <=> Pays(req'[q], k)
    BY DEF Pays
  <2> QED BY <2>3, <2>4 DEF SessionsInv, LinksFresh, PaysOnce
<1>6. AdminsKept'
  <2>1. AnAdminStays'
    BY DEF SessionsInv, AdminsKept, AnAdminStays, ActiveAdmins, Active, Registered
  <2>2. \A q \in Requests : SeenAnother(req'[q])
    BY <1>0 DEF SessionsInv, AdminsKept
  <2> QED BY <2>1, <2>2 DEF AdminsKept, SeenAnother
<1> QED BY <1>1, <1>2, <1>3, <1>4, <1>5, <1>6 DEF SessionsInv

\* Steps on tokens that only end sessions, with a request that goes on.
LEMMA OnlyRevokes ==
  ASSUME SessionsInv, NEW S, NEW r \in Requests, NEW next \in Request,
         token' = TokensRevoked(S), Continue(r, next),
         next.at \notin {"idle", "register", "rotate", "issue", "commit"},
         next.at \notin {"reply", "reload"} => Registered(next.user),
         next.at = "reload" =>
           /\ req[r].at = "rotate" /\ next.token = req[r].token /\ next.user = req[r].user
           /\ token[next.token].live /\ next.token \in S
  PROVE  /\ token' \in [TokenIds -> Token] /\ req' \in [Requests -> Request]
         /\ Issued'
         /\ OneRedeemer'
         /\ \A q \in Requests : SeenAnother(req[q])'
<1>0. /\ req' = [req EXCEPT ![r] = next]
      /\ req' \in [Requests -> Request]
      /\ req'[r] = next
      /\ \A q \in Requests : q # r => req'[q] = req[q]
  BY DEF SessionsInv, SessionsTypeOK, Continue
<1>1. /\ token' \in [TokenIds -> Token]
      /\ \A t \in TokenIds :
           /\ token'[t].user = token[t].user
           /\ token'[t].from = token[t].from
           /\ token'[t].live <=> token[t].live /\ t \notin S
  BY RevokedTokens DEF SessionsInv
<1>2. \A q \in Requests : req[q] \in Request
  BY DEF SessionsInv, SessionsTypeOK
<1>3. Issued'
  <2>1. ASSUME NEW t \in TokenIds, token'[t].from # None
        PROVE  token'[token'[t].from].user # None
    <3>1. token[t].from \in TokenIds
      BY <1>1, <2>1 DEF SessionsInv, SessionsTypeOK, Token
    <3> QED BY <1>1, <2>1, <3>1 DEF SessionsInv, Issued
  <2>2. ASSUME NEW q \in Requests, req'[q].at \in {"rotate", "reload"}
        PROVE  token'[req'[q].token].user # None
    <3>1. req'[q].token \in TokenIds
      BY <1>0, <2>2, RequestFields
    <3>2. token[req'[q].token].user # None
      BY <1>0, <2>2 DEF SessionsInv, Issued
    <3> QED BY <1>1, <3>1, <3>2
  <2>3. ASSUME NEW q \in Requests, req'[q].at = "issue", req'[q].from # None
        PROVE  token'[req'[q].from].user # None
    <3>1. req'[q].from \in TokenIds /\ q # r
      BY <1>0, <2>3, RequestFields
    <3> QED BY <1>0, <1>1, <2>3, <3>1 DEF SessionsInv, Issued
  <2> QED BY <2>1, <2>2, <2>3 DEF Issued
<1>4. OneRedeemer'
  <2> DEFINE T == req[r].token
  <2>1. CASE next.at = "reload"
    <3>1. T \in TokenIds /\ token[T].live /\ T \in S /\ next.token = T
      BY <2>1, <1>2, RequestFields
    <3>2. /\ \A i \in TokenIds : token[i].from # T
          /\ \A q \in Requests : ~Redeems(req[q], T)
      BY <3>1 DEF SessionsInv, OneRedeemer
    <3>3. \A t \in TokenIds : Redeems(req'[r], t) <=> t = T
      BY <1>0, <2>1, <3>1 DEF Redeems
    <3>4. \A t \in TokenIds : ~Redeems(req[r], t)
      BY <2>1 DEF Redeems
    <3>5. \A q \in Requests, t \in TokenIds :
            Redeems(req'[q], t) <=> (IF q = r THEN t = T ELSE Redeems(req[q], t))
      BY <1>0, <3>3
    <3> HIDE DEF T
    <3> QED BY <1>1, <3>1, <3>2, <3>4, <3>5 DEF SessionsInv, OneRedeemer
  <2>2. CASE next.at # "reload"
    <3>1. \A q \in Requests, t \in TokenIds : Redeems(req'[q], t) => Redeems(req[q], t)
      BY <1>0, <2>2 DEF Redeems
    <3> QED BY <1>1, <3>1 DEF SessionsInv, OneRedeemer
  <2> QED BY <2>1, <2>2
<1>5. \A q \in Requests : SeenAnother(req[q])'
  <2>1. \A q \in Requests : SeenAnother(req'[q])
    BY <1>0 DEF SessionsInv, AdminsKept, SeenAnother
  <2> QED BY <2>1 DEF SeenAnother
<1> QED BY <1>0, <1>1, <1>3, <1>4, <1>5

\* A request that goes on to hold no link, while the links of the others stay live.
LEMMA PaysKept ==
  ASSUME SessionsInv, NEW r \in Requests, NEW next \in Request, Continue(r, next),
         next.at \notin {"update", "links", "close"},
         \A q \in Requests \ {r}, k \in ResetIds : Pays(req[q], k) => reset'[k].live
  PROVE  PaysOnce'
<1>1. req'[r] = next /\ \A q \in Requests : q # r => req'[q] = req[q]
  BY DEF SessionsInv, SessionsTypeOK, Continue
<1>2. \A q \in Requests, k \in ResetIds : Pays(req'[q], k) => q # r /\ Pays(req[q], k)
  BY <1>1 DEF Pays
<1>3. \A q \in Requests, k \in ResetIds :
        Pays(req'[q], k) => reset'[k].live /\ \A x \in Requests : Pays(req'[x], k) => x = q
  BY <1>2 DEF SessionsInv, PaysOnce
<1>4. \A q \in Requests, k \in ResetIds : Pays(req[q], k)' <=> Pays(req'[q], k)
  BY DEF Pays
<1> QED BY <1>3, <1>4 DEF PaysOnce

\* So with the links as they were.
LEMMA PaysStay ==
  ASSUME SessionsInv, NEW r \in Requests, NEW next \in Request, Continue(r, next),
         next.at \notin {"update", "links", "close"}, reset' = reset
  PROVE  PaysOnce'
<1>1. \A q \in Requests \ {r}, k \in ResetIds : Pays(req[q], k) => reset'[k].live
  BY DEF SessionsInv, PaysOnce
<1> QED BY <1>1, PaysKept

-----------------------------------------------------------------------------
(* The steps that change a table *)

LEMMA RegisterStep ==
  ASSUME SessionsInv, NEW r \in Requests, RegisterCreate(r)
  PROVE  SessionsInv'
<1> DEFINE u == req[r].user
           next == [at |-> "issue", user |-> u, from |-> None]
           row == [active |-> TRUE, pw |-> 0]
<1>0. req[r] \in Request /\ u \in Accounts
  BY RequestFields DEF SessionsInv, SessionsTypeOK, RegisterCreate
<1>1. CASE Registered(u)
  <2>1. Reply(u, None) \in Request
    BY <1>0 DEF Reply, Request
  <2>2. Continue(r, Reply(u, None)) /\ UNCHANGED <<account, token, reset, expired>>
    BY <1>1 DEF RegisterCreate
  <2>3. /\ Reply(u, None).at = "reply" /\ SeenAnother(Reply(u, None))
        /\ \A k \in ResetIds : ~Pays(Reply(u, None), k)
    BY DEF Reply, SeenAnother, Pays
  <2> QED BY <2>1, <2>2, <2>3, GoesOn
<1>2. CASE ~Registered(u)
  <2>0. /\ account' = [account EXCEPT ![u] = row]
        /\ req' = [req EXCEPT ![r] = next]
        /\ token' = token /\ reset' = reset /\ expired' = expired
    BY <1>2 DEF RegisterCreate, Continue
  <2>1. next \in Request
    BY <1>0 DEF Request
  <2>2. row \in Account /\ row # None
    <3>1. 0 \in 0..MaxPassword
      BY SessionsAssumption
    <3>2. row \in Account
      BY <3>1 DEF Account
    <3> QED BY <3>2, AbsentAssumption
  <2>3. /\ account' \in [Accounts -> Account \cup {None}]
        /\ req' \in [Requests -> Request]
        /\ req'[r] = next /\ account'[u] = row
        /\ \A q \in Requests : q # r => req'[q] = req[q]
        /\ \A v \in Accounts : v # u => account'[v] = account[v]
    BY <1>0, <2>0, <2>1, <2>2 DEF SessionsInv, SessionsTypeOK
  <2>4. SessionsTypeOK'
    BY <2>0, <2>3 DEF SessionsInv, SessionsTypeOK
  <2>5. \A v \in Accounts : v # u /\ Registered(v) => Registered(v)'
    BY <2>3 DEF Registered
  <2>6. Registered(u)'
    BY <2>2, <2>3 DEF Registered
  <2>7. Known'
    <3>1. \A q \in Requests : req[q] \in Request
      BY DEF SessionsInv, SessionsTypeOK
    <3> QED BY <1>0, <2>0, <2>3, <2>5, <2>6, <3>1, RequestFields
            DEF SessionsInv, SessionsTypeOK, Known, Token, Reset
  <2>8. Issued' /\ LinksFresh'
    BY <2>0, <2>3 DEF SessionsInv, Issued, LinksFresh
  <2>9. OneRedeemer'
    <3>1. \A q \in Requests, t \in TokenIds : Redeems(req'[q], t) => Redeems(req[q], t)
      BY <2>3, Distinct DEF Redeems
    <3> QED BY <2>0, <3>1 DEF SessionsInv, OneRedeemer
  <2>10. PaysOnce'
    BY <1>2, <2>0, <2>1, PaysStay DEF RegisterCreate
  <2>11. AdminsKept'
    <3>1. ActiveAdmins \subseteq ActiveAdmins'
      BY <1>2, <2>3, <2>5, SessionsAssumption DEF ActiveAdmins, Active
    <3>2. \A q \in Requests : SeenAnother(req'[q])
      BY <2>3 DEF SessionsInv, AdminsKept, SeenAnother
    <3> QED BY <3>1, <3>2 DEF SessionsInv, AdminsKept, AnAdminStays, SeenAnother
  <2> QED BY <2>4, <2>7, <2>8, <2>9, <2>10, <2>11 DEF SessionsInv
<1> QED BY <1>1, <1>2

LEMMA IssueStep ==
  ASSUME SessionsInv, NEW r \in Requests, Issue(r)
  PROVE  SessionsInv'
<1> DEFINE u == req[r].user
           t == CHOOSE i \in Unissued : TRUE
           row == [user |-> u, live |-> TRUE, from |-> req[r].from]
<1>0. /\ req[r] \in Request /\ req[r].at = "issue" /\ u \in Accounts
      /\ req[r].from \in TokenIds \cup {None} /\ Registered(u)
  BY RequestFields DEF SessionsInv, SessionsTypeOK, Issue, Known
<1>1. t \in TokenIds /\ token[t].user = None
  BY DEF Issue, Unissued
<1>2. row \in Token
  BY <1>0 DEF Token
<1>4. Reply(u, t) \in Request
  BY <1>0, <1>1 DEF Reply, Request
<1>3. PaysOnce'
  BY <1>4, PaysStay DEF Issue, Reply
<1>5. /\ token' = [token EXCEPT ![t] = row]
      /\ req' = [req EXCEPT ![r] = Reply(u, t)]
      /\ account' = account /\ reset' = reset /\ expired' = expired
  BY DEF Issue, Continue
<1>6. /\ token' \in [TokenIds -> Token] /\ req' \in [Requests -> Request]
      /\ token'[t] = row /\ \A i \in TokenIds : i # t => token'[i] = token[i]
      /\ req'[r] = Reply(u, t) /\ \A q \in Requests : q # r => req'[q] = req[q]
  BY <1>1, <1>2, <1>4, <1>5 DEF SessionsInv, SessionsTypeOK
<1>7. \A q \in Requests : req[q] \in Request
  BY DEF SessionsInv, SessionsTypeOK
<1> HIDE DEF t, row
<1>8. SessionsTypeOK'
  BY <1>5, <1>6 DEF SessionsInv, SessionsTypeOK
<1>9. row.user = u /\ row.live /\ row.from = req[r].from
  BY DEF row
<1>10. u # None
  BY <1>0, Distinct
<1>11. Known'
  <2>1. \A i \in TokenIds :
          /\ token'[i].user # None => Registered(token'[i].user)
          /\ token'[i].user = None => ~token'[i].live
    BY <1>0, <1>6, <1>9, <1>10 DEF SessionsInv, Known
  <2>2. \A q \in Requests :
          req'[q].at \notin {"idle", "reply", "register"} => Registered(req'[q].user)
    BY <1>6 DEF SessionsInv, Known, Reply
  <2> QED BY <1>5, <2>1, <2>2 DEF SessionsInv, Known, Registered
<1>12. \A i \in TokenIds : token[i].user # None => token'[i].user # None
  BY <1>6, <1>9, <1>10
<1>13. Issued'
  <2>1. ASSUME NEW i \in TokenIds, token'[i].from # None
        PROVE  token'[token'[i].from].user # None
    <3>1. CASE i = t
      BY <2>1, <3>1, <1>0, <1>6, <1>9, <1>12 DEF SessionsInv, Issued
    <3>2. CASE i # t
      <4>1. token[i].from \in TokenIds /\ token'[i] = token[i]
        BY <1>6, <2>1, <3>2 DEF SessionsInv, SessionsTypeOK, Token
      <4> QED BY <1>12, <2>1, <4>1 DEF SessionsInv, Issued
    <3> QED BY <3>1, <3>2
  <2>2. ASSUME NEW q \in Requests
        PROVE  /\ req'[q].at \in {"rotate", "reload"} => token'[req'[q].token].user # None
               /\ req'[q].at = "issue" /\ req'[q].from # None => token'[req'[q].from].user # None
    <3>1. CASE q = r
      BY <1>6, <3>1 DEF Reply
    <3>2. CASE q # r
      BY <1>6, <1>7, <1>12, <3>2, RequestFields DEF SessionsInv, Issued
    <3> QED BY <3>1, <3>2
  <2> QED BY <2>1, <2>2 DEF Issued
<1>14. OneRedeemer'
  \* The new token has not been redeemed: it was not there.
  <2>1. /\ \A i \in TokenIds : token'[i].from # t
        /\ \A q \in Requests : ~Redeems(req'[q], t)
    <3>1. \A i \in TokenIds : token[i].from # t
      BY <1>1, Distinct DEF SessionsInv, Issued
    <3>2. req[r].from # t
      BY <1>0, <1>1, Distinct DEF SessionsInv, Issued
    <3>3. \A q \in Requests : ~Redeems(req[q], t)
      BY <1>1, Distinct DEF SessionsInv, Issued, Redeems
    <3> QED BY <1>6, <1>9, <3>1, <3>2, <3>3 DEF Redeems, Reply
  \* The redeemer of any other is where it was, or has become the token it was to store.
  <2>2. ~\E i \in TokenIds : Redeems(req'[r], i)
    BY <1>6 DEF Redeems, Reply
  <2>3. \A i \in TokenIds : Redeems(req[r], i) <=> i = req[r].from
    BY <1>0 DEF Redeems
  <2>4. \A i \in TokenIds : i # t => token'[i] = token[i]
    BY <1>6
  <2>5. \A q \in Requests, i \in TokenIds : q # r => (Redeems(req'[q], i) <=> Redeems(req[q], i))
    BY <1>6
  <2>6. token'[t].from = req[r].from
    BY <1>6, <1>9
  <2>7. ASSUME NEW i \in TokenIds, i # t,
               NEW j \in TokenIds, token'[j].from = i
        PROVE  /\ ~token'[i].live
               /\ \A k \in TokenIds : token'[k].from = i => k = j
               /\ \A q \in Requests : ~Redeems(req'[q], i)
    <3>1. CASE j = t
      <4>1. Redeems(req[r], i)
        BY <2>3, <2>6, <2>7, <3>1
      <4>2. \A k \in TokenIds : token[k].from # i
        BY <4>1 DEF SessionsInv, OneRedeemer
      <4> QED BY <2>2, <2>4, <2>5, <2>7, <3>1, <4>1, <4>2 DEF SessionsInv, OneRedeemer
    <3>2. CASE j # t
      <4>1. token[j].from = i
        BY <2>4, <2>7, <3>2
      <4>2. \A q \in Requests : ~Redeems(req[q], i)
        BY <4>1 DEF SessionsInv, OneRedeemer
      <4>3. token'[t].from # i
        BY <2>3, <2>6, <4>2
      <4> QED BY <2>2, <2>4, <2>5, <2>7, <4>1, <4>2, <4>3 DEF SessionsInv, OneRedeemer
    <3> QED BY <3>1, <3>2
  <2>8. ASSUME NEW i \in TokenIds, i # t, NEW q \in Requests, Redeems(req'[q], i)
        PROVE  ~token'[i].live /\ \A k \in Requests : Redeems(req'[k], i) => k = q
    BY <2>2, <2>4, <2>5, <2>8 DEF SessionsInv, OneRedeemer
  <2> QED BY <2>1, <2>7, <2>8 DEF OneRedeemer
<1>15. LinksFresh'
  BY <1>5 DEF SessionsInv, LinksFresh
<1>16. AdminsKept'
  <2>1. \A q \in Requests : SeenAnother(req'[q])
    BY <1>6 DEF SessionsInv, AdminsKept, SeenAnother, Reply
  <2>2. AnAdminStays'
    BY <1>5 DEF SessionsInv, AdminsKept, AnAdminStays, ActiveAdmins, Active, Registered
  <2> QED BY <2>1, <2>2 DEF AdminsKept, SeenAnother
<1> QED BY <1>3, <1>8, <1>11, <1>13, <1>14, <1>15, <1>16 DEF SessionsInv

\* A password change: what it revokes and marks, and the link that pays for it, end; the links
\* that pay for other changes stay.
LEMMA PasswordStep ==
  ASSUME SessionsInv, NEW r \in Requests, PasswordCommit(r)
  PROVE  SessionsInv'
<1> DEFINE u == req[r].user
           k == req[r].key
           S == req[r].links \cup ({k} \ {None})
           marked == ResetsUsed(S)
           row == [account[u] EXCEPT !.pw = @ + 1]
<1>1. /\ req[r] \in Request /\ req[r].at = "close"
      /\ u \in Accounts /\ Registered(u) /\ k \in ResetIds \cup {None}
  BY RequestFields DEF SessionsInv, SessionsTypeOK, PasswordCommit, Known
<1>2. /\ account[u].pw < MaxPassword
      /\ account' = [account EXCEPT ![u].pw = @ + 1]
      /\ token' = TokensRevoked(req[r].tokens)
      /\ reset' = IF k = None THEN marked ELSE [marked EXCEPT ![k].uses = @ + 1]
      /\ Continue(r, Reply(u, None)) /\ expired' = expired
      /\ LinksFree(r, req[r].links)
  BY DEF PasswordCommit
<1>3. account[u] \in Account /\ row \in Account /\ row # None
  <2>1. account[u] \in Account
    BY <1>1 DEF SessionsInv, SessionsTypeOK, Registered
  <2>2. account[u].pw + 1 \in 0..MaxPassword
    BY <1>2, <2>1, SessionsAssumption DEF Account
  <2>3. row \in Account
    BY <2>1, <2>2 DEF Account
  <2> QED BY <2>1, <2>3, AbsentAssumption
<1>4. /\ account' \in [Accounts -> Account \cup {None}]
      /\ account'[u] = row /\ \A v \in Accounts : v # u => account'[v] = account[v]
  BY <1>1, <1>2, <1>3 DEF SessionsInv, SessionsTypeOK
<1>5. /\ marked \in [ResetIds -> Reset]
      /\ \A i \in ResetIds :
           /\ marked[i].user = reset[i].user /\ marked[i].uses = reset[i].uses
           /\ marked[i].live <=> reset[i].live /\ i \notin S
  BY UsedResets DEF SessionsInv
<1>6. k # None => reset[k].live /\ reset[k].uses = 0 /\ 1 \in 0..MaxPassword
  <2>1. k # None => Pays(req[r], k)
    BY <1>1 DEF Pays
  <2>2. account[u].pw \in Nat
    BY <1>3 DEF Account
  <2> QED BY <1>1, <1>2, <2>1, <2>2, SessionsAssumption DEF SessionsInv, PaysOnce, LinksFresh
<1>7. k \in S \/ k = None
  OBVIOUS
<1> HIDE DEF marked, S
<1>8. /\ reset' \in [ResetIds -> Reset]
      /\ \A i \in ResetIds :
           /\ reset'[i].user = reset[i].user
           /\ reset'[i].live <=> reset[i].live /\ i \notin S
           /\ reset'[i].uses <= 1
           /\ reset'[i].live => reset'[i].uses = 0
  <2>1. CASE k = None
    BY <1>2, <1>5, <2>1 DEF SessionsInv, LinksFresh
  <2>2. CASE k # None
    <3> DEFINE paid == [marked[k] EXCEPT !.uses = @ + 1]
    <3>1. marked[k] \in Reset /\ marked[k].uses = 0 /\ ~marked[k].live
      BY <1>1, <1>5, <1>6, <1>7, <2>2
    <3>2. paid \in Reset /\ paid.user = marked[k].user /\ paid.uses = 1 /\ ~paid.live
      BY <1>6, <2>2, <3>1 DEF Reset
    <3> HIDE DEF paid
    <3>3. /\ reset' \in [ResetIds -> Reset] /\ reset'[k] = paid
          /\ \A i \in ResetIds : i # k => reset'[i] = marked[i]
      <4>1. reset' = [marked EXCEPT ![k] = paid]
        BY <1>1, <1>2, <1>5, <2>2 DEF paid
      <4> QED BY <1>1, <1>5, <2>2, <3>2, <4>1
    <3> QED BY <1>5, <1>7, <2>2, <3>1, <3>2, <3>3 DEF SessionsInv, LinksFresh
  <2> QED BY <2>1, <2>2
<1>9. Reply(u, None) \in Request /\ Reply(u, None).at = "reply"
  BY <1>1 DEF Reply, Request
<1>10. /\ token' \in [TokenIds -> Token] /\ req' \in [Requests -> Request]
       /\ Issued' /\ OneRedeemer'
       /\ \A q \in Requests : SeenAnother(req[q])'
  BY <1>2, <1>9, OnlyRevokes
<1>11. /\ req'[r] = Reply(u, None) /\ \A q \in Requests : q # r => req'[q] = req[q]
  BY <1>2 DEF SessionsInv, SessionsTypeOK, Continue
<1>12. \A t \in TokenIds :
         token'[t].user = token[t].user /\ (token'[t].live => token[t].live)
  BY <1>2, RevokedTokens DEF SessionsInv
<1>13. SessionsTypeOK'
  BY <1>2, <1>4, <1>8, <1>10 DEF SessionsInv, SessionsTypeOK
<1>14. \A v \in Accounts : account'[v] # None <=> Registered(v)
  BY <1>1, <1>3, <1>4 DEF Registered
<1>15. Known'
  <2>1. \A t \in TokenIds : token[t].user \in Accounts \cup {None}
    BY DEF SessionsInv, SessionsTypeOK, Token
  <2>2. \A i \in ResetIds : reset[i].user \in Accounts \cup {None}
    BY DEF SessionsInv, SessionsTypeOK, Reset
  <2>3. \A q \in Requests : req[q] \in Request
    BY DEF SessionsInv, SessionsTypeOK
  <2>4. \A q \in Requests :
          req'[q].at \notin {"idle", "reply", "register"} => account'[req'[q].user] # None
    BY <1>9, <1>11, <1>14, <2>3, RequestFields DEF SessionsInv, Known
  <2>5. \A t \in TokenIds : token'[t].user # None => account'[token'[t].user] # None
    BY <1>12, <1>14, <2>1 DEF SessionsInv, Known
  <2>6. \A i \in ResetIds : reset'[i].user # None => account'[reset'[i].user] # None
    BY <1>8, <1>14, <2>2 DEF SessionsInv, Known
  <2> QED BY <1>8, <1>12, <2>4, <2>5, <2>6 DEF SessionsInv, Known, Registered
<1>16. LinksFresh'
  BY <1>8 DEF LinksFresh
<1>17. PaysOnce'
  <2>1. ASSUME NEW q \in Requests \ {r}, NEW i \in ResetIds, Pays(req[q], i)
        PROVE  reset'[i].live
    <3>1. reset[i].live
      BY <2>1 DEF SessionsInv, PaysOnce
    <3>2. i \notin req[r].links
      BY <1>2, <2>1 DEF LinksFree, HoldsLink, Pays
    <3>3. i # k
      BY <1>1, <2>1 DEF SessionsInv, PaysOnce, Pays
    <3> QED BY <1>8, <3>1, <3>2, <3>3 DEF S
  <2> QED BY <1>2, <1>9, <2>1, PaysKept
<1>18. AdminsKept'
  <2>1. row.active = account[u].active
    BY <1>3 DEF Account
  <2>2. \A v \in Accounts : Active(v) => Active(v)'
    BY <1>4, <1>14, <2>1 DEF Active, Registered
  <2>3. ActiveAdmins \subseteq ActiveAdmins'
    BY <2>2, SessionsAssumption DEF ActiveAdmins
  <2> QED BY <1>10, <2>3 DEF SessionsInv, AdminsKept, AnAdminStays
<1> QED BY <1>10, <1>13, <1>15, <1>16, <1>17, <1>18 DEF SessionsInv

\* Sessions that end leave the other tables and everything about them as it was.
LEMMA SessionsEnd ==
  ASSUME SessionsInv, NEW S, token' = TokensRevoked(S), UNCHANGED <<account, reset, expired>>
  PROVE  /\ LinksFresh' /\ AnAdminStays'
         /\ \A t \in TokenIds :
              /\ token'[t].user # None => Registered(token'[t].user)
              /\ token'[t].user = None => ~token'[t].live
<1>1. \A t \in TokenIds :
        /\ token'[t].user = token[t].user
        /\ token'[t].live => token[t].live
  BY RevokedTokens DEF SessionsInv
<1>2. LinksFresh' /\ AnAdminStays'
  BY DEF SessionsInv, LinksFresh, AdminsKept, AnAdminStays, ActiveAdmins, Active, Registered
<1> QED BY <1>1, <1>2 DEF SessionsInv, Known

LEMMA RotateStep ==
  ASSUME SessionsInv, NEW r \in Requests, RefreshRotate(r)
  PROVE  SessionsInv'
<1> DEFINE u == req[r].user
           t == req[r].token
           reload == [at |-> "reload", user |-> u, token |-> t]
           reuse == [at |-> "revoke", user |-> u, token |-> None]
<1>1. /\ req[r].at = "rotate" /\ req[r] \in Request
      /\ u \in Accounts /\ Registered(u) /\ t \in TokenIds
      /\ UNCHANGED <<account, reset, expired>>
  BY RequestFields DEF SessionsInv, SessionsTypeOK, RefreshRotate, Known
<1>2. reload \in Request /\ reuse \in Request
  BY <1>1 DEF Request
<1>3. CASE ~token[t].live
  <2>1. Continue(r, reuse) /\ UNCHANGED <<account, token, reset, expired>>
    BY <1>1, <1>3 DEF RefreshRotate
  <2>2. SeenAnother(reuse) /\ \A k \in ResetIds : ~Pays(reuse, k)
    BY DEF SeenAnother, Pays
  <2> QED BY <1>1, <1>2, <2>1, <2>2, GoesOn
<1>4. CASE token[t].live
  <2>1. token' = TokensRevoked({t}) /\ Continue(r, reload)
    BY <1>4 DEF RefreshRotate
  <2>2. /\ token' \in [TokenIds -> Token] /\ req' \in [Requests -> Request]
        /\ Issued' /\ OneRedeemer'
        /\ \A q \in Requests : SeenAnother(req[q])'
    BY <1>1, <1>2, <1>4, <2>1, OnlyRevokes
  <2>3. /\ LinksFresh' /\ AnAdminStays'
        /\ \A i \in TokenIds :
             /\ token'[i].user # None => Registered(token'[i].user)
             /\ token'[i].user = None => ~token'[i].live
    BY <1>1, <2>1, SessionsEnd
  <2>4. \A q \in Requests :
          req'[q].at \notin {"idle", "reply", "register"} => Registered(req'[q].user)
    BY <1>1, <2>1 DEF SessionsInv, SessionsTypeOK, Known, Continue
  <2>5. Known'
    BY <1>1, <2>3, <2>4 DEF SessionsInv, Known, Registered
  <2>6. SessionsTypeOK'
    BY <1>1, <2>2 DEF SessionsInv, SessionsTypeOK
  <2>7. PaysOnce'
    BY <1>1, <1>2, <2>1, PaysStay
  <2> QED BY <2>2, <2>3, <2>5, <2>6, <2>7 DEF SessionsInv, AdminsKept
<1> QED BY <1>3, <1>4

LEMMA SweepStep ==
  ASSUME SessionsInv, NEW r \in Requests, Sweep(r)
  PROVE  SessionsInv'
<1> DEFINE u == req[r].user
<1>1. u \in Accounts /\ Reply(u, None) \in Request /\ Reply(u, None).at = "reply"
  BY RequestFields DEF SessionsInv, SessionsTypeOK, Sweep, Reply, Request
<1>2. /\ token' = TokensRevoked(req[r].tokens) /\ Continue(r, Reply(u, None))
      /\ UNCHANGED <<account, reset, expired>>
  BY DEF Sweep
<1>3. /\ token' \in [TokenIds -> Token] /\ req' \in [Requests -> Request]
      /\ Issued' /\ OneRedeemer'
      /\ \A q \in Requests : SeenAnother(req[q])'
  BY <1>1, <1>2, OnlyRevokes
<1>4. /\ LinksFresh' /\ AnAdminStays'
      /\ \A i \in TokenIds :
           /\ token'[i].user # None => Registered(token'[i].user)
           /\ token'[i].user = None => ~token'[i].live
  BY <1>2, SessionsEnd
<1>5. \A q \in Requests :
        req'[q].at \notin {"idle", "reply", "register"} => Registered(req'[q].user)
  BY <1>1, <1>2 DEF SessionsInv, SessionsTypeOK, Known, Continue
<1>6. Known'
  BY <1>2, <1>4, <1>5 DEF SessionsInv, Known, Registered
<1>7. SessionsTypeOK'
  BY <1>2, <1>3 DEF SessionsInv, SessionsTypeOK
<1>8. PaysOnce'
  BY <1>1, <1>2, PaysStay
<1> QED BY <1>3, <1>4, <1>6, <1>7, <1>8 DEF SessionsInv, AdminsKept

LEMMA StoreStep ==
  ASSUME SessionsInv, NEW r \in Requests, ForgotStore(r)
  PROVE  SessionsInv'
<1> DEFINE u == req[r].user
           k == CHOOSE i \in UnissuedResets : TRUE
           row == [user |-> u, live |-> TRUE, uses |-> 0]
           kept == ResetsUsed(req[r].links)
<1>1. u \in Accounts /\ Registered(u) /\ Reply(u, None) \in Request /\ u # None
  BY RequestFields, Distinct DEF SessionsInv, SessionsTypeOK, ForgotStore, Known, Reply, Request
<1>2. k \in ResetIds /\ reset[k].user = None /\ LinksFree(r, req[r].links)
  BY DEF ForgotStore, UnissuedResets
<1>3. row \in Reset
  BY <1>1, SessionsAssumption DEF Reset
<1>4. /\ reset' = [kept EXCEPT ![k] = row] /\ Continue(r, Reply(u, None))
      /\ UNCHANGED <<account, token, expired>>
  BY DEF ForgotStore
<1>5. /\ kept \in [ResetIds -> Reset]
      /\ \A i \in ResetIds :
           /\ kept[i].user = reset[i].user /\ kept[i].uses = reset[i].uses
           /\ kept[i].live <=> reset[i].live /\ i \notin req[r].links
  BY UsedResets DEF SessionsInv
<1>6. row.user = u /\ row.uses = 0 /\ row.live
  OBVIOUS
<1> HIDE DEF kept, row, k
<1>7. /\ reset' \in [ResetIds -> Reset] /\ reset'[k] = row
      /\ \A i \in ResetIds : i # k => reset'[i] = kept[i]
  BY <1>2, <1>3, <1>4, <1>5
<1>8. /\ req' \in [Requests -> Request] /\ req'[r] = Reply(u, None)
      /\ \A q \in Requests : q # r => req'[q] = req[q]
  BY <1>1, <1>4 DEF SessionsInv, SessionsTypeOK, Continue
<1>9. SessionsTypeOK'
  BY <1>4, <1>7, <1>8 DEF SessionsInv, SessionsTypeOK
<1>10. Known'
  <2>1. \A i \in ResetIds :
          /\ reset'[i].user # None => Registered(reset'[i].user)
          /\ reset'[i].user = None => ~reset'[i].live
    BY <1>1, <1>5, <1>6, <1>7 DEF SessionsInv, Known
  <2>2. \A q \in Requests :
          req'[q].at \notin {"idle", "reply", "register"} => Registered(req'[q].user)
    BY <1>8 DEF SessionsInv, Known, Reply
  <2> QED BY <1>4, <2>1, <2>2 DEF SessionsInv, Known, Registered
<1>11. Issued' /\ OneRedeemer'
  BY <1>4, <1>8 DEF SessionsInv, Issued, OneRedeemer, Redeems, Reply
<1>12. LinksFresh'
  BY <1>5, <1>6, <1>7 DEF SessionsInv, LinksFresh
<1>13. PaysOnce'
  <2>1. ASSUME NEW q \in Requests \ {r}, NEW i \in ResetIds, Pays(req[q], i)
        PROVE  reset'[i].live
    <3>1. reset[i].live /\ i # k
      BY <1>2, <2>1 DEF SessionsInv, PaysOnce, Known
    <3>2. i \notin req[r].links
      BY <1>2, <2>1 DEF LinksFree, HoldsLink, Pays
    <3> QED BY <1>5, <1>7, <3>1, <3>2
  <2>2. Reply(u, None).at = "reply"
    BY DEF Reply
  <2> QED BY <1>1, <1>4, <2>1, <2>2, PaysKept
<1>14. AdminsKept'
  <2>1. \A q \in Requests : SeenAnother(req'[q])
    BY <1>8 DEF SessionsInv, AdminsKept, SeenAnother, Reply
  <2>2. AnAdminStays'
    BY <1>4 DEF SessionsInv, AdminsKept, AnAdminStays, ActiveAdmins, Active, Registered
  <2> QED BY <2>1, <2>2 DEF AdminsKept, SeenAnother
<1> QED BY <1>9, <1>10, <1>11, <1>12, <1>13, <1>14 DEF SessionsInv

\* The switch: with every administrator but one seen off, nobody switches that one off.
LEMMA SwitchStep ==
  ASSUME SessionsInv, NEW r \in Requests, AdminCommit(r)
  PROVE  SessionsInv'
<1> DEFINE u == req[r].user
           b == req[r].active
           S == req[r].tokens
           row == [account[u] EXCEPT !.active = b]
<1>1. /\ u \in Accounts /\ b \in BOOLEAN /\ Registered(u) /\ req[r].at = "commit"
      /\ Reply(u, None) \in Request /\ Reply(u, None).at = "reply"
      /\ (u \in Admins /\ ~b => req[r].seen = ActiveAdmins)
  BY RequestFields DEF SessionsInv, SessionsTypeOK, AdminCommit, Known, Reply, Request, Serializable
<1>2. /\ token' = TokensRevoked(S) /\ Continue(r, Reply(u, None))
      /\ reset' = reset /\ expired' = expired
  BY DEF AdminCommit
<1>3. account[u] \in Account /\ row \in Account /\ row # None
  <2>1. account[u] \in Account
    BY <1>1 DEF SessionsInv, SessionsTypeOK, Registered
  <2>2. row \in Account
    BY <1>1, <2>1 DEF Account
  <2> QED BY <2>1, <2>2, AbsentAssumption
<1>4. /\ account' = [account EXCEPT ![u] = row]
      /\ account' \in [Accounts -> Account \cup {None}]
      /\ account'[u] = row /\ \A v \in Accounts : v # u => account'[v] = account[v]
  BY <1>1, <1>3 DEF SessionsInv, SessionsTypeOK, AdminCommit
<1>5. row.active = b /\ row.pw = account[u].pw
  BY <1>3 DEF Account
<1> HIDE DEF row, S
<1>6. /\ token' \in [TokenIds -> Token] /\ req' \in [Requests -> Request]
      /\ Issued' /\ OneRedeemer'
      /\ \A q \in Requests : SeenAnother(req[q])'
  BY <1>1, <1>2, OnlyRevokes
<1>7. \A t \in TokenIds :
        /\ token'[t].user = token[t].user
        /\ token'[t].live => token[t].live
  BY <1>2, RevokedTokens DEF SessionsInv
<1>8. \A v \in Accounts : account'[v] # None <=> Registered(v)
  BY <1>1, <1>3, <1>4 DEF Registered
<1>9. SessionsTypeOK'
  BY <1>2, <1>4, <1>6 DEF SessionsInv, SessionsTypeOK
<1>10. Known'
  <2>1. \A t \in TokenIds : token[t].user \in Accounts \cup {None}
    BY DEF SessionsInv, SessionsTypeOK, Token
  <2>2. \A k \in ResetIds : reset[k].user \in Accounts \cup {None}
    BY DEF SessionsInv, SessionsTypeOK, Reset
  <2>3. \A q \in Requests : req[q] \in Request
    BY DEF SessionsInv, SessionsTypeOK
  <2>4. \A q \in Requests :
          req'[q].at \notin {"idle", "reply", "register"} => account'[req'[q].user] # None
    <3>1. req'[r] = Reply(u, None) /\ \A q \in Requests : q # r => req'[q] = req[q]
      BY <1>2 DEF SessionsInv, SessionsTypeOK, Continue
    <3> QED BY <1>1, <1>8, <2>3, <3>1, RequestFields DEF SessionsInv, Known
  <2>5. \A t \in TokenIds : token'[t].user # None => account'[token'[t].user] # None
    BY <1>7, <1>8, <2>1 DEF SessionsInv, Known
  <2>6. \A k \in ResetIds : reset'[k].user # None => account'[reset'[k].user] # None
    BY <1>2, <1>8, <2>2 DEF SessionsInv, Known
  <2> QED BY <1>2, <1>7, <2>4, <2>5, <2>6 DEF SessionsInv, Known, Registered
<1>11. LinksFresh'
  BY <1>2 DEF SessionsInv, LinksFresh
<1>12. PaysOnce'
  BY <1>1, <1>2, PaysStay
<1>13. AdminsKept'
  <2>1. \A v \in Accounts : v # u /\ Active(v) => Active(v)'
    BY <1>4, <1>8 DEF Active, Registered
  <2>2. b /\ u \in Admins => u \in ActiveAdmins'
    BY <1>1, <1>3, <1>4, <1>5 DEF ActiveAdmins, Active, Registered
  <2>3. ActiveAdmins \ {u} \subseteq ActiveAdmins'
    BY <2>1, SessionsAssumption DEF ActiveAdmins
  <2>4. ActiveAdmins' # {}
    <3>1. CASE b
      <4>1. PICK v \in ActiveAdmins : TRUE
        BY DEF SessionsInv, AdminsKept, AnAdminStays
      <4>2. v \in Admins /\ (v # u => v \in ActiveAdmins')
        BY <2>3, <4>1 DEF ActiveAdmins
      <4> QED BY <2>2, <3>1, <4>2
    <3>2. CASE ~b /\ u \in Admins
      <4>1. ActiveAdmins \ {u} # {}
        BY <1>1, <3>2 DEF SessionsInv, AdminsKept, SeenAnother
      <4> QED BY <2>3, <4>1
    <3>3. CASE u \notin Admins
      <4>1. PICK v \in ActiveAdmins : v # u
        BY <3>3 DEF SessionsInv, AdminsKept, AnAdminStays, ActiveAdmins
      <4> QED BY <2>3, <4>1
    <3> QED BY <3>1, <3>2, <3>3
  <2> QED BY <1>6, <2>4 DEF AdminsKept, AnAdminStays
<1> QED BY <1>6, <1>9, <1>10, <1>11, <1>12, <1>13 DEF SessionsInv

\* Expiry changes what later requests read, and nothing this invariant speaks of.
LEMMA ExpireStep ==
  ASSUME SessionsInv, NEW k \in TokenIds \cup ResetIds, Expire(k)
  PROVE  SessionsInv'
<1>1. expired' \subseteq TokenIds \cup ResetIds /\ UNCHANGED <<account, token, reset, req>>
  BY DEF SessionsInv, SessionsTypeOK, Expire
<1>2. SessionsTypeOK' /\ Known' /\ Issued'
  BY <1>1 DEF SessionsInv, SessionsTypeOK, Known, Issued, Registered
<1>3. OneRedeemer' /\ LinksFresh' /\ PaysOnce'
  BY <1>1 DEF SessionsInv, OneRedeemer, LinksFresh, PaysOnce, Pays, Redeems
<1>4. AdminsKept'
  BY <1>1 DEF SessionsInv, AdminsKept, AnAdminStays, ActiveAdmins, Active, Registered, SeenAnother
<1> QED BY <1>2, <1>3, <1>4 DEF SessionsInv

-----------------------------------------------------------------------------
(* The steps that only read *)

\* Of each, the request it leaves behind, as GoesOn asks for it.
Going(r, next) ==
    /\ next \in Request
    /\ Continue(r, next)
    /\ UNCHANGED <<account, token, reset, expired>>
    /\ next.at \notin {"idle", "reply", "register"} => Registered(next.user)
    /\ next.at = "rotate" => token[next.token].user # None
    /\ next.at # "reload"
    /\ next.at = "issue" => next.from = None \/ (req[r].at = "reload" /\ next.from = req[r].token)
    /\ \A k \in ResetIds :
         Pays(next, k) =>
           Pays(req[r], k) \/ (reset[k].live /\ \A q \in Requests \ {r} : ~Pays(req[q], k))
    /\ SeenAnother(next)

LEMMA GoingOn ==
  ASSUME SessionsInv, NEW r \in Requests, NEW next, Going(r, next)
  PROVE  SessionsInv'
  BY GoesOn DEF Going

LEMMA Replies ==
  ASSUME NEW r, NEW u \in Accounts \cup {None}, Continue(r, Reply(u, None)),
         UNCHANGED <<account, token, reset, expired>>
  PROVE  Going(r, Reply(u, None))
  BY DEF Going, Reply, Request, SeenAnother, Pays

LEMMA RefreshReadStep ==
  ASSUME SessionsInv, NEW r \in Requests, NEW t \in TokenIds, RefreshRead(r, t)
  PROVE  SessionsInv'
<1> DEFINE u == token[t].user
           rotate == [at |-> "rotate", user |-> u, token |-> t]
           reuse == [at |-> "revoke", user |-> u, token |-> None]
<1>1. u \in Accounts /\ Registered(u) /\ UNCHANGED <<account, token, reset, expired>>
  BY DEF RefreshRead, SessionsInv, SessionsTypeOK, Token, Known
<1>2. CASE t \in expired
  BY <1>1, <1>2, Replies, GoingOn DEF RefreshRead
<1>3. CASE t \notin expired /\ token[t].live
  <2>1. Going(r, rotate)
    BY <1>1, <1>3 DEF RefreshRead, Going, Request, SeenAnother, Pays
  <2> QED BY <2>1, GoingOn
<1>4. CASE t \notin expired /\ ~token[t].live
  <2>1. Going(r, reuse)
    BY <1>1, <1>4 DEF RefreshRead, Going, Request, SeenAnother, Pays
  <2> QED BY <2>1, GoingOn
<1> QED BY <1>2, <1>3, <1>4

LEMMA LogoutStep ==
  ASSUME SessionsInv, NEW r \in Requests, NEW u \in Accounts, NEW t \in TokenIds \cup {None},
         Logout(r, u, t)
  PROVE  SessionsInv'
<1> DEFINE next == [at |-> "revoke", user |-> u, token |-> t]
<1>1. CASE t \in expired
  BY <1>1, Replies, GoingOn DEF Logout
<1>2. CASE t \notin expired
  <2>1. Going(r, next)
    BY <1>2 DEF Logout, Going, Request, SeenAnother, Pays
  <2> QED BY <2>1, GoingOn
<1> QED BY <1>1, <1>2

LEMMA ArriveStep ==
  ASSUME SessionsInv, NEW r \in Requests, Arrive(r)
  PROVE  SessionsInv'
<1>1. ASSUME NEW u \in Accounts,
             RegisterRead(r, u) \/ Login(r, u) \/ ForgotRead(r, u)
      PROVE  SessionsInv'
  <2>1. PICK at \in {"register", "stamp", "forgot"} :
          /\ Continue(r, [at |-> at, user |-> u]) /\ UNCHANGED <<account, token, reset, expired>>
          /\ at # "register" => Registered(u)
    BY <1>1 DEF RegisterRead, Login, ForgotRead, Active
  <2> DEFINE next == [at |-> at, user |-> u]
  <2>2. Going(r, next)
    BY <2>1 DEF Going, Request, SeenAnother, Pays
  <2> QED BY <2>2, GoingOn
<1>2. ASSUME NEW u \in Accounts, ChangeRead(r, u) PROVE SessionsInv'
  <2> DEFINE next == [at |-> "update", user |-> u, key |-> None]
  <2>1. Going(r, next)
    BY <1>2, Distinct DEF ChangeRead, Active, Going, Request, SeenAnother, Pays
  <2> QED BY <2>1, GoingOn
<1>3. ASSUME NEW k \in ResetIds, ResetRead(r, k) PROVE SessionsInv'
  <2> DEFINE next == [at |-> "consume", user |-> reset[k].user, key |-> k]
  <2>1. reset[k].user \in Accounts /\ Registered(reset[k].user)
    BY <1>3 DEF ResetRead, SessionsInv, SessionsTypeOK, Reset, Known
  <2>2. Going(r, next)
    BY <1>3, <2>1 DEF ResetRead, Going, Request, SeenAnother, Pays
  <2> QED BY <2>2, GoingOn
<1>4. ASSUME NEW actor \in Accounts, NEW u \in Accounts, NEW active \in BOOLEAN,
             AdminPatch(r, actor, u, active)
      PROVE  SessionsInv'
  <2> DEFINE next == [at |-> "patch", user |-> u, active |-> active, tries |-> 1]
  <2>1. 1 \in 1..MaxTries
    BY SessionsAssumption
  <2>2. Going(r, next)
    BY <1>4, <2>1 DEF AdminPatch, Going, Request, SeenAnother, Pays
  <2> QED BY <2>2, GoingOn
<1>5. ASSUME NoCredential(r) PROVE SessionsInv'
  BY <1>5, Replies, GoingOn DEF NoCredential
<1> QED BY <1>1, <1>2, <1>3, <1>4, <1>5, RefreshReadStep, LogoutStep DEF Arrive

LEMMA AdminReadStep ==
  ASSUME SessionsInv, NEW r \in Requests, AdminRead(r) \/ AdminAbort(r)
  PROVE  SessionsInv'
<1> DEFINE u == req[r].user
<1>0. req[r] \in Request
  BY DEF SessionsInv, SessionsTypeOK
<1>1. u \in Accounts /\ Registered(u)
  BY <1>0, RequestFields DEF SessionsInv, Known, AdminRead, AdminAbort
<1>2. CASE AdminRead(r)
  <2> DEFINE S == IF req[r].active THEN {} ELSE LiveTokens(u)
             next == [at |-> "commit", user |-> u, active |-> req[r].active,
                      tries |-> req[r].tries, seen |-> ActiveAdmins, row |-> account[u],
                      tokens |-> S]
             last == u \in Admins /\ ~req[r].active /\ ActiveAdmins \ {u} = {}
  <2>1. /\ req[r].active \in BOOLEAN /\ req[r].tries \in 1..MaxTries /\ ActiveAdmins \subseteq Admins
        /\ S \subseteq TokenIds /\ account[u] \in Account
    BY <1>0, <1>1, <1>2, RequestFields
       DEF AdminRead, ActiveAdmins, LiveTokens, Registered, SessionsInv, SessionsTypeOK
  <2>2. CASE last
    BY <1>1, <1>2, <2>2, Replies, GoingOn DEF AdminRead
  <2>3. CASE ~last
    <3>0. Continue(r, next) /\ UNCHANGED <<account, token, reset, expired>>
      BY <1>2, <2>3 DEF AdminRead
    <3> HIDE DEF S
    <3>1. next \in Request /\ SeenAnother(next)
      BY <1>1, <2>1, <2>3 DEF Request, SeenAnother
    <3>2. Going(r, next)
      BY <1>1, <3>0, <3>1 DEF Going, Pays
    <3> QED BY <3>2, GoingOn
  <2> QED BY <2>2, <2>3
<1>3. CASE AdminAbort(r)
  <2> DEFINE next == [at |-> "patch", user |-> u, active |-> req[r].active,
                      tries |-> req[r].tries + 1]
  <2>1. req[r].active \in BOOLEAN /\ req[r].tries \in 1..MaxTries
    BY <1>0, <1>3, RequestFields DEF AdminAbort
  <2>2. CASE req[r].tries < MaxTries
    <3>1. req[r].tries + 1 \in 1..MaxTries
      BY <2>1, <2>2, SessionsAssumption
    <3>2. Going(r, next)
      BY <1>1, <1>3, <2>1, <2>2, <3>1 DEF AdminAbort, Going, Request, SeenAnother, Pays
    <3> QED BY <3>2, GoingOn
  <2>3. CASE ~(req[r].tries < MaxTries)
    BY <1>1, <1>3, <2>3, Replies, GoingOn DEF AdminAbort
  <2> QED BY <2>2, <2>3
<1> QED BY <1>2, <1>3

LEMMA ReadStep ==
  ASSUME SessionsInv, NEW r \in Requests,
         \/ LoginStamp(r) \/ RefreshReload(r) \/ Revoke(r) \/ ResetConsume(r) \/ SetPassword(r)
         \/ SeeLinks(r) \/ ForgotSee(r) \/ Rollback(r)
  PROVE  SessionsInv'
<1> DEFINE u == req[r].user
<1>0. req[r] \in Request /\ UNCHANGED <<account, token, reset, expired>>
  BY DEF SessionsInv, SessionsTypeOK, LoginStamp, RefreshReload, Revoke, ResetConsume, SetPassword,
         SeeLinks, ForgotSee, Rollback
<1>1. u \in Accounts /\ Registered(u)
  BY <1>0, RequestFields
     DEF SessionsInv, Known, LoginStamp, RefreshReload, Revoke, ResetConsume, SetPassword, SeeLinks,
         ForgotSee, Rollback
<1>2. LiveTokens(u) \subseteq TokenIds /\ LiveResets(u) \subseteq ResetIds
  BY DEF LiveTokens, LiveResets
<1>3. ASSUME Continue(r, Reply(u, None)) PROVE SessionsInv'
  BY <1>0, <1>1, <1>3, Replies, GoingOn
<1>4. CASE LoginStamp(r)
  <2> DEFINE next == [at |-> "issue", user |-> u, from |-> None]
  <2>1. Going(r, next)
    BY <1>0, <1>1, <1>4 DEF LoginStamp, Going, Request, SeenAnother, Pays
  <2> QED BY <2>1, GoingOn
<1>5. CASE RefreshReload(r)
  <2> DEFINE next == [at |-> "issue", user |-> u, from |-> req[r].token]
  <2>1. req[r].token \in TokenIds
    BY <1>0, <1>5, RequestFields DEF RefreshReload
  <2>2. CASE Active(u)
    <3>1. Going(r, next)
      BY <1>0, <1>1, <1>5, <2>1, <2>2 DEF RefreshReload, Going, Request, SeenAnother, Pays
    <3> QED BY <3>1, GoingOn
  <2> QED BY <1>3, <1>5, <2>2 DEF RefreshReload
<1>6. CASE Revoke(r)
  <2> DEFINE S == IF req[r].token = None THEN LiveTokens(u) ELSE LiveTokens(u) \cap {req[r].token}
             next == [at |-> "sweep", user |-> u, tokens |-> S]
  <2>0. S \subseteq TokenIds /\ Continue(r, next)
    BY <1>2, <1>6 DEF Revoke
  <2> HIDE DEF S
  <2>1. Going(r, next)
    BY <1>0, <1>1, <2>0 DEF Going, Request, SeenAnother, Pays
  <2> QED BY <2>1, GoingOn
<1>7. CASE ResetConsume(r)
  <2> DEFINE k == req[r].key
             next == [at |-> "update", user |-> u, key |-> k]
  <2>1. k \in ResetIds /\ LinksFree(r, {k})
    BY <1>0, <1>7, RequestFields DEF ResetConsume
  <2>2. CASE Consumable(k)
    <3>1. reset[k].live /\ \A q \in Requests \ {r} : ~Pays(req[q], k)
      BY <2>1, <2>2 DEF Consumable, LinksFree, HoldsLink, Pays
    <3>2. \A i \in ResetIds : Pays(next, i) => i = k
      BY DEF Pays
    <3>3. Going(r, next)
      BY <1>0, <1>1, <1>7, <2>1, <2>2, <3>1, <3>2 DEF ResetConsume, Going, Request, SeenAnother
    <3> QED BY <3>3, GoingOn
  <2> QED BY <1>3, <1>7, <2>2 DEF ResetConsume
<1>8. CASE SetPassword(r)
  <2> DEFINE next == [at |-> "links", user |-> u, key |-> req[r].key, tokens |-> LiveTokens(u)]
  <2>1. req[r].key \in ResetIds \cup {None}
    BY <1>0, <1>8, RequestFields DEF SetPassword
  <2>2. Going(r, next)
    BY <1>0, <1>1, <1>2, <1>8, <2>1 DEF SetPassword, Going, Request, SeenAnother, Pays
  <2> QED BY <2>2, GoingOn
<1>9. CASE SeeLinks(r)
  <2> DEFINE L == LiveResets(u) \ {req[r].key}
             next == [at |-> "close", user |-> u, key |-> req[r].key, tokens |-> req[r].tokens,
                      links |-> L]
  <2>1. /\ req[r].key \in ResetIds \cup {None} /\ req[r].tokens \subseteq TokenIds
        /\ L \subseteq ResetIds
    BY <1>0, <1>2, <1>9, RequestFields DEF SeeLinks
  <2>2. Continue(r, next) /\ req[r].at = "links"
    BY <1>9 DEF SeeLinks
  <2> HIDE DEF L
  <2>3. Going(r, next)
    BY <1>0, <1>1, <2>1, <2>2 DEF Going, Request, SeenAnother, Pays
  <2> QED BY <2>3, GoingOn
<1>10. CASE ForgotSee(r)
  <2> DEFINE next == [at |-> "store", user |-> u, links |-> LiveResets(u)]
  <2>1. Going(r, next)
    BY <1>0, <1>1, <1>2, <1>10 DEF ForgotSee, Going, Request, SeenAnother, Pays
  <2> QED BY <2>1, GoingOn
<1>11. CASE Rollback(r)
  BY <1>3, <1>11 DEF Rollback
<1> QED BY <1>4, <1>5, <1>6, <1>7, <1>8, <1>9, <1>10, <1>11

LEMMA AnsweredStep ==
  ASSUME SessionsInv, NEW r \in Requests, Answered(r)
  PROVE  SessionsInv'
<1>1. Going(r, Idle)
  BY DEF Answered, Going, Idle, Request, SeenAnother, Pays
<1> QED BY <1>1, GoingOn

-----------------------------------------------------------------------------
(* Every step *)

LEMMA ServeStep ==
  ASSUME SessionsInv, NEW r \in Requests, Serve(r)
  PROVE  SessionsInv'
  BY IssueStep, RegisterStep, RotateStep, SweepStep, ReadStep, PasswordStep, StoreStep,
     AdminReadStep, SwitchStep DEF Serve

LEMMA SessionsKeep == SessionsInv /\ [SessionsNext]_sessionVars => SessionsInv'
<1> SUFFICES ASSUME SessionsInv, [SessionsNext]_sessionVars
             PROVE  SessionsInv'
  OBVIOUS
<1>1. ASSUME NEW r \in Requests, Arrive(r) \/ Serve(r) \/ Answered(r) PROVE SessionsInv'
  BY <1>1, ArriveStep, ServeStep, AnsweredStep
<1>2. ASSUME NEW k \in Expiring, Expire(k) PROVE SessionsInv'
  BY <1>2, ExpireStep, SessionsAssumption
<1>3. CASE UNCHANGED sessionVars
  <2>1. SessionsTypeOK' /\ Known' /\ Issued'
    BY <1>3 DEF SessionsInv, SessionsTypeOK, Known, Issued, Registered, sessionVars
  <2>2. OneRedeemer' /\ LinksFresh' /\ PaysOnce'
    BY <1>3 DEF SessionsInv, OneRedeemer, LinksFresh, PaysOnce, Pays, Redeems, sessionVars
  <2>3. AdminsKept'
    BY <1>3 DEF SessionsInv, AdminsKept, AnAdminStays, ActiveAdmins, Active, Registered, SeenAnother,
                sessionVars
  <2> QED BY <2>1, <2>2, <2>3 DEF SessionsInv
<1> QED BY <1>1, <1>2, <1>3 DEF SessionsNext

-----------------------------------------------------------------------------
(* The theorems *)

LEMMA SessionsInvariance == SessionsSpec => []SessionsInv
<1>1. SessionsInit => SessionsInv
  BY SessionsInitHolds
<1>2. SessionsInv /\ [SessionsNext]_sessionVars => SessionsInv'
  BY SessionsKeep
<1> QED BY <1>1, <1>2, PTL DEF SessionsSpec

\* The tables and the requests in flight keep their types.
THEOREM SessionTypes == SessionsSpec => []SessionsTypeOK
<1>1. SessionsInv => SessionsTypeOK
  BY DEF SessionsInv
<1> QED BY <1>1, SessionsInvariance, PTL

\* A refresh token has at most one successor, whichever requests present it together
\* (refresh, auth.service.ts), and a reset link changes the password at most once.
THEOREM TokensRedeemedOnce == SessionsSpec => []TokensWorkOnce
<1>1. SessionsInv => TokensWorkOnce
  BY RedeemedOnceFromOne DEF SessionsInv, TokensWorkOnce, ResetOnce, LinksFresh
<1> QED BY <1>1, SessionsInvariance, PTL

\* The administrators of patchAdminUser cannot all switch each other off.
THEOREM LastAdminStays == SessionsSpec => []AnAdminStays
<1>1. SessionsInv => AnAdminStays
  BY DEF SessionsInv, AdminsKept
<1> QED BY <1>1, SessionsInvariance, PTL

-----------------------------------------------------------------------------
(* The tabs of a browser.  What they do to the API is a behaviour of Sessions, so
   that all of the above holds for them. *)

LEMMA WebSteps == SessionsInv /\ WebTypeOK /\ [Next]_vars => [SessionsNext]_sessionVars
<1> SUFFICES ASSUME SessionsInv, WebTypeOK, [Next]_vars
             PROVE  [SessionsNext]_sessionVars
  OBVIOUS
<1>1. ASSUME NEW r \in Requests, Sent(r)
      PROVE  Arrive(r) \/ UNCHANGED sessionVars
  <2>1. cookie \in TokenIds \cup {None}
    BY DEF WebTypeOK
  <2>2. ASSUME NEW b \in Tabs, NEW bearer \in BOOLEAN, TabLogout(b, r, bearer)
        PROVE  Arrive(r)
    <3>1. (cookie # None /\ cookie \notin expired => token[cookie].user \in Accounts \cup {None})
          /\ tab[b].user \in Accounts \cup {None}
      BY <2>1 DEF WebTypeOK, SessionsInv, SessionsTypeOK, Token
    <3>2. NoCredential(r) \/ \E u \in Accounts : Logout(r, u, cookie)
      BY <2>2, <3>1 DEF TabLogout
    <3> QED BY <2>1, <3>2 DEF Arrive
  <2> QED BY <1>1, <2>1, <2>2 DEF Sent, Bootstrap, TabRefresh, TabLogin, AskSession, Arrive
<1>2. ASSUME NEW r \in Requests, Receive(r) \/ Lost(r)
      PROVE  Answered(r) \/ UNCHANGED sessionVars
  BY <1>2 DEF Receive, Lost
<1>3. ASSUME NEW b \in Tabs, Reload(b)
      PROVE  UNCHANGED sessionVars
  BY <1>3 DEF Reload
<1>4. CASE Server \/ Elsewhere
  BY <1>4 DEF Server, Elsewhere, SessionsNext
<1>5. CASE UNCHANGED vars
  BY <1>5 DEF vars
<1> QED BY <1>1, <1>2, <1>3, <1>4, <1>5 DEF Next, SessionsNext

LEMMA WebTypesStay == SessionsInv /\ WebTypeOK /\ [Next]_vars => WebTypeOK'
<1> DEFINE TabRow == [status : Status, user : Accounts \cup {None}]
           CallRow == [tab : Tabs \cup {None}, kind : {"none", "empty", "refresh", "login", "logout"}]
<1> SUFFICES ASSUME SessionsInv, WebTypeOK, [Next]_vars PROVE WebTypeOK'
  OBVIOUS
<1>1. /\ cookie \in TokenIds \cup {None}
      /\ tab \in [Tabs -> TabRow] /\ call \in [Requests -> CallRow]
  BY DEF WebTypeOK
<1>2. SignedOut \in TabRow /\ NoCall \in CallRow
  BY DEF SignedOut, NoCall, Status
<1>3. ASSUME NEW r \in Requests, Sent(r)
      PROVE  WebTypeOK'
  <2>1. PICK b \in Tabs :
          \/ Bootstrap(b, r) \/ TabRefresh(b, r) \/ \E u \in Accounts : TabLogin(b, r, u)
          \/ \E bearer \in BOOLEAN : TabLogout(b, r, bearer)
    BY <1>3 DEF Sent
  <2>2. /\ cookie' = cookie
        /\ tab' = tab \/ tab' = [tab EXCEPT ![b].status = "loading"]
        /\ \E kind \in {"empty", "refresh", "login", "logout"} : Send(r, b, kind)
    BY <2>1 DEF Bootstrap, TabRefresh, TabLogin, TabLogout, AskSession
  <2>3. [tab[b] EXCEPT !.status = "loading"] \in TabRow
    BY <1>1 DEF Status
  <2>4. tab' \in [Tabs -> TabRow]
    BY <1>1, <2>2, <2>3
  <2>5. call' \in [Requests -> CallRow]
    BY <1>1, <2>2 DEF Send
  <2> QED BY <1>1, <2>2, <2>4, <2>5 DEF WebTypeOK
<1>4. ASSUME NEW r \in Requests, Receive(r)
      PROVE  WebTypeOK'
  <2>1. req[r] \in Request /\ req[r].at = "reply"
    BY <1>4 DEF Receive, Answered, SessionsInv, SessionsTypeOK
  <2>2. req[r].user \in Accounts \cup {None} /\ req[r].token \in TokenIds \cup {None}
    BY <2>1, RequestFields
  <2>3. call[r].tab \in Tabs
    BY <1>1, <1>4 DEF Receive
  <2>4. [status |-> "authenticated", user |-> req[r].user] \in TabRow
    BY <2>2 DEF Status
  <2>5. tab' \in [Tabs -> TabRow]
    BY <1>1, <1>2, <1>4, <2>3, <2>4 DEF Receive
  <2>6. cookie' \in TokenIds \cup {None} /\ call' \in [Requests -> CallRow]
    BY <1>1, <1>2, <1>4, <2>2 DEF Receive
  <2> QED BY <2>5, <2>6 DEF WebTypeOK
<1>5. ASSUME NEW r \in Requests, Lost(r)
      PROVE  WebTypeOK'
  BY <1>1, <1>2, <1>5 DEF Lost, WebTypeOK
<1>6. ASSUME NEW b \in Tabs, Reload(b)
      PROVE  WebTypeOK'
  <2>1. [status |-> "idle", user |-> None] \in TabRow
    BY DEF Status
  <2> QED BY <1>1, <1>2, <1>6, <2>1 DEF Reload, WebTypeOK
<1>7. CASE Server \/ Elsewhere \/ UNCHANGED vars
  BY <1>7 DEF Server, Elsewhere, vars, webVars, WebTypeOK
<1> QED BY <1>3, <1>4, <1>5, <1>6, <1>7 DEF Next

LEMMA WebInvariance == Spec => [](SessionsInv /\ WebTypeOK)
<1>1. Init => SessionsInv /\ WebTypeOK
  BY SessionsInitHolds DEF Init, WebTypeOK, NoCall, Status
<1>2. SessionsInv /\ WebTypeOK /\ [Next]_vars => (SessionsInv /\ WebTypeOK)'
  BY WebSteps, WebTypesStay, SessionsKeep
<1> QED BY <1>1, <1>2, PTL DEF Spec

\* The auth store of every tab is in one of its four states.
THEOREM WebTypes == Spec => []WebTypeOK
BY WebInvariance, PTL

\* The tabs of a browser, however many refreshes each has on its way and whichever answers are
\* lost, make the API behave as Sessions allows: what is proved of Sessions holds for them.
THEOREM WebIsSessions == Spec => SessionsSpec
<1>1. Init => SessionsInit
  BY DEF Init
<1>2. SessionsInv /\ WebTypeOK /\ [Next]_vars => [SessionsNext]_sessionVars
  BY WebSteps
<1> QED BY <1>1, <1>2, WebInvariance, PTL DEF Spec, SessionsSpec

-----------------------------------------------------------------------------
(* Wallets *)

\* A nonce not issued yet has been neither stored nor accepted nor signed.
UnusedIsNew ==
    \A n \in Nonces :
        challenge[n].user = Nobody =>
            accepted[n] = 0 /\ n \notin signed /\ \A a \in Addresses : wallet[a].nonce # n

\* A nonce issued names its address; a stored one stands in that address's row, unconsumed.
StoredIsOpen ==
    /\ \A n \in Nonces : challenge[n].user # Nobody => challenge[n].address \in Addresses
    /\ \A a \in Addresses :
         wallet[a].nonce # Nobody =>
           /\ accepted[wallet[a].nonce] = 0
           /\ challenge[wallet[a].nonce].address = a

\* The holder of the address has signed a challenge for it.
SignedIn(done, asked, a) == \E n \in done : asked[n] = [user |-> Holder[a], address |-> a]

Signed(a) == SignedIn(signed, challenge, a)

\* What a verification carries from one of its steps to the next.
Carried(x) ==
    /\ x.at = "consume" =>
         /\ challenge[x.nonce] = [user |-> x.user, address |-> x.address]
         /\ x.good => Holder[x.address] = x.user
    /\ x.at = "mark" => Signed(x.address)

WalletsInv ==
    /\ WalletsTypeOK
    /\ UnusedIsNew
    /\ StoredIsOpen
    /\ NonceOnce
    /\ \A c \in Calls : Carried(busy[c])
    /\ \A a \in Addresses : wallet[a].verified => Signed(a)

-----------------------------------------------------------------------------
\* The fields of a request in each state.
LEMMA CallFields ==
  ASSUME NEW x \in Call
  PROVE  /\ x.at # "free" => x.user \in Users /\ x.address \in Addresses
         /\ x.at = "consume" => x.nonce \in Nonces /\ x.good \in BOOLEAN
  BY DEF Call, Free

LEMMA NoRowIsRow == NoRow \in Row
  BY DEF NoRow, Row

LEMMA WalletsInitHolds == WalletsInit => WalletsInv
<1> SUFFICES ASSUME WalletsInit PROVE WalletsInv
  OBVIOUS
<1>1. WalletsTypeOK
  BY NoRowIsRow DEF WalletsInit, WalletsTypeOK, Call
<1>2. UnusedIsNew /\ StoredIsOpen /\ NonceOnce
  BY WalletsAssumption DEF WalletsInit, UnusedIsNew, StoredIsOpen, NonceOnce, NoRow
<1>3. \A c \in Calls : Carried(busy[c])
  BY DEF WalletsInit, Carried, Free
<1>4. \A a \in Addresses : ~wallet[a].verified
  BY DEF WalletsInit, NoRow
<1> QED BY <1>1, <1>2, <1>3, <1>4 DEF WalletsInv

\* The steps of a request that change no row.
LEMMA CallGoesOn ==
  ASSUME WalletsInv, NEW c \in Calls, NEW next \in Call, Then(c, next),
         UNCHANGED <<wallet, challenge, accepted, signed>>, Carried(next)
  PROVE  WalletsInv'
<1>1. /\ busy' \in [Calls -> Call] /\ busy'[c] = next
      /\ \A d \in Calls : d # c => busy'[d] = busy[d]
  BY DEF WalletsInv, WalletsTypeOK, Then
<1>2. WalletsTypeOK' /\ UnusedIsNew' /\ StoredIsOpen' /\ NonceOnce'
  BY <1>1 DEF WalletsInv, WalletsTypeOK, UnusedIsNew, StoredIsOpen, NonceOnce
<1>3. \A d \in Calls : Carried(busy'[d])
  BY <1>1 DEF WalletsInv
<1>4. \A d \in Calls : Carried(busy[d])'
  BY <1>3 DEF Carried, Signed
<1>5. \A a \in Addresses : (wallet[a].verified => Signed(a))'
  BY DEF WalletsInv, Signed
<1> QED BY <1>2, <1>4, <1>5 DEF WalletsInv

\* The steps of a request that change one row, storing and consuming no nonce.
LEMMA RowChanges ==
  ASSUME WalletsInv, NEW c \in Calls, NEW next \in Call, NEW a \in Addresses, NEW row \in Row,
         wallet' = [wallet EXCEPT ![a] = row],
         row.nonce \in {Nobody, wallet[a].nonce},
         row.verified => Signed(a),
         busy' = [busy EXCEPT ![c] = next], Carried(next),
         UNCHANGED <<challenge, accepted, signed>>
  PROVE  WalletsInv'
<1>1. /\ wallet' \in [Addresses -> Row] /\ busy' \in [Calls -> Call]
      /\ wallet'[a] = row /\ busy'[c] = next
      /\ \A d \in Calls : d # c => busy'[d] = busy[d]
      /\ \A b \in Addresses : b # a => wallet'[b] = wallet[b]
  BY DEF WalletsInv, WalletsTypeOK
<1>2. WalletsTypeOK'
  BY <1>1 DEF WalletsInv, WalletsTypeOK
<1>3. UnusedIsNew' /\ StoredIsOpen' /\ NonceOnce'
  BY <1>1, WalletsAssumption DEF WalletsInv, UnusedIsNew, StoredIsOpen, NonceOnce
<1>4. \A d \in Calls : Carried(busy'[d])
  BY <1>1 DEF WalletsInv
<1>5. \A d \in Calls : Carried(busy[d])'
  BY <1>4 DEF Carried, Signed
<1>6. \A b \in Addresses : wallet'[b].verified => Signed(b)
  BY <1>1 DEF WalletsInv
<1>7. \A b \in Addresses : (wallet[b].verified => Signed(b))'
  BY <1>6 DEF Signed
<1> QED BY <1>2, <1>3, <1>5, <1>7 DEF WalletsInv

LEMMA FreeIsCall == Free \in Call /\ Carried(Free)
  BY DEF Free, Call, Carried

LEMMA NonceReadStep ==
  ASSUME WalletsInv, NEW c \in Calls, NEW u \in Users, NEW a \in Addresses,
         NonceRead(c, u, a) \/ UnlinkRead(c, u, a)
  PROVE  WalletsInv'
<1>1. PICK at \in {"update", "create", "delete"} :
        Then(c, [at |-> at, user |-> u, address |-> a]) /\ UNCHANGED <<wallet, challenge, accepted, signed>>
  BY DEF NonceRead, UnlinkRead
<1> DEFINE next == [at |-> at, user |-> u, address |-> a]
<1>2. next \in Call /\ Carried(next)
  BY <1>1 DEF Call, Carried
<1> QED BY <1>1, <1>2, CallGoesOn

LEMMA VerifyReadStep ==
  ASSUME WalletsInv, NEW c \in Calls, NEW n \in Nonces, NEW good \in BOOLEAN, VerifyRead(c, n, good)
  PROVE  WalletsInv'
<1> DEFINE u == challenge[n].user
           a == challenge[n].address
           consume == [at |-> "consume", user |-> u, address |-> a, nonce |-> n, good |-> good]
           clear == [at |-> "clear", user |-> u, address |-> a]
<1>1. u \in Users /\ a \in Addresses /\ challenge[n] = [user |-> u, address |-> a]
  BY DEF VerifyRead, WalletsInv, WalletsTypeOK, StoredIsOpen
<1>2. UNCHANGED <<wallet, challenge, accepted, signed>> /\ (good => Holder[a] = u)
  BY DEF VerifyRead
<1>3. consume \in Call /\ clear \in Call /\ Carried(consume) /\ Carried(clear)
  BY <1>1, <1>2 DEF Call, Carried
<1>4. Then(c, consume) \/ Then(c, clear)
  BY DEF VerifyRead
<1> QED BY <1>2, <1>3, <1>4, CallGoesOn

LEMMA NonceWriteStep ==
  ASSUME WalletsInv, NEW c \in Calls, NonceWrite(c)
  PROVE  WalletsInv'
<1> DEFINE a == busy[c].address
           u == busy[c].user
           n == CHOOSE i \in Unused : TRUE
           row == [owner |-> IF Exists(a) THEN wallet[a].owner ELSE u,
                   verified |-> wallet[a].verified, nonce |-> n, fresh |-> TRUE]
           asked == [user |-> u, address |-> a]
<1>1. a \in Addresses /\ u \in Users
  BY CallFields DEF WalletsInv, WalletsTypeOK, NonceWrite
<1>2. Then(c, Free) /\ UNCHANGED <<accepted, signed>>
  BY DEF NonceWrite
<1>3. CASE UNCHANGED <<wallet, challenge>>
  BY <1>2, <1>3, FreeIsCall, CallGoesOn
<1>4. CASE /\ Unused # {}
           /\ wallet' = [wallet EXCEPT ![a] = row]
           /\ challenge' = [challenge EXCEPT ![n] = asked]
  <2>1. n \in Nonces /\ challenge[n].user = Nobody
    BY <1>4 DEF Unused
  <2>2. accepted[n] = 0 /\ n \notin signed /\ \A b \in Addresses : wallet[b].nonce # n
    BY <2>1 DEF WalletsInv, UnusedIsNew
  <2>3. wallet[a] \in Row /\ u # Nobody /\ n # Nobody
    BY <1>1, <2>1, WalletsAssumption DEF WalletsInv, WalletsTypeOK
  <2>4. row \in Row /\ row.nonce = n /\ row.verified = wallet[a].verified
    BY <1>1, <2>1, <2>3 DEF Row
  <2> HIDE DEF n, row
  <2>5. /\ wallet' \in [Addresses -> Row] /\ wallet'[a] = row
        /\ \A b \in Addresses : b # a => wallet'[b] = wallet[b]
    BY <1>1, <1>4, <2>4 DEF WalletsInv, WalletsTypeOK
  <2>6. /\ challenge' \in [Nonces -> [user : Users \cup {Nobody}, address : Addresses \cup {Nobody}]]
        /\ challenge'[n] = asked
        /\ \A m \in Nonces : m # n => challenge'[m] = challenge[m]
    BY <1>1, <1>4, <2>1 DEF WalletsInv, WalletsTypeOK
  <2>7. /\ busy' \in [Calls -> Call] /\ busy'[c] = Free
        /\ \A d \in Calls : d # c => busy'[d] = busy[d]
    BY <1>2, FreeIsCall DEF WalletsInv, WalletsTypeOK, Then
  <2>8. WalletsTypeOK' /\ NonceOnce'
    BY <1>2, <2>5, <2>6, <2>7 DEF WalletsInv, WalletsTypeOK, NonceOnce
  <2>9. UnusedIsNew'
    BY <1>2, <2>3, <2>4, <2>5, <2>6 DEF WalletsInv, UnusedIsNew
  <2>10. StoredIsOpen'
    <3>1. \A m \in Nonces : challenge'[m].user # Nobody => challenge'[m].address \in Addresses
      BY <1>1, <2>6 DEF WalletsInv, StoredIsOpen
    <3>2. \A b \in Addresses : b # a => wallet[b].nonce \in Nonces \cup {Nobody}
      BY DEF WalletsInv, WalletsTypeOK, Row
    <3> QED BY <1>2, <2>2, <2>4, <2>5, <2>6, <3>1, <3>2 DEF WalletsInv, StoredIsOpen
  <2>11. \A b \in Addresses : Signed(b) => SignedIn(signed', challenge', b)
    BY <1>2, <2>2, <2>6 DEF Signed, SignedIn, WalletsInv, WalletsTypeOK
  <2>12. \A d \in Calls : Carried(busy[d])'
    <3>0. Carried(busy[c])'
      <4>1. busy'[c].at = "free"
        BY <2>7 DEF Free
      <4> QED BY <4>1 DEF Carried
    <3> SUFFICES ASSUME NEW d \in Calls, d # c PROVE Carried(busy[d])'
      BY <3>0
    <3>1. busy'[d] = busy[d] /\ busy[d] \in Call
      BY <2>7 DEF WalletsInv, WalletsTypeOK
    <3>2. busy[d].at = "consume" =>
            /\ challenge'[busy[d].nonce] = [user |-> busy[d].user, address |-> busy[d].address]
            /\ busy[d].good => Holder[busy[d].address] = busy[d].user
      <4> SUFFICES ASSUME busy[d].at = "consume"
                   PROVE  /\ challenge'[busy[d].nonce] =
                               [user |-> busy[d].user, address |-> busy[d].address]
                          /\ busy[d].good => Holder[busy[d].address] = busy[d].user
        OBVIOUS
      <4>1. /\ challenge[busy[d].nonce] = [user |-> busy[d].user, address |-> busy[d].address]
            /\ busy[d].good => Holder[busy[d].address] = busy[d].user
        BY DEF WalletsInv, Carried
      <4>2. busy[d].nonce \in Nonces /\ busy[d].user # Nobody
        BY <3>1, CallFields, WalletsAssumption
      <4>3. busy[d].nonce # n
        BY <2>1, <4>1, <4>2
      <4> QED BY <2>6, <4>1, <4>2, <4>3
    <3>3. busy[d].at = "mark" => SignedIn(signed', challenge', busy[d].address)
      BY <2>11, <3>1, CallFields DEF WalletsInv, Carried
    <3> QED BY <3>1, <3>2, <3>3 DEF Carried, Signed
  <2>13. \A b \in Addresses : (wallet[b].verified => Signed(b))'
    BY <1>1, <2>4, <2>5, <2>11 DEF WalletsInv, Signed
  <2> QED BY <2>8, <2>9, <2>10, <2>12, <2>13 DEF WalletsInv
<1> QED BY <1>3, <1>4 DEF NonceWrite

LEMMA ClearStep ==
  ASSUME WalletsInv, NEW c \in Calls, VerifyClear(c)
  PROVE  WalletsInv'
<1> DEFINE a == busy[c].address
           row == [wallet[a] EXCEPT !.nonce = Nobody, !.fresh = FALSE]
<1>1. a \in Addresses /\ wallet[a] \in Row
  BY CallFields DEF WalletsInv, WalletsTypeOK, VerifyClear
<1>2. Then(c, Free) /\ UNCHANGED <<challenge, accepted, signed>>
  BY DEF VerifyClear
<1>3. row \in Row /\ row.nonce = Nobody /\ row.verified = wallet[a].verified
  BY <1>1 DEF Row
<1>4. CASE Exists(a)
  <2>1. wallet' = [wallet EXCEPT ![a] = row]
    BY <1>1, <1>4 DEF VerifyClear, WalletsInv, WalletsTypeOK, Row
  <2>2. row.verified => Signed(a)
    BY <1>1, <1>3 DEF WalletsInv
  <2> HIDE DEF row, a
  <2> QED BY <1>1, <1>2, <1>3, <2>1, <2>2, FreeIsCall, RowChanges DEF Then
<1>5. CASE ~Exists(a)
  <2>1. UNCHANGED <<wallet, challenge, accepted, signed>>
    BY <1>2, <1>5 DEF VerifyClear
  <2> QED BY <1>2, <2>1, FreeIsCall, CallGoesOn
<1> QED BY <1>4, <1>5

LEMMA MarkStep ==
  ASSUME WalletsInv, NEW c \in Calls, VerifyMark(c)
  PROVE  WalletsInv'
<1> DEFINE a == busy[c].address
           row == [wallet[a] EXCEPT !.verified = TRUE]
<1>1. a \in Addresses /\ wallet[a] \in Row /\ Signed(a)
  BY CallFields DEF WalletsInv, WalletsTypeOK, VerifyMark, Carried
<1>2. Then(c, Free) /\ UNCHANGED <<challenge, accepted, signed>>
  BY DEF VerifyMark
<1>3. row \in Row /\ row.nonce = wallet[a].nonce
  BY <1>1 DEF Row
<1>4. CASE Exists(a)
  <2>1. wallet' = [wallet EXCEPT ![a] = row]
    BY <1>4 DEF VerifyMark
  <2> HIDE DEF row, a
  <2> QED BY <1>1, <1>2, <1>3, <2>1, FreeIsCall, RowChanges DEF Then
<1>5. CASE ~Exists(a)
  <2>1. UNCHANGED <<wallet, challenge, accepted, signed>>
    BY <1>2, <1>5 DEF VerifyMark
  <2> QED BY <1>2, <2>1, FreeIsCall, CallGoesOn
<1> QED BY <1>4, <1>5

LEMMA DeleteStep ==
  ASSUME WalletsInv, NEW c \in Calls, UnlinkDelete(c)
  PROVE  WalletsInv'
<1> DEFINE a == busy[c].address
<1>1. a \in Addresses
  BY CallFields DEF WalletsInv, WalletsTypeOK, UnlinkDelete
<1>2. /\ Then(c, Free) /\ UNCHANGED <<challenge, accepted, signed>>
      /\ wallet' = [wallet EXCEPT ![a] = NoRow]
  BY DEF UnlinkDelete
<1>3. NoRow \in Row /\ NoRow.nonce = Nobody /\ ~NoRow.verified
  BY NoRowIsRow DEF NoRow
<1> HIDE DEF a
<1> QED BY <1>1, <1>2, <1>3, FreeIsCall, RowChanges DEF Then

LEMMA ExpiresStep ==
  ASSUME WalletsInv, NEW a \in Addresses, NonceExpires(a)
  PROVE  WalletsInv'
<1> DEFINE row == [wallet[a] EXCEPT !.fresh = FALSE]
<1>1. /\ wallet' = [wallet EXCEPT ![a] = row] /\ wallet[a] \in Row
      /\ UNCHANGED <<challenge, accepted, signed, busy>>
  BY DEF WalletsInv, WalletsTypeOK, NonceExpires
<1>2. row \in Row /\ row.nonce = wallet[a].nonce /\ row.verified = wallet[a].verified
  BY <1>1 DEF Row
<1> HIDE DEF row
<1>3. /\ wallet' \in [Addresses -> Row] /\ wallet'[a] = row
      /\ \A b \in Addresses : b # a => wallet'[b] = wallet[b]
  BY <1>1, <1>2 DEF WalletsInv, WalletsTypeOK
<1>4. WalletsTypeOK' /\ UnusedIsNew' /\ StoredIsOpen' /\ NonceOnce'
  BY <1>1, <1>2, <1>3 DEF WalletsInv, WalletsTypeOK, UnusedIsNew, StoredIsOpen, NonceOnce
<1>5. \A d \in Calls : Carried(busy[d])'
  BY <1>1 DEF WalletsInv, Carried, Signed
<1>6. \A b \in Addresses : (wallet[b].verified => Signed(b))'
  BY <1>1, <1>2, <1>3 DEF WalletsInv, Signed
<1> QED BY <1>4, <1>5, <1>6 DEF WalletsInv

\* The guarded update finds the nonce in a row, hence unconsumed; afterwards it is in none.
LEMMA ConsumeStep ==
  ASSUME WalletsInv, NEW c \in Calls, VerifyConsume(c)
  PROVE  WalletsInv'
<1> DEFINE a == busy[c].address
           n == busy[c].nonce
           u == busy[c].user
           row == [wallet[a] EXCEPT !.nonce = Nobody, !.fresh = FALSE]
           next == IF busy[c].good THEN [at |-> "mark", user |-> u, address |-> a] ELSE Free
<1>1. /\ busy[c] \in Call /\ busy[c].at = "consume" /\ Carried(busy[c])
      /\ a \in Addresses /\ n \in Nonces /\ u \in Users /\ wallet[a] \in Row
  BY CallFields DEF WalletsInv, WalletsTypeOK, VerifyConsume
<1>2. challenge' = challenge
  BY DEF VerifyConsume
<1>3. CASE ~Challenged(a, n)
  <2>1. Then(c, Free) /\ UNCHANGED <<wallet, challenge, accepted, signed>>
    BY <1>2, <1>3 DEF VerifyConsume
  <2> QED BY <2>1, FreeIsCall, CallGoesOn
<1>4. CASE Challenged(a, n)
  <2>1. /\ wallet' = [wallet EXCEPT ![a] = row]
        /\ accepted' = [accepted EXCEPT ![n] = @ + 1]
        /\ signed' = IF busy[c].good THEN signed \cup {n} ELSE signed
        /\ Then(c, next)
    <3>1. /\ wallet' = [wallet EXCEPT ![a].nonce = Nobody, ![a].fresh = FALSE]
          /\ accepted' = [accepted EXCEPT ![n] = @ + 1]
          /\ signed' = IF busy[c].good THEN signed \cup {n} ELSE signed
          /\ Then(c, next)
      BY <1>4 DEF VerifyConsume
    <3> QED BY <1>1, <3>1 DEF WalletsInv, WalletsTypeOK, Row
  <2>2. row \in Row /\ row.nonce = Nobody /\ row.verified = wallet[a].verified
    BY <1>1 DEF Row
  <2>3. accepted[n] = 0 /\ wallet[a].nonce = n /\ n # Nobody
    BY <1>1, <1>4, WalletsAssumption DEF Challenged, WalletsInv, StoredIsOpen
  <2>4. next \in Call
    BY <1>1 DEF Call
  <2>5. /\ challenge[n] = [user |-> u, address |-> a] /\ (busy[c].good => Holder[a] = u)
    BY <1>1 DEF Carried
  <2>6. next.at = "mark" => next.address = a /\ Holder[a] = u /\ busy[c].good
    BY <2>5 DEF Free
  <2>7. next.at # "consume"
    BY DEF Free
  <2> HIDE DEF row, next, a, n, u
  <2>8. /\ wallet' \in [Addresses -> Row] /\ wallet'[a] = row
        /\ \A b \in Addresses : b # a => wallet'[b] = wallet[b]
    BY <1>1, <2>1, <2>2 DEF WalletsInv, WalletsTypeOK
  <2>9. /\ accepted' \in [Nonces -> Nat] /\ accepted'[n] = 1
        /\ \A m \in Nonces : m # n => accepted'[m] = accepted[m]
        /\ signed' \in {signed, signed \cup {n}} /\ signed' \subseteq Nonces
        /\ busy[c].good => n \in signed'
    BY <1>1, <2>1, <2>3 DEF WalletsInv, WalletsTypeOK
  <2>10. /\ busy' \in [Calls -> Call] /\ busy'[c] = next
         /\ \A d \in Calls : d # c => busy'[d] = busy[d]
    BY <2>1, <2>4 DEF WalletsInv, WalletsTypeOK, Then
  <2>11. WalletsTypeOK' /\ NonceOnce'
    BY <1>2, <2>8, <2>9, <2>10 DEF WalletsInv, WalletsTypeOK, NonceOnce
  <2>12. UnusedIsNew'
    <3>1. challenge[n].user # Nobody
      BY <1>1, <2>5, WalletsAssumption
    <3> QED BY <1>2, <2>2, <2>3, <2>8, <2>9, <3>1, WalletsAssumption DEF WalletsInv, UnusedIsNew
  <2>13. StoredIsOpen'
    <3>1. \A b \in Addresses : b # a /\ wallet[b].nonce # Nobody => wallet[b].nonce # n
      BY <2>5 DEF WalletsInv, StoredIsOpen
    <3>2. \A b \in Addresses : wallet[b].nonce \in Nonces \cup {Nobody}
      BY DEF WalletsInv, WalletsTypeOK, Row
    <3> QED BY <1>2, <2>2, <2>8, <2>9, <3>1, <3>2 DEF WalletsInv, StoredIsOpen
  <2>14. \A b \in Addresses : Signed(b) => SignedIn(signed', challenge', b)
    BY <1>2, <2>9 DEF Signed, SignedIn
  <2>15. Holder[a] = u /\ busy[c].good => SignedIn(signed', challenge', a)
    BY <1>1, <1>2, <2>5, <2>9 DEF SignedIn
  <2>16. \A d \in Calls : Carried(busy[d])'
    <3> SUFFICES ASSUME NEW d \in Calls PROVE Carried(busy[d])'
      OBVIOUS
    <3>1. CASE d = c
      <4>1. next.at = "mark" => SignedIn(signed', challenge', next.address)
        BY <2>6, <2>15
      <4> QED BY <2>7, <2>10, <3>1, <4>1 DEF Carried, Signed
    <3>2. CASE d # c
      <4>1. busy'[d] = busy[d] /\ busy[d] \in Call /\ Carried(busy[d])
        BY <2>10, <3>2 DEF WalletsInv, WalletsTypeOK
      <4>2. busy[d].at = "mark" => SignedIn(signed', challenge', busy[d].address)
        BY <2>14, <4>1, CallFields DEF Carried
      <4> QED BY <1>2, <4>1, <4>2 DEF Carried, Signed
    <3> QED BY <3>1, <3>2
  <2>17. \A b \in Addresses : (wallet[b].verified => Signed(b))'
    BY <1>1, <2>2, <2>8, <2>14 DEF WalletsInv, Signed
  <2> QED BY <2>11, <2>12, <2>13, <2>16, <2>17 DEF WalletsInv
<1> QED BY <1>3, <1>4

-----------------------------------------------------------------------------
LEMMA WalletsKeep == WalletsInv /\ [WalletsNext]_walletVars => WalletsInv'
<1> SUFFICES ASSUME WalletsInv, [WalletsNext]_walletVars PROVE WalletsInv'
  OBVIOUS
<1>1. CASE UNCHANGED walletVars
  <2>1. WalletsTypeOK' /\ UnusedIsNew' /\ StoredIsOpen' /\ NonceOnce'
    BY <1>1 DEF WalletsInv, WalletsTypeOK, UnusedIsNew, StoredIsOpen, NonceOnce, walletVars
  <2>2. \A c \in Calls : Carried(busy[c])'
    BY <1>1 DEF WalletsInv, Carried, Signed, walletVars
  <2>3. \A a \in Addresses : (wallet[a].verified => Signed(a))'
    BY <1>1 DEF WalletsInv, Signed, walletVars
  <2> QED BY <2>1, <2>2, <2>3 DEF WalletsInv
<1>2. CASE WalletsNext
  BY <1>2, NonceReadStep, VerifyReadStep, NonceWriteStep, ClearStep, ConsumeStep, MarkStep,
     DeleteStep, ExpiresStep DEF WalletsNext
<1> QED BY <1>1, <1>2

LEMMA WalletsInvariance == WalletsSpec => []WalletsInv
  BY WalletsInitHolds, WalletsKeep, PTL DEF WalletsSpec

\* Rows, challenges and requests in flight keep their types.
THEOREM WalletTypes == WalletsSpec => []WalletsTypeOK
<1>1. WalletsInv => WalletsTypeOK
  BY DEF WalletsInv
<1> QED BY <1>1, WalletsInvariance, PTL

\* A nonce is consumed by one verification at most (the guarded update of
\* verifyWalletSignature), whatever number of requests present it together.
THEOREM NonceConsumedOnce == WalletsSpec => []NonceOnce
<1>1. WalletsInv => NonceOnce
  BY DEF WalletsInv
<1> QED BY <1>1, WalletsInvariance, PTL

\* An address is verified only after a good signature of its key was accepted, of a challenge
\* for it that was issued to its holder, whatever is linked and unlinked meanwhile.
THEOREM VerifiedAfterSigning == WalletsSpec => []VerifiedWasSigned
<1>1. WalletsInv => VerifiedWasSigned
  BY DEF WalletsInv, VerifiedWasSigned, Signed, SignedIn
<1> QED BY <1>1, WalletsInvariance, PTL
=============================================================================
