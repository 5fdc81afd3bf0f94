------------------------------ MODULE Wallets -------------------------------
(***************************************************************************)
(* Linking a wallet: the challenge, its verification and the unlinking of  *)
(* wallet.service.ts, as wallet-panel.tsx drives them.  A row is found by  *)
(* its address; reads and writes of one request are steps of their own.    *)
(***************************************************************************)
EXTENDS Naturals

CONSTANTS
    Users, Addresses,
    Holder,   \* who holds the key of each address
    Nonces,   \* the random nonces that may be issued
    Calls,    \* the requests the server handles at a time
    Nobody

ASSUME WalletsAssumption ==
    /\ Holder \in [Addresses -> Users]
    /\ Nobody \notin Users \cup Nonces

VARIABLES
    wallet,     \* the Wallet row of each address, owner = Nobody without one
    challenge,  \* for each nonce issued: to whom, for which address
    accepted,   \* how many verifications each nonce was consumed by
    signed,     \* the nonces consumed with a signature that recovers the address
    busy        \* what each request has read and does next

walletVars == <<wallet, challenge, accepted, signed, busy>>

Row == [owner : Users \cup {Nobody}, verified : BOOLEAN,
        nonce : Nonces \cup {Nobody}, fresh : BOOLEAN]

NoRow == [owner |-> Nobody, verified |-> FALSE, nonce |-> Nobody, fresh |-> FALSE]

Free == [at |-> "free"]

Call ==
    {Free}
    \cup [at : {"create", "update"}, user : Users, address : Addresses]
    \cup [at : {"consume"}, user : Users, address : Addresses, nonce : Nonces, good : BOOLEAN]
    \cup [at : {"mark", "clear", "delete"}, user : Users, address : Addresses]

Exists(a) == wallet[a].owner # Nobody

Unused == {n \in Nonces : challenge[n].user = Nobody}

Then(c, next) == busy' = [busy EXCEPT ![c] = next]

\* requestWalletNonce reads who has the address: another account's is refused.
NonceRead(c, u, a) ==
    /\ busy[c] = Free
    /\ wallet[a].owner \in {u, Nobody}
    /\ Then(c, [at |-> IF Exists(a) THEN "update" ELSE "create", user |-> u, address |-> a])
    /\ UNCHANGED <<wallet, challenge, accepted, signed>>

\* The write: it fails when the row it meant to update is gone, or the one to create is there.
NonceWrite(c) ==
    /\ busy[c].at \in {"create", "update"}
    /\ LET a == busy[c].address
           possible == Exists(a) <=> busy[c].at = "update"
       IN  \/ /\ possible
              /\ Unused # {}
              /\ LET n == CHOOSE i \in Unused : TRUE
                 IN  /\ wallet' = [wallet EXCEPT ![a] =
                                     [owner |-> IF Exists(a) THEN @.owner ELSE busy[c].user,
                                      verified |-> @.verified, nonce |-> n, fresh |-> TRUE]]
                     /\ challenge' = [challenge EXCEPT ![n] =
                                        [user |-> busy[c].user, address |-> a]]
           \/ ~possible /\ UNCHANGED <<wallet, challenge>>
    /\ Then(c, Free)
    /\ UNCHANGED <<accepted, signed>>

\* verifyWalletSignature: its checks on the row it reads.  good: the signature is the holder's,
\* who signs the challenges issued to him.  A mismatch changes nothing.
VerifyRead(c, n, good) ==
    /\ busy[c] = Free
    /\ challenge[n].user # Nobody
    /\ LET u == challenge[n].user
           a == challenge[n].address
       IN  /\ wallet[a].owner = u
           /\ good => Holder[a] = u
           /\ \/ /\ wallet[a].nonce = n /\ wallet[a].fresh
                 /\ Then(c, [at |-> "consume", user |-> u, address |-> a,
                             nonce |-> n, good |-> good])
              \/ /\ wallet[a].nonce # Nobody /\ ~wallet[a].fresh
                 /\ Then(c, [at |-> "clear", user |-> u, address |-> a])
    /\ UNCHANGED <<wallet, challenge, accepted, signed>>

\* An expired challenge is cleared, whichever one the row carries by then.
VerifyClear(c) ==
    /\ busy[c].at = "clear"
    /\ LET a == busy[c].address
       IN  wallet' = IF Exists(a)
                     THEN [wallet EXCEPT ![a].nonce = Nobody, ![a].fresh = FALSE]
                     ELSE wallet
    /\ Then(c, Free)
    /\ UNCHANGED <<challenge, accepted, signed>>

\* Mutant: the update finds the row by its address alone.
Challenged_AnyNonce(a, n) == Exists(a)

Challenged(a, n) == wallet[a].nonce = n /\ wallet[a].fresh

\* Mutant: the signature is checked only to find out who signed.
VerifyConsume_AnySignature(c) ==
    /\ busy[c].at = "consume"
    /\ LET a == busy[c].address
           n == busy[c].nonce
       IN  /\ Challenged(a, n)
           /\ wallet' = [wallet EXCEPT ![a].nonce = Nobody, ![a].fresh = FALSE]
           /\ accepted' = [accepted EXCEPT ![n] = @ + 1]
           /\ signed' = IF busy[c].good THEN signed \cup {n} ELSE signed
           /\ Then(c, [at |-> "mark", user |-> busy[c].user, address |-> a])
    /\ UNCHANGED challenge

\* The guarded update consumes the nonce, good signature or not; only a good one goes on.
VerifyConsume(c) ==
    /\ busy[c].at = "consume"
    /\ LET a == busy[c].address
           n == busy[c].nonce
       IN  \/ /\ Challenged(a, n)
              /\ wallet' = [wallet EXCEPT ![a].nonce = Nobody, ![a].fresh = FALSE]
              /\ accepted' = [accepted EXCEPT ![n] = @ + 1]
              /\ signed' = IF busy[c].good THEN signed \cup {n} ELSE signed
              /\ Then(c, IF busy[c].good
                         THEN [at |-> "mark", user |-> busy[c].user, address |-> a]
                         ELSE Free)
           \/ /\ ~Challenged(a, n)
              /\ Then(c, Free)
              /\ UNCHANGED <<wallet, accepted, signed>>
    /\ UNCHANGED challenge

\* The address is marked verified; the row is found by address alone.
VerifyMark(c) ==
    /\ busy[c].at = "mark"
    /\ LET a == busy[c].address
       IN  wallet' = IF Exists(a) THEN [wallet EXCEPT ![a].verified = TRUE] ELSE wallet
    /\ Then(c, Free)
    /\ UNCHANGED <<challenge, accepted, signed>>

\* unlinkWallet reads the owner, then deletes by address.
UnlinkRead(c, u, a) ==
    /\ busy[c] = Free
    /\ wallet[a].owner = u
    /\ Then(c, [at |-> "delete", user |-> u, address |-> a])
    /\ UNCHANGED <<wallet, challenge, accepted, signed>>

UnlinkDelete(c) ==
    /\ busy[c].at = "delete"
    /\ wallet' = [wallet EXCEPT ![busy[c].address] = NoRow]
    /\ Then(c, Free)
    /\ UNCHANGED <<challenge, accepted, signed>>

\* Five minutes pass.
NonceExpires(a) ==
    /\ wallet[a].fresh
    /\ wallet' = [wallet EXCEPT ![a].fresh = FALSE]
    /\ UNCHANGED <<challenge, accepted, signed, busy>>

WalletsInit ==
    /\ wallet = [a \in Addresses |-> NoRow]
    /\ challenge = [n \in Nonces |-> [user |-> Nobody, address |-> Nobody]]
    /\ accepted = [n \in Nonces |-> 0]
    /\ signed = {}
    /\ busy = [c \in Calls |-> Free]

WalletsNext ==
    \/ \E c \in Calls :
         \/ \E u \in Users, a \in Addresses : NonceRead(c, u, a) \/ UnlinkRead(c, u, a)
         \/ \E n \in Nonces, good \in BOOLEAN : VerifyRead(c, n, good)
         \/ NonceWrite(c) \/ VerifyClear(c) \/ VerifyConsume(c) \/ VerifyMark(c)
         \/ UnlinkDelete(c)
    \/ \E a \in Addresses : NonceExpires(a)

WalletsSpec == WalletsInit /\ [][WalletsNext]_walletVars

-----------------------------------------------------------------------------
\* Wallet rows, nonces and the requests between a read and its write are of their
\* types.
WalletsTypeOK ==
    /\ wallet \in [Addresses -> Row]
    /\ challenge \in [Nonces -> [user : Users \cup {Nobody}, address : Addresses \cup {Nobody}]]
    /\ accepted \in [Nonces -> Nat]
    /\ signed \subseteq Nonces
    /\ busy \in [Calls -> Call]

\* A captured signature cannot be replayed: a nonce is consumed by one verification at most,
\* however many present it at the same time.
NonceOnce == \A n \in Nonces : accepted[n] <= 1

\* An address is verified only after a signature of its key was accepted, of a challenge for
\* this address that was issued to the holder: another account's attempts, or a bad signature,
\* never get there, whatever they overlap with.
VerifiedWasSigned ==
    \A a \in Addresses :
        wallet[a].verified =>
            \E n \in signed : challenge[n] = [user |-> Holder[a], address |-> a]

\* Linking proves control of the address: who has a verified address holds its key.
VerifiedByItsOwner ==
    \A a \in Addresses : wallet[a].verified => wallet[a].owner = Holder[a]
=============================================================================
