----------------------------- MODULE MCCheckout -----------------------------
(* Small instances of Checkout for TLC: one browser, one match. *)
EXTENDS Checkout

\* p1 and p2 are purchases of the match; s1 settles p1.
MCFits == [h \in Hashes |-> IF h \in {"p1", "p2"} THEN Matches ELSE {}]
MCSettles == [h \in Hashes |-> IF h = "s1" THEN "p1" ELSE None]
MCPanelOf == [s \in Reporters |-> IF s = "settle" THEN "settle" ELSE "purchase"]
MCBrowserOf == [p \in Panels |-> "b1"]
MCActionOf == [p \in Panels |-> p]
MCFirstKeys == [b \in Browsers |-> [purchase |-> "kp", settle |-> "ks", reject |-> "kr"]]

\* An execution is of one part.  "pay": one panel, one click after the other, at most two
\* payments, and lists of trades that the page reads once, as it opens, and shows at once.
\* "twice": a second click beside the first, each with a payment of its own, of which the first
\* may revert, while the API lives, its answers arrive and no list of trades does.  "settle": one
\* payment and its settlement, nothing declined, lists that arrive late.
VARIABLE part

mcVars == <<checkoutVars, part>>

MCInit == CheckoutInit /\ part \in {"pay", "twice", "settle"}

AtRest(s) == submit'[s].step = "rest"

Declines(s) == submit'[s].step = "decline"

\* A bound on prompts: there is something left to sign.
PromptsSign ==
    \A s \in Reporters :
        submit[s].step = "network" /\ submit'[s].step = "prompt" =>
            Signable(s) # {} /\ (part = "twice" => (IF s = "second" THEN "p2" ELSE "p1") \notin signed)

\* A page reads the trades before it has heard of any, and the list that was read is shown next.
ListsArrive ==
    \A p \in Panels : /\ panel[p].list # NoTrade => panel'[p].list = NoTrade
                      /\ panel'[p].list # NoTrade => panel[p].api = NoTrade

MCPart ==
    \/ part = "pay" /\ AtRest("second") /\ panel'["settle"] = Opened /\ ListsArrive
    \/ part = "settle" /\ AtRest("second") /\ "p2" \notin signed'
       /\ \A s \in Reporters : ~Declines(s)
    \/ /\ part = "twice" /\ AtRest("settle") /\ ~Declines("second")
       /\ submit'["purchase"].hash # "p2" /\ submit'["second"].hash # "p1"
       /\ chain'["p2"] # "reverted"
       /\ panel' # panel => submit' # submit
       /\ \A s \in Reporters : Answered(s) /\ (req[s].pc = "chain" => req'[s] # Idle)

MCNext == CheckoutNext /\ PromptsSign /\ MCPart /\ UNCHANGED part

MCPatientSpec ==
    MCInit /\ [][PatientNext /\ UNCHANGED part]_mcVars /\ PatientFairness

MCSpec == MCInit /\ [][MCNext]_mcVars /\ CheckoutFairness
=============================================================================
