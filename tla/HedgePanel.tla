---------------------------- MODULE HedgePanel ----------------------------
(***************************************************************************)
(* The purchase panel of one position (apps/web/src/components/            *)
(* hedge-panel.tsx) and what it meets at the server: the challenge that    *)
(* the wallet signs (wallet-auth.ts), the quote route, which awaits chain  *)
(* and vendor between checking the proof and issuing the quote, and the    *)
(* status route.  Of the ledger it has the quotes of the position, which   *)
(* lapse, are paid and are settled as module CertificateLedger says.       *)
(***************************************************************************)
EXTENDS Naturals, Sequences, FiniteSets

CONSTANTS
  Looks,           \* status requests under way at the same time
  NoLook,
  NonceCap,        \* MAX_NONCES
  MaxQuotes, MaxChallenges   \* bounds of the model

ASSUME PanelAssumption ==
  NoLook \notin Looks /\ NonceCap \in Nat /\ MaxQuotes \in Nat /\ MaxChallenges \in Nat

VARIABLES
  panel,     \* the state of the component
  looks,     \* its status requests
  quotes,    \* in the ledger, in the order of their issue
  past,      \* quotes past validUntilTs
  nonces,    \* the challenges the server knows
  stale,     \* challenges past their two minutes
  minted,    \* how many were made
  posts,     \* signed requests for a quote, which may arrive late or again
  checked,   \* those whose proof was accepted and whose quote is being priced
  answers    \* of the quote route: the quote issued, or 0 for an error

panelVars ==
  <<panel, looks, quotes, past, nonces, stale, minted, posts, checked, answers>>

Phases == {"idle", "loading", "error", "quote", "payment", "active", "done"}

Challenges == 1..MaxChallenges

Quote ==
  [status : {"open", "lapsed", "consumed"}, cert : {"none", "active", "settled"},
   proof : Challenges]

Panel ==
  [open : BOOLEAN, phase : Phases,
   quote : 0..MaxQuotes,      \* on display; 0: none
   cert : 0..MaxQuotes,       \* the quote of the certificate on display
   look : Looks \cup {NoLook},   \* the poll that is not cancelled
   task : {"none", "resume", "challenge", "sign", "post"},   \* what loading waits for
   nonce : 0..MaxChallenges]

ClosedPanel ==
  [open |-> FALSE, phase |-> "idle", quote |-> 0, cert |-> 0, look |-> NoLook,
   task |-> "none", nonce |-> 0]

Look == [quote : 0..MaxQuotes, served : BOOLEAN, cert : {"none", "active", "settled"}]

NoRequest == [quote |-> 0, served |-> FALSE, cert |-> "none"]

server == <<quotes, past, nonces, stale, minted, posts, checked, answers>>

-----------------------------------------------------------------------------
(* wallet-auth.ts *)

\* issueChallenge: above the cap the stale ones are dropped, and if that is not
\* enough all of them.
SweptNonces ==
  IF Cardinality(nonces) <= NonceCap THEN nonces
  ELSE IF Cardinality(nonces \ stale) <= NonceCap THEN nonces \ stale
  ELSE {}

\* verifyWalletProof: the nonce is gone whatever the outcome.
BurntNever(n) ==  \* mutant: the nonce is never deleted
  nonces

Burnt(n) == nonces \ {n}

Proven(n) == n \in nonces /\ n \notin stale

-----------------------------------------------------------------------------
(* The ledger, for one position *)

IsOpen(q) == quotes[q].status = "open"

\* lapseExpiredQuotes, which every route runs first.
Lapsed(qs) ==
  [q \in DOMAIN qs |->
     IF qs[q].status = "open" /\ q \in past THEN [qs[q] EXCEPT !.status = "lapsed"] ELSE qs[q]]

Blocked(qs) == \E q \in DOMAIN qs : qs[q].status = "open" \/ qs[q].cert = "active"

\* The route's choice for a position: active, else open, else latest; 0: none.
Latest(S) == IF S = {} THEN 0 ELSE CHOOSE q \in S : \A r \in S : r <= q

Relevant(qs) ==
  LET active == {q \in DOMAIN qs : qs[q].cert = "active"}
      open   == {q \in DOMAIN qs : qs[q].status = "open"}
  IN  IF active # {} THEN Latest(active)
      ELSE IF open # {} THEN Latest(open)
      ELSE Len(qs)

-----------------------------------------------------------------------------
(* Opening the panel, and what the status route says of the position *)

Requesting(p) == [p EXCEPT !.phase = "loading", !.task = "challenge", !.cert = 0,
                           !.look = NoLook]

Shown(p, q, cert) ==  \* applyStatus
  [p EXCEPT !.quote = q,
            !.cert = IF cert = "none" THEN @ ELSE q,
            !.phase = CASE cert = "none" -> @
                        [] cert = "active" -> "active"
                        [] cert = "settled" -> "done",
            !.look = NoLook]

OpenPanel ==
  /\ ~panel.open
  /\ panel' = IF panel.phase \in {"idle", "error"}
                THEN [panel EXCEPT !.open = TRUE, !.phase = "loading", !.task = "resume"]
                ELSE [panel EXCEPT !.open = TRUE]
  /\ UNCHANGED <<looks, server>>

ResumeArrives ==
  LET qs == Lapsed(quotes)
      q  == Relevant(qs)
  IN  /\ panel.task = "resume"
      /\ quotes' = qs
      /\ panel' =
           IF q # 0 /\ qs[q].cert # "none"
             THEN [Shown(panel, q, qs[q].cert) EXCEPT !.task = "none"]
           ELSE IF q # 0 /\ qs[q].status = "open"
             THEN [panel EXCEPT !.quote = q, !.phase = "quote", !.task = "none"]
           ELSE Requesting(panel)
      /\ UNCHANGED <<looks, past, nonces, stale, minted, posts, checked, answers>>

\* No answer, or 429 or 503; any other refusal goes on to request a quote.
ResumeFails ==
  /\ panel.task = "resume"
  /\ panel' \in {[panel EXCEPT !.phase = "error", !.task = "none"], Requesting(panel)}
  /\ UNCHANGED <<looks, server>>

-----------------------------------------------------------------------------
(* requestQuote *)

Expired == panel.quote # 0 /\ panel.cert = 0 /\ panel.quote \in past

\* The buttons "Try again", "Request new quote" and "Request a new quote".
Request ==
  /\ panel.open
  /\ \/ panel.phase \in {"error", "done"}
     \/ panel.phase \in {"quote", "payment"} /\ Expired
  /\ panel' = Requesting(panel)
  /\ UNCHANGED <<looks, server>>

Challenge ==
  /\ panel.task = "challenge"
  /\ minted < MaxChallenges
  /\ minted' = minted + 1
  /\ nonces' = SweptNonces \cup {minted + 1} /\ stale' = stale \cap SweptNonces
  /\ panel' = [panel EXCEPT !.task = "sign", !.nonce = minted + 1]
  /\ UNCHANGED <<looks, quotes, past, posts, checked, answers>>

Sign ==
  /\ panel.task = "sign"
  /\ posts' = posts \cup {panel.nonce}
  /\ panel' = [panel EXCEPT !.task = "post"]
  /\ UNCHANGED <<looks, quotes, past, nonces, stale, minted, checked, answers>>

\* The wallet refuses, or a request or its answer is lost.
RequestFails ==
  /\ panel.task \in {"challenge", "sign", "post"}
  /\ panel' = [panel EXCEPT !.phase = "error", !.task = "none"]
  /\ answers' = {}
  /\ UNCHANGED <<looks, quotes, past, nonces, stale, minted, posts, checked>>

\* An answer that nobody waits for is lost.
Answers(n, q) ==
  IF panel.task = "post" /\ panel.nonce = n THEN answers \cup {[nonce |-> n, quote |-> q]}
  ELSE answers

\* POST: the proof first ...
CheckProof(n) ==
  /\ n \in posts
  /\ nonces' = Burnt(n) /\ stale' = stale \cap Burnt(n)
  /\ \/ /\ Proven(n)
        /\ checked' = checked \cup {n}
        /\ UNCHANGED answers
     \/ /\ ~Proven(n)
        /\ answers' = Answers(n, 0)
        /\ UNCHANGED checked
  /\ UNCHANGED <<panel, looks, quotes, past, minted, posts>>

\* ... then, after reads of chain and vendor that may fail, the quote.
IssueQuote(n) ==
  LET qs == Lapsed(quotes)
  IN  /\ n \in checked
      /\ checked' = checked \ {n}
      /\ \/ /\ ~Blocked(qs) /\ Len(qs) < MaxQuotes
            /\ quotes' = Append(qs, [status |-> "open", cert |-> "none", proof |-> n])
            /\ answers' = Answers(n, Len(qs) + 1)
         \/ /\ quotes' \in {qs, quotes}
            /\ answers' = Answers(n, 0)
      /\ UNCHANGED <<panel, looks, past, nonces, stale, minted, posts>>

QuoteArrives ==
  /\ panel.task = "post"
  /\ \E a \in answers :
       /\ a.nonce = panel.nonce
       /\ answers' = answers \ {a}
       /\ panel' = IF a.quote = 0
                     THEN [panel EXCEPT !.phase = "error", !.task = "none"]
                     ELSE [panel EXCEPT !.phase = "quote", !.task = "none", !.quote = a.quote]
  /\ UNCHANGED <<looks, quotes, past, nonces, stale, minted, posts, checked>>

-----------------------------------------------------------------------------
(* Consent, payment, and the poll of the status route *)

Go(from, to) ==
  /\ panel.open /\ panel.phase = from
  /\ panel' = [panel EXCEPT !.phase = to, !.look = NoLook]
  /\ UNCHANGED <<looks, server>>

\* The consent step between the two changes nothing but the page's layout.
Continue == ~Expired /\ Go("quote", "payment")

Back == Go("payment", "quote")

Close ==
  /\ panel.open
  /\ panel' = [panel EXCEPT !.open = FALSE, !.look = NoLook]
  /\ UNCHANGED <<looks, server>>

\* The page is reloaded, or the dashboard removes the card.
Unmount ==
  /\ panel # ClosedPanel
  /\ panel' = ClosedPanel /\ answers' = {}
  /\ UNCHANGED <<looks, quotes, past, nonces, stale, minted, posts, checked>>

Polling == panel.open /\ panel.phase \in {"payment", "active"}

AskStatus(k) ==
  /\ Polling /\ panel.look = NoLook
  /\ looks[k] = NoRequest
  /\ looks' = [looks EXCEPT ![k] = [NoRequest EXCEPT !.quote = panel.quote]]
  /\ panel' = [panel EXCEPT !.look = k]
  /\ UNCHANGED server

ServeLook(k) ==
  /\ looks[k].quote # 0 /\ ~looks[k].served
  /\ quotes' = Lapsed(quotes)
  /\ looks' = [looks EXCEPT ![k].served = TRUE, ![k].cert = quotes[looks[k].quote].cert]
  /\ UNCHANGED <<panel, past, nonces, stale, minted, posts, checked, answers>>

TakenAlways(k) ==  \* mutant: also when the effect was cleaned up
  Shown(panel, looks[k].quote, looks[k].cert)

Taken(k) ==
  IF panel.look = k THEN Shown(panel, looks[k].quote, looks[k].cert) ELSE panel

LookArrives(k) ==
  /\ looks[k].served
  /\ panel' = Taken(k)
  /\ looks' = [looks EXCEPT ![k] = NoRequest]
  /\ UNCHANGED server

LookFailsForGood(k) ==  \* mutant: no next poll is scheduled
  /\ looks[k].quote # 0
  /\ looks' = [looks EXCEPT ![k] = NoRequest]
  /\ UNCHANGED <<panel, server>>

\* A broken connection, or 429: the next poll comes later.
LookFails(k) ==
  /\ looks[k].quote # 0
  /\ looks' = [looks EXCEPT ![k] = NoRequest]
  /\ panel' = IF panel.look = k THEN [panel EXCEPT !.look = NoLook] ELSE panel
  /\ UNCHANGED server

-----------------------------------------------------------------------------
(* The world *)

QuoteExpires(q) ==
  /\ q \in DOMAIN quotes /\ IsOpen(q) /\ q \notin past
  /\ past' = past \cup {q}
  /\ UNCHANGED <<panel, looks, quotes, nonces, stale, minted, posts, checked, answers>>

\* A payment is observed in time; a certificate falls due.
Activated(q) ==
  /\ q \in DOMAIN quotes /\ IsOpen(q) /\ q \notin past
  /\ quotes' = [quotes EXCEPT ![q].status = "consumed", ![q].cert = "active"]
  /\ UNCHANGED <<panel, looks, past, nonces, stale, minted, posts, checked, answers>>

Settled(q) ==
  /\ q \in DOMAIN quotes /\ quotes[q].cert = "active"
  /\ quotes' = [quotes EXCEPT ![q].cert = "settled"]
  /\ UNCHANGED <<panel, looks, past, nonces, stale, minted, posts, checked, answers>>

NonceExpires(n) ==
  /\ n \in nonces \ stale
  /\ stale' = stale \cup {n}
  /\ UNCHANGED <<panel, looks, quotes, past, nonces, minted, posts, checked, answers>>

-----------------------------------------------------------------------------

PanelInit ==
  /\ panel = ClosedPanel
  /\ looks = [k \in Looks |-> NoRequest]
  /\ quotes = <<>> /\ past = {}
  /\ nonces = {} /\ stale = {} /\ minted = 0
  /\ posts = {} /\ checked = {} /\ answers = {}

PanelNext ==
  \/ OpenPanel \/ ResumeArrives \/ ResumeFails
  \/ Request \/ Challenge \/ Sign \/ RequestFails \/ QuoteArrives
  \/ \E n \in Challenges : CheckProof(n) \/ IssueQuote(n) \/ NonceExpires(n)
  \/ Continue \/ Back \/ Close \/ Unmount
  \/ \E k \in Looks : AskStatus(k) \/ ServeLook(k) \/ LookArrives(k) \/ LookFails(k)
  \/ \E q \in 1..MaxQuotes : QuoteExpires(q) \/ Activated(q) \/ Settled(q)

\* The poll goes on, the server answers, and not every request fails.
PanelFairness ==
  /\ WF_panelVars(\E k \in Looks : AskStatus(k))
  /\ \A k \in Looks : WF_panelVars(ServeLook(k)) /\ WF_panelVars(LookArrives(k) \/ LookFails(k))
  /\ SF_panelVars(\E k \in Looks : k = panel.look /\ ServeLook(k))
  /\ SF_panelVars(\E k \in Looks : k = panel.look /\ LookArrives(k))

PanelSpec == PanelInit /\ [][PanelNext]_panelVars /\ PanelFairness

-----------------------------------------------------------------------------
(* Properties *)

PanelTypeOK ==
  /\ panel \in Panel /\ looks \in [Looks -> Look]
  /\ quotes \in Seq(Quote) /\ Len(quotes) <= MaxQuotes
  /\ past \subseteq 1..MaxQuotes
  /\ nonces \cup stale \cup posts \cup checked \subseteq Challenges

\* The certificate on display is the one of the terms on display, and was issued
\* for them, though answers about an earlier quote arrive after the next one was
\* requested.
CertificateIsOfQuote ==
  /\ panel.cert # 0 => panel.cert = panel.quote /\ quotes[panel.cert].cert # "none"
  /\ panel.phase \in {"active", "done"} => panel.cert # 0

\* "a captured challenge can never be reused for a second attempt"
\* (wallet-auth.ts:95-96): every quote of the position has a signature of its own,
\* however often and late signed requests arrive.
QuoteIsAuthorised ==
  \A q, r \in DOMAIN quotes :
    /\ quotes[q].proof \in posts
    /\ q # r => quotes[q].proof # quotes[r].proof

\* "5s status polling while waiting for activation / settlement"
\* (hedge-panel.tsx:309): a panel left open on a payment comes to show the
\* certificate that the payment has bought.
ActivationIsShown ==
  \A q \in 1..MaxQuotes :
    (Polling /\ panel.quote = q /\ panel.cert = 0 /\ q \in DOMAIN quotes /\ quotes[q].cert # "none")
      ~> (panel.cert = q \/ ~Polling \/ panel.quote # q)
=============================================================================
