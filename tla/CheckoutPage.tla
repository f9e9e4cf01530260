--------------------------- MODULE CheckoutPage ---------------------------
(***************************************************************************)
(* The checkout page (apps/web/src/components/data/checkout.tsx) as the    *)
(* client of the data shop: it creates an order, asks for its status until *)
(* the order no longer awaits payment, pays from the wallet, and offers    *)
(* the download.  Every request of module DataShop is made by the page; a  *)
(* request goes on at the server when the page has turned away from it.    *)
(* sessionStorage is taken to work.                                        *)
(***************************************************************************)
EXTENDS DataShop

CONSTANT NoPoll

ASSUME PageAssumption == NoPoll \notin Polls

VARIABLES
  page,     \* the state of the component
  stored    \* orders whose claim secret is in sessionStorage

pageVars == <<shopVars, page, stored>>

Page ==
  [order : Orders \cup {NoOrderId},      \* on display
   status : Statuses,                    \* as last received
   token : BOOLEAN,                      \* one was received, the link is shown
   poll : Polls \cup {NoPoll},           \* the request that is not cancelled
   creating : Orders \cup {NoOrderId},   \* its answer is under way
   paying : Orders \cup {NoOrderId}]     \* the wallet asks its owner

BlankPage ==
  [order |-> NoOrderId, status |-> "none", token |-> FALSE, poll |-> NoPoll,
   creating |-> NoOrderId, paying |-> NoOrderId]

-----------------------------------------------------------------------------
(* createOrder *)

RequestOrder(o, amount) ==
  /\ page.order = NoOrderId /\ page.creating = NoOrderId
  /\ CreateOrder(o, amount)
  /\ page' = [page EXCEPT !.creating = o]
  /\ UNCHANGED stored

OrderArrives ==
  /\ page.creating # NoOrderId
  /\ page' = [page EXCEPT !.order = page.creating, !.creating = NoOrderId,
                          !.status = "awaiting-payment", !.poll = NoPoll]
  /\ stored' = stored \cup {page.creating}
  /\ UNCHANGED shopVars

\* The answer is lost; the page shows an error and may ask for another order.
OrderLost ==
  /\ page.creating # NoOrderId
  /\ page' = [page EXCEPT !.creating = NoOrderId]
  /\ UNCHANGED <<shopVars, stored>>

-----------------------------------------------------------------------------
(* The status poll: one request after the other while the order on display *)
(* awaits payment                                                          *)

Ask(p) ==
  /\ page.order # NoOrderId /\ page.status = "awaiting-payment"
  /\ page.poll = NoPoll
  /\ \/ FindPayment(p, page.order, page.order \in stored)
     \/ FindNothing(p, page.order, page.order \in stored)
  /\ page' = [page EXCEPT !.poll = p]
  /\ UNCHANGED stored

\* The server at work: it credits the order, or gives out a fresh grant.
Serve(p) ==
  /\ CreditPoll(p) \/ Answer(p)
  /\ polls'[p].pc = "answering"
  /\ UNCHANGED <<page, stored>>

AppliedAlways(p) ==  \* mutant: an answer is applied although its effect was cleaned up
  [page EXCEPT !.poll = NoPoll, !.status = ledger.orders[polls[p].order].status,
               !.token = @ \/ polls[p].token # "none"]

Applied(p) ==
  IF p = page.poll
    THEN [page EXCEPT !.poll = NoPoll, !.status = ledger.orders[page.order].status,
                      !.token = @ \/ polls[p].token # "none"]
    ELSE page

Responds(p) == Answer(p) /\ polls'[p].pc = "idle" /\ UNCHANGED stored

Receive(p) == Responds(p) /\ page' = Applied(p)

\* The connection breaks, or the limiter says 429, whatever the server does
\* with the request; the page schedules the next one.
LoseRequest ==
  /\ page.poll # NoPoll
  /\ page' = [page EXCEPT !.poll = NoPoll]
  /\ UNCHANGED <<shopVars, stored>>

-----------------------------------------------------------------------------
(* Paying and downloading *)

\* payWithWallet, offered while the countdown of the order runs.
Approve ==
  /\ page.order # NoOrderId /\ page.status = "awaiting-payment"
  /\ page.order \notin late
  /\ page.paying = NoOrderId
  /\ page' = [page EXCEPT !.paying = page.order]
  /\ UNCHANGED <<shopVars, stored>>

\* The owner confirms, which may take until the page shows something else.
WalletSends ==
  /\ page.paying # NoOrderId
  /\ Transfer([ref |-> page.paying, amount |-> ledger.orders[page.paying].amount])
  /\ page' = [page EXCEPT !.paying = NoOrderId]
  /\ UNCHANGED stored

WalletDeclines ==
  /\ page.paying # NoOrderId
  /\ page' = [page EXCEPT !.paying = NoOrderId]
  /\ UNCHANGED <<shopVars, stored>>

\* Copied from the page into another wallet.
PayByHand ==
  /\ page.order # NoOrderId
  /\ Transfer([ref |-> NoOrderId, amount |-> ledger.orders[page.order].amount])
  /\ UNCHANGED <<page, stored>>

\* The download link, rendered while the page has a token.
ClickDownload ==
  /\ page.status = "fulfilled" /\ page.token
  /\ Download(page.order)
  /\ UNCHANGED <<page, stored>>

\* reset(); a payment that waits in the wallet is not called off.
StartOver ==
  /\ page.order # NoOrderId
  /\ page' = [BlankPage EXCEPT !.paying = page.paying]
  /\ UNCHANGED <<shopVars, stored>>

\* React state is gone, sessionStorage is not.
Reload ==
  /\ page # BlankPage
  /\ page' = BlankPage
  /\ UNCHANGED <<shopVars, stored>>

-----------------------------------------------------------------------------

\* A grant lives for a day, longer than its page.
World ==
  \/ StartScan \/ ListSignatures \/ Inspect \/ EndScan
  \/ \E o \in Orders : OrderExpires(o)

\* Requests end with the process.
ServerCrash ==
  /\ Crash
  /\ page' = [page EXCEPT !.poll = NoPoll, !.creating = NoOrderId]
  /\ UNCHANGED stored

PageInit == ShopInit /\ page = BlankPage /\ stored = {}

PageNext ==
  \/ \E o \in Orders, amount \in Amounts : RequestOrder(o, amount)
  \/ OrderArrives \/ OrderLost
  \/ \E p \in Polls : Ask(p) \/ Serve(p) \/ Receive(p)
  \/ LoseRequest
  \/ Approve \/ WalletSends \/ WalletDeclines \/ PayByHand
  \/ ClickDownload \/ StartOver \/ Reload
  \/ World /\ UNCHANGED <<page, stored>>
  \/ ServerCrash

\* The page's timer goes on, the server ends what it began, and not every answer
\* is lost.
PageFairness ==
  /\ WF_pageVars(\E p \in Polls : Ask(p))
  /\ \A p \in Polls : WF_pageVars(Serve(p) \/ Receive(p))
  /\ SF_pageVars(\E p \in Polls : p = page.poll /\ Serve(p))
  /\ SF_pageVars(\E p \in Polls : p = page.poll /\ Receive(p))

PageSpec == PageInit /\ [][PageNext]_pageVars /\ PageFairness

\* A user clicks on the link while it works, and not every stream breaks.
ClickedSpec == PageSpec /\ SF_pageVars(ClickDownload /\ page.order \in delivered')

-----------------------------------------------------------------------------
(* Properties *)

PageTypeOK == page \in Page /\ stored \subseteq Orders

\* The page never says of the order on display what the server said of another
\* one, although answers to requests of a cancelled order come late; and it
\* never shows a file as delivered to somebody else ("this order is already
\* fulfilled ... write to ...", checkout.tsx:618) while it keeps the claim.
ShownIsOwn ==
  page.status \notin {"none", "awaiting-payment"} =>
    /\ page.order # NoOrderId
    /\ page.status = ledger.orders[page.order].status
    /\ page.status = "fulfilled" /\ page.order \in stored => page.token

\* "Step 3 - Receive" (checkout.tsx:9-11): a page that stays on a fulfilled order
\* comes to offer its file, whoever credited the payment, whatever was lost.
FulfilledIsOffered ==
  \A o \in Orders :
    (page.order = o /\ disk.orders[o].status = "fulfilled")
      ~> (page.order # o \/ page.token)

\* A page that stays on a fulfilled order comes to have its file: "a failed
\* download is recoverable because the claim secret can re-issue a fresh grant"
\* (order-ledger.ts:261-263).
FulfilledIsDelivered ==
  \A o \in Orders :
    (page.order = o /\ disk.orders[o].status = "fulfilled")
      ~> (page.order # o \/ o \in delivered)
=============================================================================
