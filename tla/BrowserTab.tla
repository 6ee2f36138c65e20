----------------------------- MODULE BrowserTab -----------------------------
(***************************************************************************)
(* One tab of a shopper in front of the storefront: the cart page          *)
(* (CartView with its buttons and forms), the product page that adds to    *)
(* the cart and the order page that cancels, over the hooks that send the  *)
(* requests (use-place-order, use-remove-from-cart, use-add-to-cart,       *)
(* use-add-address, use-cancel-order).                                     *)
(*                                                                         *)
(* A button is disabled while a request of it is pending, others are not,  *)
(* so requests of one tab overlap.  When a page or a line goes from the    *)
(* screen its buttons go with it, and what their hooks still do has no     *)
(* effect on what is mounted later; router calls have.  The router renders *)
(* one refresh after the other and a navigation throws a render away.  A   *)
(* connection may break at any time, whatever the API is doing.            *)
(***************************************************************************)
EXTENDS Storefront, OrderDomain

CONSTANTS
    Shopper,    \* the customer whose tab it is
    MaxPosts,   \* bound: requests of the tab
    MaxBreaks   \* bound: requests and fetches that fail

\* Slot 0 is no slot (NoSlot).
ASSUME TabAssumption ==
    /\ Shopper \in Customer
    /\ {MaxPosts, MaxBreaks} \subseteq Nat
    /\ 0 \notin Slot

VARIABLES
    page,    \* what is on the screen, with the state of CartView
    posts,   \* requests the tab has sent, in order
    busy,    \* those whose button is mounted and shows that it is pending
    here,    \* those sent from the CartView that is mounted
    render,  \* what the router is rendering
    order,   \* the order that the tab was sent to, by the request that placed it
    breaks,  \* requests and fetches that failed
    excuse   \* history: why the screen may be behind

screenVars == <<page, busy, here, render, order, breaks, excuse>>
tabVars == <<posts, screenVars>>

NoReason == "none"
NoChoice == 0
NoSlot == 0
Waiting == "waiting"
Taken == "taken"

Closed == [view |-> "closed"]
ProductPage == [view |-> "product"]
OpeningCart == [view |-> "opening"]
OrderPage(shown) == [view |-> "order", order |-> shown]
CartPage(lines, book, choice, reason) ==
    [view |-> "cart", lines |-> lines, book |-> book, choice |-> choice, reason |-> reason]

OrderOf(p, status) == [by |-> p, status |-> status]

NoRender == [pc |-> "none"]
Rendering(got, again) == [pc |-> "rendering", got |-> got, again |-> again]
NothingYet == [x \in {} |-> 0]

\* The address book is listed default first, and CartView starts with the
\* default address, else with the first one.
FirstListed(book) == IF Defaults(book) # {} THEN Defaults(book) ELSE DOMAIN book
Preselected(book) ==
    IF book = NoAddresses THEN NoChoice ELSE CHOOSE a \in FirstListed(book) : TRUE

\* What a server component fetches for each page, one request for each part.
Parts(view) == IF view = "order" THEN {"order"} ELSE {"cart", "book"}
\* The lines of a cart are those that are for sale (GetCartService).
Current(part) ==
    IF part = "cart" THEN DOMAIN Priced(LinesOf(Shopper), CurrentPrices)
    ELSE IF part = "book" THEN books[Shopper] ELSE order

TabInit ==
    /\ page \in {Closed, CartPage(Current("cart"), Current("book"),
                                  Preselected(Current("book")), NoReason)}
    /\ posts = <<>>
    /\ busy = {}
    /\ here = {}
    /\ render = NoRender
    /\ order = OrderOf(0, "PENDING_PAYMENT")
    /\ breaks = 0
    /\ excuse = {}

-----------------------------------------------------------------------------
(* Requests.                                                                *)

Post(r, kind, skus, id) ==
    [kind |-> kind, skus |-> skus, id |-> id, slot |-> r, answer |-> Waiting, ordered |-> NoCart.id]

\* MUTANT of Disabled: buttons are never disabled.
NeverDisabled(kind, skus) == FALSE

Disabled(kind, skus) == \E p \in busy : posts[p].kind = kind /\ posts[p].skus = skus

\* Buttons of the cart page go with the lines, a remove button with its line.
Mounted(p, lines) == IF posts[p].kind = "remove" THEN posts[p].skus \subseteq lines
                     ELSE lines # {}

\* What the rest of a checkout makes of an order: paid and declined are both
\* answered with success.
Outcomes == {"PAID", "PAYMENT_FAILED", Refused("OUT_OF_STOCK").code, Internal.code}

\* An answer is on its way to a tab that may have given up on it.
AnsweredWith(post, code, cart) ==
    [post EXCEPT !.slot = NoSlot, !.ordered = cart,
                 !.answer = IF post.answer = Taken THEN Taken ELSE code]

\* The API is done with what is in slot r.
Answered(r, list) ==
    LET mine == {p \in DOMAIN list : list[p].slot = r} IN
    IF req'[r].pc # "done" \/ mine = {} THEN posts' = list
    ELSE LET p == CHOOSE p \in mine : TRUE
             placed == list[p].kind = "order" /\ req'[r] = Succeeded
             cart == IF placed THEN orders'[Len(orders')].order.cart ELSE NoCart.id
         IN \E code \in (IF placed THEN Outcomes ELSE {req'[r].code}) :
              posts' = [list EXCEPT ![p] = AnsweredWith(list[p], code, cart)]

Sent(r, kind, skus, id) ==
    /\ ~Disabled(kind, skus)
    /\ Len(posts) < MaxPosts
    /\ Answered(r, Append(posts, Post(r, kind, skus, id)))
    /\ busy' = busy \cup {Len(posts) + 1}
    /\ here' = IF page.view = "cart" THEN here \cup {Len(posts) + 1} ELSE here
    /\ UNCHANGED <<page, render, order, breaks, excuse>>

OnCart == page.view = "cart" /\ page.lines # {}

PressOrder(r) ==
    /\ OnCart
    /\ page.choice # NoChoice
    /\ BeginCheckout(r, Shopper, page.choice)
    /\ Sent(r, "order", {}, 0)

PressRemove(r, s) ==
    /\ OnCart
    /\ s \in page.lines
    /\ BeginCart(r, Shopper, CartOp("remove", s, 0))
    /\ Sent(r, "remove", {s}, 0)

SubmitAddress(r, details) ==
    /\ OnCart
    /\ BeginBook(r, Shopper, AddressOp("add", 1, details))
    /\ Sent(r, "address", {}, lastId')

PressAdd(r, s, quantity) ==
    /\ page.view = "product"
    /\ s \in DOMAIN CurrentPrices
    /\ BeginCart(r, Shopper, CartOp("add", s, quantity))
    /\ Sent(r, "add", {s}, 0)

\* isOrderCancellable decides whether there is a button.
PressCancel ==
    /\ page.view = "order"
    /\ page.order.status \in {"PENDING_PAYMENT", "PAID"}
    /\ ~Disabled("cancel", {})
    /\ Len(posts) < MaxPosts
    /\ posts' = Append(posts, Post(NoSlot, "cancel", {}, page.order.by))
    /\ busy' = busy \cup {Len(posts) + 1}
    /\ UNCHANGED <<page, here, render, order, breaks, excuse>>

\* CancelOrderService as this tab sees it; of an earlier order it sees no more
\* than the answer.
ServeCancel(p) ==
    /\ posts[p].kind = "cancel"
    /\ posts[p].answer = Waiting
    /\ \E status \in (IF posts[p].id = order.by THEN {order.status} ELSE OrderStatus) :
        /\ posts' = [posts EXCEPT ![p].answer =
                       IF CancelBy(status) = "conflict" THEN Refused("ORDER_CONFLICT").code
                       ELSE Succeeded.code]
        /\ order' = IF posts[p].id = order.by /\ CancelBy(status) = "moved"
                    THEN [order EXCEPT !.status = CancelledTo(status)] ELSE order
    /\ UNCHANGED <<page, busy, here, render, breaks, excuse>>

\* The refund is through.
RefundEnds ==
    /\ MarkRefunded(order.status) = "moved"
    /\ order' = [order EXCEPT !.status = "REFUNDED"]
    /\ excuse' = excuse \cup {"refunded"}
    /\ UNCHANGED <<page, posts, busy, here, render, breaks>>

-----------------------------------------------------------------------------
(* Answers.                                                                 *)

\* router.refresh(): a render of the page, after the one under way if any.
Refresh ==
    render' = IF page.view \notin {"opening", "cart", "order"} THEN render
              ELSE IF render = NoRender THEN Rendering(NothingYet, FALSE)
              ELSE Rendering(render.got, TRUE)

\* MUTANT of WithReason: the reason is the button's, which goes with the lines.
KeptInButton(p, code) == page

\* onFailed puts the reason into CartView, where it is still mounted.
WithReason(p, code) == IF p \in here THEN [page EXCEPT !.reason = code] ELSE page

\* The address just made is chosen at once.
WithChoice(p) == IF p \in here THEN [page EXCEPT !.choice = posts[p].id] ELSE page

\* MUTANT of Reloads: what failed has changed nothing.
ReloadsOnSuccess(kind, accepted) == accepted

\* onChanged, onCancelled: after a success, and after an order that failed.
Reloads(kind, accepted) == IF kind = "order" THEN ~accepted ELSE accepted

\* router.push to the order, wherever the shopper is by now.
GoToOrder(p, status) ==
    /\ order' = OrderOf(p, status)
    /\ page' = OrderPage(order')
    /\ busy' = {}
    /\ here' = {}
    /\ render' = NoRender

\* MUTANT of Released: setPending(false) where the answer was taken well.
ReleasedOnSuccess(p, accepted) == IF accepted THEN busy \ {p} ELSE busy

\* finally: the button can be pressed again.
Released(p, accepted) == busy \ {p}

Conclude(p, accepted, code) ==
    LET kind == posts[p].kind IN
    /\ posts' = [posts EXCEPT ![p].answer = Taken]
    /\ IF kind = "order" /\ accepted THEN GoToOrder(p, code)
       ELSE /\ page' = IF kind = "order" THEN WithReason(p, code)
                       ELSE IF kind = "address" /\ accepted THEN WithChoice(p) ELSE page
            /\ busy' = Released(p, accepted)
            /\ IF Reloads(kind, accepted) THEN Refresh ELSE UNCHANGED render
            /\ UNCHANGED <<order, here>>

\* An answer arrives, in any order with the others.
Settle(p) ==
    /\ posts[p].answer \notin {Waiting, Taken}
    /\ Conclude(p, posts[p].answer \in {Succeeded.code, "PAID", "PAYMENT_FAILED"}, posts[p].answer)
    /\ UNCHANGED <<breaks, excuse>>

\* fetch rejects: the same as an INTERNAL_ERROR, whatever the API has done or
\* goes on to do.
Break(p) ==
    /\ posts[p].answer # Taken
    /\ breaks < MaxBreaks
    /\ breaks' = breaks + 1
    /\ Conclude(p, FALSE, Internal.code)
    /\ excuse' = IF posts[p].kind = "order" /\ posts[p].slot = NoSlot THEN excuse
                 ELSE excuse \cup {"lost"}

-----------------------------------------------------------------------------
(* Pages.                                                                   *)

Pick(address) ==
    /\ OnCart
    /\ address \in DOMAIN page.book \ {page.choice}
    /\ page' = [page EXCEPT !.choice = address]
    /\ UNCHANGED <<posts, busy, here, render, order, breaks, excuse>>

\* A link: what was mounted goes, and so does what was being rendered.
Leave ==
    /\ page.view \in {"opening", "cart", "order"}
    /\ page' = ProductPage
    /\ busy' = {}
    /\ here' = {}
    /\ render' = NoRender
    /\ UNCHANGED <<posts, order, breaks, excuse>>

Visit ==
    /\ page = ProductPage
    /\ page' = OpeningCart
    /\ busy' = {}
    /\ render' = Rendering(NothingYet, FALSE)
    /\ UNCHANGED <<posts, here, order, breaks, excuse>>

\* A refresh asked for meanwhile is next.
AfterThis == IF render.again THEN Rendering(NothingYet, FALSE) ELSE NoRender

\* The parts of a page are fetched at the same time and answered in any order.
Fetch(part) ==
    /\ render # NoRender
    /\ part \in Parts(page.view) \ DOMAIN render.got
    /\ render' = Rendering([x \in DOMAIN render.got \cup {part} |->
                               IF x = part THEN Current(part) ELSE render.got[x]], render.again)
    /\ UNCHANGED <<page, posts, busy, here, order, breaks, excuse>>

\* The cart page without its cart: a fetch failed, and whatever was mounted
\* makes way for an alert.
FetchFails ==
    /\ render # NoRender
    /\ page.view \in {"opening", "cart"}
    /\ breaks < MaxBreaks
    /\ breaks' = breaks + 1
    /\ page' = OpeningCart
    /\ busy' = {}
    /\ here' = {}
    /\ render' = AfterThis
    /\ UNCHANGED <<posts, order, excuse>>

\* New props: CartView keeps its state, and what is off the screen its own no more.
Show ==
    /\ render # NoRender
    /\ DOMAIN render.got = Parts(page.view)
    /\ LET got == render.got IN
       /\ page' = IF page.view = "order" THEN OrderPage(got["order"])
                  ELSE IF page.view = "opening"
                  THEN CartPage(got["cart"], got["book"], Preselected(got["book"]), NoReason)
                  ELSE CartPage(got["cart"], got["book"], page.choice, page.reason)
       /\ busy' = IF page.view = "order" THEN busy
                  ELSE {p \in busy : Mounted(p, got["cart"])}
    /\ render' = AfterThis
    /\ UNCHANGED <<posts, here, order, breaks, excuse>>

-----------------------------------------------------------------------------
\* What the shopper does.
Touch(r) ==
    \/ PressOrder(r)
    \/ \E s \in Skus : PressRemove(r, s) \/ \E q \in Quantity : PressAdd(r, s, q)
    \/ \E d \in Details \cap {AnyDetails, Blank} : SubmitAddress(r, d)

Turn == PressCancel \/ Leave \/ Visit \/ \E a \in AddressId : Pick(a)

\* What browser and API do with it, and what the router does.
Hear == \E p \in DOMAIN posts : Settle(p) \/ ServeCancel(p)
Draw == Show \/ \E part \in {"cart", "book", "order"} : Fetch(part)

TabHazard == RefundEnds \/ FetchFails \/ \E p \in DOMAIN posts : Break(p)

-----------------------------------------------------------------------------
(* Properties.                                                              *)

TabTypeOK ==
    /\ page.view \in {"closed", "product", "opening", "cart", "order"}
    /\ page.view = "order" => page.order.status \in OrderStatus
    /\ busy \cup here \subseteq DOMAIN posts
    /\ \A p \in DOMAIN posts : posts[p].slot \in Slot \cup {NoSlot}

Placed(p) == posts[p].ordered # NoCart.id

\* What CartView draws of the reason: it does so on the empty cart only.
Alert == IF page.view = "cart" /\ page.lines = {} THEN page.reason ELSE NoReason

\* Every request has been answered, no button shows that it is pending and
\* nothing is being rendered.
Settled ==
    /\ \A p \in DOMAIN posts : posts[p].answer = Taken
    /\ busy = {}
    /\ render = NoRender
Quiet == Settled /\ \A r \in Slot : Free(r)

\* CartView.tsx 30-38: the order that a failed checkout has placed takes the
\* lines with it and the button with its own message.  A shopper who stays does
\* not look at an empty cart without being told why, whatever else the tab is
\* waiting for and whatever answer got lost, for as long as the page can be
\* fetched.
OrderIsTold ==
    \A p \in here :
        Placed(p) /\ posts[p].answer = Taken /\ page.lines = {} => Alert # NoReason

\* What the screen shows when all is quiet is what the server has, unavailable
\* lines left out, although requests, answers and renders of one tab overtake
\* each other, except after an answer that was lost or a refund.
ScreenIsCurrent ==
    Quiet /\ excuse = {} =>
        /\ page.view = "cart" => page.lines = Current("cart") /\ page.book = Current("book")
        /\ page.view = "order" => page.order = order

\* Saves of the cart that the tab asked for.  One that read the cart before a
\* checkout deleted it puts the cart back (see OneOrderPerCart).
SavesCart(p) == posts[p].kind \in {"add", "remove"}

\* Pressing again after a failure orders nothing twice: a shopper who stays on
\* the page orders a cart there once, unless an answer was lost or the tab
\* changed the cart as well.
OrderedOncePerStay ==
    "lost" \notin excuse /\ (\A p \in DOMAIN posts : ~SavesCart(p)) =>
        \A p, q \in here : Placed(p) /\ posts[p].ordered = posts[q].ordered => p = q

=============================================================================
