------------------------------ MODULE Accounts ------------------------------
(***************************************************************************)
(* Accounts a creator connects at a platform, and the views read by their  *)
(* tokens (src/src/accounts/accounts.service.ts, accounts.controller.ts,   *)
(* providers.ts, src/src/submissions/view-counter.service.ts).             *)
(*                                                                         *)
(* A login link carries a one-time state.  Whoever opens it signs in at    *)
(* the platform with an account of his own; the page he comes back to      *)
(* names the profile the account would go to and carries a one-time code.  *)
(* The account is connected only when he confirms there.                   *)
(*                                                                         *)
(* Requests interleave between their statements and their calls to the     *)
(* platform; there is no transaction here.                                 *)
(***************************************************************************)
EXTENDS Integers, FiniteSets

CONSTANTS
    User,
    Ext,              \* accounts at the platforms
    Platform,
    PlatformOf,       \* the platform of an account
    OwnerKnown,       \* platforms that also show videos of others: ownerOf is defined
    Video,
    PostedBy,         \* the account a video is published by
    CreatorOf,        \* the creator who handed a video in
    None,
    Req,              \* requests at work at one time
    MAX_PER_PLATFORM,
    MaxCodes,         \* bound: states and codes issued
    MaxTokens,        \* bound: refresh tokens issued
    MaxCounts         \* bound: passes of the view counter

ASSUME AccountsAssumption ==
    /\ PlatformOf \in [Ext -> Platform] /\ OwnerKnown \subseteq Platform
    /\ PostedBy \in [Video -> Ext] /\ CreatorOf \in [Video -> User]
    /\ None \notin Ext
    /\ MAX_PER_PLATFORM \in Nat \ {0}
    /\ MaxCodes \in Nat /\ MaxTokens \in Nat /\ MaxCounts \in Nat

VARIABLES
    pending,   \* OAuthPending
    account,   \* SocialAccount
    page,      \* return pages people have open
    live,      \* refresh tokens the platforms accept
    call,      \* what each request is at
    made,      \* states and codes, rows, tokens and passes so far
    agreed,    \* history: codes of pages where "connect" was pressed
    passed,    \* history: how many requests each state or code has let through
    beside,    \* history: who began a login while another of his was open
    counted    \* history: <<video, account it was counted by>>

vars == <<pending, account, page, live, call, made, agreed, passed, beside, counted>>

\* late: expiresAt has passed.
Login(exts, tokens) == [code : 1 .. MaxCodes, user : User, platform : Platform,
                        late : BOOLEAN, ext : exts, token : tokens]
\* The login has been asked for; it was made, with an account; its tokens wait
\* for "connect".
Asked == Login({None}, {0})
Signed == Login(Ext, {0})
Awaiting == Login(Ext, 1 .. MaxTokens)
PendingRow == Asked \cup Awaiting
\* via: history, the code that brought the tokens.  fresh: the access token
\* is good for longer than REFRESH_MARGIN_MS.
AccountRow == [id : Nat \ {0}, user : User, ext : Ext, token : 1 .. MaxTokens,
               fresh : BOOLEAN, via : 1 .. MaxCodes]
Page == [code : 1 .. MaxCodes, user : User, ext : Ext]
LiveToken == [ext : Ext, token : 1 .. MaxTokens]

\* login: the pending row taken; row: the account at hand, as it was read;
\* todo: accounts still to ask; left: videos not yet counted.
Idle == [at |-> "idle", user |-> None, platform |-> None, login |-> None,
         row |-> None, todo |-> {}, left |-> {}]

\* Requests with a login at hand, and with an account at hand.
WithLogin == {"exchange", "find", "create", "update"}
WithRow == {"update", "refresh", "save", "refused", "ask"}

Call == [at : {"idle", "next"} \cup WithLogin \cup WithRow,
         user : User \cup {None}, platform : Platform \cup {None},
         login : Signed \cup Awaiting \cup {None}, row : AccountRow \cup {None},
         todo : SUBSET AccountRow, left : SUBSET Video]

HoldsWhatItNeeds(c) ==
    /\ c.at = "exchange" => c.login \in Signed
    /\ c.at \in {"find", "create", "update"} => c.login \in Awaiting
    /\ c.at \in WithRow => c.row \in AccountRow

Made == [code : 0 .. MaxCodes, id : Nat, token : 0 .. MaxTokens, count : Nat]

On(p) == {e \in Ext : PlatformOf[e] = p}

Mine(u, p) == {a \in account : a.user = u /\ a.ext \in On(p)}

\* Logins of a creator that may still bring an account.
Open(u, p) ==
    \/ \E q \in pending : q.user = u /\ q.platform = p
    \/ \E r \in Req : call[r].at \in WithLogin /\ call[r].login.user = u
                                               /\ call[r].login.platform = p

Goes(r, at) == call' = [call EXCEPT ![r].at = at]
Over(r) == call' = [call EXCEPT ![r] = Idle]

-----------------------------------------------------------------------------
(* Connecting an account *)

\* Slip: one account more than the limit.
HasRoom_one(u, p) == Cardinality(Mine(u, p)) <= MAX_PER_PLATFORM

HasRoom(u, p) == Cardinality(Mine(u, p)) < MAX_PER_PLATFORM

\* start: the limit is looked at here and nowhere else; logins left behind go.
Start(u, p) ==
    /\ made.code < MaxCodes
    /\ HasRoom(u, p)
    /\ pending' = {q \in pending : ~q.late}
                  \cup {[code |-> made.code + 1, user |-> u, platform |-> p, late |-> FALSE,
                         ext |-> None, token |-> 0]}
    /\ made' = [made EXCEPT !.code = @ + 1]
    /\ beside' = IF Open(u, p) THEN beside \cup {<<u, p>>} ELSE beside
    /\ UNCHANGED <<account, page, live, call, agreed, passed, counted>>

\* Delete by the one-time key: of two requests one gets the row.
Take(code, rows) == pending' = pending \ {q \in rows : q.code = code}

\* complete: the platform sends someone back, signed in as e.  The row goes with
\* the first attempt, even a failed one.
Callback(r, code, e) ==
    /\ call[r].at = "idle"
    /\ Take(code, pending)
    /\ \E q \in pending :
         /\ q.code = code
         /\ IF q.ext = None /\ q.platform = PlatformOf[e] /\ ~q.late
            THEN /\ call' = [call EXCEPT ![r] =
                               [@ EXCEPT !.at = "exchange", !.login = [q EXCEPT !.ext = e]]]
                 /\ passed' = [passed EXCEPT ![code] = @ + 1]
            ELSE UNCHANGED <<call, passed>>
    /\ UNCHANGED <<account, page, live, made, agreed, beside, counted>>

\* Slip: the account is connected at once, nobody is asked.
Keep_connected(r) ==
    LET q == call[r].login
    IN /\ account' = account \cup {[id |-> made.id + 1, user |-> q.user, ext |-> q.ext,
                                    token |-> made.token + 1, fresh |-> TRUE,
                                    via |-> made.code + 1]}
       /\ made' = [made EXCEPT !.code = @ + 1, !.token = @ + 1, !.id = @ + 1]
       /\ UNCHANGED <<pending, page>>

\* The tokens wait under a code of their own, and the page shows whose profile
\* they would go to.
Keep(r) ==
    LET q == [call[r].login EXCEPT !.code = made.code + 1, !.token = made.token + 1]
    IN /\ pending' = pending \cup {q}
       /\ page' = page \cup {[code |-> q.code, user |-> q.user, ext |-> q.ext]}
       /\ made' = [made EXCEPT !.code = @ + 1, !.token = @ + 1]
       /\ UNCHANGED account

Exchange(r) ==
    /\ call[r].at = "exchange"
    /\ made.code < MaxCodes /\ made.token < MaxTokens
    /\ Keep(r)
    /\ live' = live \cup {[ext |-> call[r].login.ext, token |-> made.token + 1]}
    /\ Over(r)
    /\ UNCHANGED <<agreed, passed, beside, counted>>

\* The platform refuses the code or does not answer.
ExchangeFails(r) ==
    /\ call[r].at = "exchange"
    /\ Over(r)
    /\ UNCHANGED <<pending, account, page, live, made, agreed, passed, beside, counted>>

Awaited == {q \in pending : q.ext # None}

\* confirm: "connect" is pressed, perhaps twice.
Confirm(r, g) ==
    /\ call[r].at = "idle"
    /\ agreed' = agreed \cup {g.code}
    /\ Take(g.code, Awaited)
    /\ \E q \in Awaited :
         /\ q.code = g.code
         /\ IF ~q.late
            THEN /\ call' = [call EXCEPT ![r] = [@ EXCEPT !.at = "find", !.login = q]]
                 /\ passed' = [passed EXCEPT ![g.code] = @ + 1]
            ELSE UNCHANGED <<call, passed>>
    /\ UNCHANGED <<account, page, live, made, beside, counted>>

\* "It is not me".
Decline(g) ==
    /\ Take(g.code, Awaited)
    /\ pending' # pending
    /\ UNCHANGED <<account, page, live, call, made, agreed, passed, beside, counted>>

\* Whose the account is by now; somebody else's is refused.
Find(r) ==
    /\ call[r].at = "find"
    /\ LET q == call[r].login
           held == {a \in account : a.ext = q.ext}
       IN CASE held = {} -> Goes(r, "create")
            [] \E a \in held : a.user = q.user ->
                  call' = [call EXCEPT ![r] = [@ EXCEPT !.at = "update",
                                                        !.row = CHOOSE a \in held : TRUE]]
            [] OTHER -> Over(r)
    /\ UNCHANGED <<pending, account, page, live, made, agreed, passed, beside, counted>>

\* @@unique([platform, externalId]).
Taken(e) == \E a \in account : a.ext = e

\* A row put in place meanwhile is a conflict.
Create(r) ==
    /\ call[r].at = "create"
    /\ LET q == call[r].login
       IN IF Taken(q.ext)
          THEN UNCHANGED <<account, made>>
          ELSE /\ account' = account \cup
                     {[id |-> made.id + 1, user |-> q.user, ext |-> q.ext,
                       token |-> q.token, fresh |-> TRUE, via |-> q.code]}
               /\ made' = [made EXCEPT !.id = @ + 1]
    /\ Over(r)
    /\ UNCHANGED <<pending, page, live, agreed, passed, beside, counted>>

\* The tokens of a row, if it is still there.
Renew(id, token, via) ==
    account' = {IF a.id = id THEN [a EXCEPT !.token = token, !.fresh = TRUE, !.via = via]
                             ELSE a : a \in account}

Update(r) ==
    /\ call[r].at = "update"
    /\ Renew(call[r].row.id, call[r].login.token, call[r].login.code)
    /\ Over(r)
    /\ UNCHANGED <<pending, page, live, made, agreed, passed, beside, counted>>

Disconnect(a) ==
    /\ account' = account \ {a}
    /\ UNCHANGED <<pending, page, live, call, made, agreed, passed, beside, counted>>

-----------------------------------------------------------------------------
(* Counting views *)

\* stats: one creator and platform, as the view counter groups the videos.
Count(r, u, p) ==
    /\ call[r].at = "idle"
    /\ made.count < MaxCounts
    /\ Mine(u, p) # {}
    /\ LET vs == {v \in Video : CreatorOf[v] = u /\ PlatformOf[PostedBy[v]] = p}
       IN /\ vs # {}
          /\ call' = [call EXCEPT ![r] = [@ EXCEPT !.at = "next", !.user = u, !.platform = p,
                                                   !.todo = Mine(u, p), !.left = vs]]
    /\ made' = [made EXCEPT !.count = @ + 1]
    /\ UNCHANGED <<pending, account, page, live, agreed, passed, beside, counted>>

\* ownerOf: such a platform is asked only for videos of the account itself.
Own(a, vs) ==
    IF PlatformOf[a.ext] \in OwnerKnown THEN {v \in vs : PostedBy[v] = a.ext} ELSE vs

\* What the platform answers to a token.
Shown(e, vs) ==
    IF PlatformOf[e] \in OwnerKnown THEN vs ELSE {v \in vs : PostedBy[v] = e}

\* The next account; its token is good, or about to run out.
NextAccount(r) ==
    LET c == call[r]
    IN /\ c.at = "next"
       /\ IF c.todo = {} \/ c.left = {}
          THEN Over(r)
          ELSE LET a == CHOOSE x \in c.todo : \A y \in c.todo : x.id <= y.id
               IN call' = [call EXCEPT ![r] =
                            [c EXCEPT !.todo = c.todo \ {a}, !.row = a,
                                      !.at = IF Own(a, c.left) = {} THEN "next"
                                             ELSE IF a.fresh THEN "ask" ELSE "refresh"]]
       /\ UNCHANGED <<pending, account, page, live, made, agreed, passed, beside, counted>>

\* The platform takes the refresh token it knows and may put another in its place.
Refresh(r) ==
    LET a == call[r].row
        held == [ext |-> a.ext, token |-> a.token]
    IN /\ call[r].at = "refresh"
       /\ IF held \notin live
          THEN /\ Goes(r, "refused")
               /\ UNCHANGED <<live, made>>
          ELSE \/ /\ Goes(r, "save")
                  /\ UNCHANGED <<live, made>>
               \/ /\ made.token < MaxTokens
                  /\ live' = (live \ {held}) \cup {[held EXCEPT !.token = made.token + 1]}
                  /\ made' = [made EXCEPT !.token = @ + 1]
                  /\ call' = [call EXCEPT ![r] = [@ EXCEPT !.at = "save",
                                                           !.row.token = made.token + 1]]
       /\ UNCHANGED <<pending, account, page, agreed, passed, beside, counted>>

\* Slip: an answer that did not come is taken for a refusal.
OnFailure_refused == "refused"

\* Only ProviderRejected disconnects; any other failure leaves the account.
OnFailure == "next"

RefreshFails(r) ==
    /\ call[r].at = "refresh"
    /\ Goes(r, OnFailure)
    /\ UNCHANGED <<pending, account, page, live, made, agreed, passed, beside, counted>>

\* The row is gone: the update throws, and the account gives no views this time.
Save(r) ==
    LET a == call[r].row
        held == {x \in account : x.id = a.id}
    IN /\ call[r].at = "save"
       /\ account' = {IF x \in held THEN [x EXCEPT !.token = a.token, !.fresh = TRUE] ELSE x :
                        x \in account}
       /\ Goes(r, IF held = {} THEN "next" ELSE "ask")
       /\ UNCHANGED <<pending, page, live, made, agreed, passed, beside, counted>>

\* The platform refused to refresh: the account is disconnected, whatever the
\* row holds by now.
Drop(r) ==
    /\ call[r].at = "refused"
    /\ account' = {a \in account : a.id # call[r].row.id}
    /\ Goes(r, "next")
    /\ UNCHANGED <<pending, page, live, made, agreed, passed, beside, counted>>

Ask(r) ==
    LET c == call[r]
        shown == Shown(c.row.ext, Own(c.row, c.left))
    IN /\ c.at = "ask"
       /\ counted' = counted \cup (shown \X {c.row.ext})
       /\ call' = [call EXCEPT ![r] = [c EXCEPT !.at = "next", !.left = c.left \ shown]]
       /\ UNCHANGED <<pending, account, page, live, made, agreed, passed, beside>>

AskFails(r) ==
    /\ call[r].at = "ask"
    /\ Goes(r, "next")
    /\ UNCHANGED <<pending, account, page, live, made, agreed, passed, beside, counted>>

-----------------------------------------------------------------------------
(* Time, and the owner of an account at its platform *)

PendingExpires(q) ==
    /\ ~q.late
    /\ pending' = (pending \ {q}) \cup {[q EXCEPT !.late = TRUE]}
    /\ UNCHANGED <<account, page, live, call, made, agreed, passed, beside, counted>>

TokenExpires(a) ==
    /\ a.fresh
    /\ account' = (account \ {a}) \cup {[a EXCEPT !.fresh = FALSE]}
    /\ UNCHANGED <<pending, page, live, call, made, agreed, passed, beside, counted>>

Revoke(e) ==
    /\ \E t \in live : t.ext = e
    /\ live' = {t \in live : t.ext # e}
    /\ UNCHANGED <<pending, account, page, call, made, agreed, passed, beside, counted>>

-----------------------------------------------------------------------------
Init ==
    /\ pending = {} /\ account = {} /\ page = {} /\ live = {}
    /\ call = [r \in Req |-> Idle]
    /\ made = [code |-> 0, id |-> 0, token |-> 0, count |-> 0]
    /\ agreed = {} /\ passed = [c \in 1 .. MaxCodes |-> 0]
    /\ beside = {} /\ counted = {}

Next ==
    \/ \E u \in User, p \in Platform : Start(u, p)
    \/ \E g \in page : Decline(g)
    \/ \E a \in account : Disconnect(a) \/ TokenExpires(a)
    \/ \E q \in pending : PendingExpires(q)
    \/ \E e \in Ext : Revoke(e)
    \/ \E r \in Req :
         \/ \E code \in 1 .. MaxCodes, e \in Ext : Callback(r, code, e)
         \/ \E g \in page : Confirm(r, g)
         \/ \E u \in User, p \in Platform : Count(r, u, p)
         \/ Exchange(r) \/ ExchangeFails(r)
         \/ Find(r) \/ Create(r) \/ Update(r)
         \/ NextAccount(r) \/ Refresh(r) \/ RefreshFails(r)
         \/ Save(r) \/ Drop(r) \/ Ask(r) \/ AskFails(r)

Spec == Init /\ [][Next]_vars

-----------------------------------------------------------------------------
(* Properties *)

TypeOK ==
    /\ pending \subseteq PendingRow /\ account \subseteq AccountRow
    /\ page \subseteq Page /\ live \subseteq LiveToken
    /\ call \in [Req -> Call]
    /\ \A r \in Req : HoldsWhatItNeeds(call[r])
    /\ made \in Made
    /\ counted \subseteq Video \X Ext
    /\ agreed \subseteq 1 .. MaxCodes /\ passed \in [1 .. MaxCodes -> Nat]
    /\ beside \subseteq User \X Platform

\* The tokens of an account are where the person who signed in with it agreed to
\* have them: on the page of its code he read that very profile and pressed
\* "connect" (complete, confirm).  A link sent to someone else connects nothing
\* on its own.
ConnectedAsAgreed ==
    \A a \in account :
        \E g \in page : /\ g.code = a.via /\ g.code \in agreed
                        /\ g.user = a.user /\ g.ext = a.ext

\* An account of the platform serves one creator at a time, and a state or a code
\* lets one request through, however many times a page is sent (confirm,
\* takeConfirmation, the unique index).
OneOwner ==
    /\ \A a, b \in account : a.ext = b.ext => a = b
    /\ \A c \in DOMAIN passed : passed[c] <= 1

\* More accounts than MAX_PER_PLATFORM come only of logins open side by side: the
\* limit is looked at when a login starts and never again (start).
OverLimitOnlyBeside ==
    \A u \in User, p \in Platform :
        Cardinality(Mine(u, p)) > MAX_PER_PLATFORM => <<u, p>> \in beside

\* Views are read only by the account that published the video, and only if its
\* owner connected it to the creator who handed the video in (stats, ownerOf).
OwnViews ==
    \A x \in counted :
        /\ PostedBy[x[1]] = x[2]
        /\ \E g \in page : g.code \in agreed /\ g.ext = x[2] /\ g.user = CreatorOf[x[1]]

Good(a) == [ext |-> a.ext, token |-> a.token] \in live

Gone(a) == \A b \in account' : b.id # a.id

\* An account whose refresh token the platform accepts is dropped only by a
\* request that had read an older token of it (accessToken).
GoodLostOnlyToStale ==
    [][\A a \in account :
          Gone(a) /\ Good(a) =>
            \/ Disconnect(a)
            \/ \E r \in Req : /\ call[r].at = "refused" /\ call[r].row.id = a.id
                              /\ call[r].row.token # a.token]_vars

\* The comment on accessToken: of two refreshes at once the second may be
\* refused, "and the account stays".
GoodKept ==
    [][\A a \in account : Gone(a) /\ Good(a) => Disconnect(a)]_vars

=============================================================================
