--------------------------- MODULE Accounts_proofs ---------------------------
(***************************************************************************)
(* Theorems about Accounts for any users, accounts, platforms, videos and  *)
(* requests at once, and any limit and bounds.                             *)
(***************************************************************************)
EXTENDS Accounts, FiniteSetTheorems, WellFoundedInduction, TLAPS

-----------------------------------------------------------------------------
(* Types *)

\* A set of rows has one of the least id.
LEMMA LeastRow ==
    ASSUME NEW S, S \subseteq AccountRow, S # {}
    PROVE  \E a \in S : \A b \in S : a.id <= b.id
<1> DEFINE ids == {a.id : a \in S}
<1>1. IsWellFoundedOn(OpToRel(<, Nat), Nat)
    BY NatLessThanWellFounded
<1>2. ids \subseteq Nat /\ ids # {}
    BY DEF AccountRow
<1> HIDE DEF ids
<1>3. PICK m \in ids : \A n \in ids : ~(<<n, m>> \in OpToRel(<, Nat))
    BY <1>1, <1>2, WFMin
<1>4. \A n \in ids : m <= n
    <2> SUFFICES ASSUME NEW n \in ids
                 PROVE  m <= n
        OBVIOUS
    <2>1. ~(n < m)
        BY <1>2, <1>3 DEF OpToRel
    <2> QED
        BY <1>2, <2>1
<1> QED
    BY <1>3, <1>4 DEF ids

CallsOK == call \in [Req -> Call] /\ \A r \in Req : HoldsWhatItNeeds(call[r])

LoginsOK == pending \subseteq PendingRow /\ page \subseteq Page

TokensOK == account \subseteq AccountRow /\ live \subseteq LiveToken

HistoryOK ==
    /\ counted \subseteq Video \X Ext
    /\ agreed \subseteq 1 .. MaxCodes /\ passed \in [1 .. MaxCodes -> Nat]
    /\ beside \subseteq User \X Platform

LEMMA TypeParts == TypeOK <=> CallsOK /\ LoginsOK /\ TokensOK /\ made \in Made /\ HistoryOK
BY DEF TypeOK, CallsOK, LoginsOK, TokensOK, HistoryOK

\* A request moves on to a state that holds what the state needs.
LEMMA CallMoves ==
    ASSUME CallsOK, NEW r \in Req, NEW v \in Call, HoldsWhatItNeeds(v),
           call' = [call EXCEPT ![r] = v]
    PROVE  CallsOK'
<1>1. call' \in [Req -> Call]
    BY DEF CallsOK
<1>2. \A s \in Req : call'[s] = IF s = r THEN v ELSE call[s]
    BY DEF CallsOK
<1> QED
    BY <1>1, <1>2 DEF CallsOK

LEMMA IdleCall == Idle \in Call /\ Idle.at = "idle" /\ HoldsWhatItNeeds(Idle)
BY DEF Idle, Call, WithLogin, WithRow, HoldsWhatItNeeds

LEMMA OverType ==
    ASSUME CallsOK, NEW r \in Req, Over(r)
    PROVE  CallsOK'
BY IdleCall, CallMoves DEF Over

\* A request goes on with the login and the account it holds.
LEMMA GoesType ==
    ASSUME CallsOK, NEW r \in Req, NEW at \in {"next", "create", "ask", "save", "refused"},
           Goes(r, at),
           at = "create" => call[r].login \in Awaiting,
           at \in {"ask", "save", "refused"} => call[r].row \in AccountRow
    PROVE  CallsOK'
<1> DEFINE v == [call[r] EXCEPT !.at = at]
<1>1. call[r] \in Call
    BY DEF CallsOK
<1>2. v \in Call
    BY <1>1 DEF Call, WithLogin, WithRow
<1>3. v.at = at /\ v.login = call[r].login /\ v.row = call[r].row
    BY <1>1 DEF Call
<1>4. call' = [call EXCEPT ![r] = v]
    BY DEF Goes
<1> HIDE DEF v
<1>5. HoldsWhatItNeeds(v)
    BY <1>3 DEF HoldsWhatItNeeds, WithRow
<1> QED
    BY <1>2, <1>4, <1>5, CallMoves

LEMMA TypeInit == Init => TypeOK
<1> SUFFICES ASSUME Init
             PROVE  TypeOK
    OBVIOUS
<1>1. call \in [Req -> Call] /\ \A r \in Req : call[r] = Idle
    BY IdleCall DEF Init
<1>2. CallsOK
    BY <1>1, IdleCall DEF CallsOK
<1>3. made \in Made
    BY AccountsAssumption DEF Init, Made
<1>4. passed \in [1 .. MaxCodes -> Nat]
    BY DEF Init
<1>5. LoginsOK /\ TokensOK /\ HistoryOK
    BY <1>4 DEF Init, LoginsOK, TokensOK, HistoryOK
<1> QED
    BY <1>2, <1>3, <1>5, TypeParts

\* Every counter of what was given out stays one.
LEMMA MadeType ==
    ASSUME made \in Made
    PROVE  /\ made.code \in 0 .. MaxCodes /\ made.token \in 0 .. MaxTokens
           /\ made.id \in Nat /\ made.count \in Nat
           /\ made.code < MaxCodes => /\ made.code + 1 \in 1 .. MaxCodes
                                      /\ [made EXCEPT !.code = @ + 1] \in Made
           /\ made.token < MaxTokens => /\ made.token + 1 \in 1 .. MaxTokens
                                        /\ [made EXCEPT !.token = @ + 1] \in Made
           /\ [made EXCEPT !.id = @ + 1] \in Made
           /\ [made EXCEPT !.count = @ + 1] \in Made
           /\ made.code < MaxCodes /\ made.token < MaxTokens =>
                 [made EXCEPT !.code = @ + 1, !.token = @ + 1] \in Made
<1>1. /\ made.code \in 0 .. MaxCodes /\ made.token \in 0 .. MaxTokens
      /\ made.id \in Nat /\ made.count \in Nat
    BY DEF Made
<1>2. made.code < MaxCodes => made.code + 1 \in 1 .. MaxCodes /\ made.code + 1 \in 0 .. MaxCodes
    BY <1>1, AccountsAssumption
<1>3. made.token < MaxTokens =>
          made.token + 1 \in 1 .. MaxTokens /\ made.token + 1 \in 0 .. MaxTokens
    BY <1>1, AccountsAssumption
<1>4. made.id + 1 \in Nat /\ made.count + 1 \in Nat
    BY <1>1
<1>5. \A n \in 0 .. MaxCodes, m \in 0 .. MaxTokens :
          /\ [made EXCEPT !.code = n] \in Made /\ [made EXCEPT !.token = m] \in Made
          /\ [made EXCEPT !.code = n, !.token = m] \in Made
    BY DEF Made
<1>6. \A n \in Nat : [made EXCEPT !.id = n] \in Made /\ [made EXCEPT !.count = n] \in Made
    BY DEF Made
<1> QED
    BY <1>1, <1>2, <1>3, <1>4, <1>5, <1>6

LEMMA StartType ==
    ASSUME TypeOK, NEW u \in User, NEW p \in Platform, Start(u, p)
    PROVE  TypeOK'
<1> DEFINE q == [code |-> made.code + 1, user |-> u, platform |-> p, late |-> FALSE,
                 ext |-> None, token |-> 0]
<1>1. CallsOK /\ LoginsOK /\ TokensOK /\ made \in Made /\ HistoryOK
    BY TypeParts
<1>2. made.code + 1 \in 1 .. MaxCodes /\ made' \in Made
    BY <1>1, MadeType DEF Start
<1>3. q \in Asked
    BY <1>2 DEF Asked, Login
<1>4. pending' = {o \in pending : ~o.late} \cup {q}
    BY DEF Start
<1> HIDE DEF q
<1>5. LoginsOK'
    BY <1>1, <1>3, <1>4 DEF LoginsOK, PendingRow, Start
<1>6. CallsOK' /\ TokensOK' /\ HistoryOK'
    BY <1>1 DEF Start, CallsOK, TokensOK, HistoryOK
<1> QED
    BY <1>2, <1>5, <1>6 DEF TypeOK, CallsOK, LoginsOK, TokensOK, HistoryOK

LEMMA CallbackType ==
    ASSUME TypeOK, NEW r \in Req, NEW code \in 1 .. MaxCodes, NEW e \in Ext,
           Callback(r, code, e)
    PROVE  TypeOK'
<1>1. CallsOK /\ LoginsOK /\ TokensOK /\ made \in Made /\ HistoryOK
    BY TypeParts
<1>2. PICK q \in pending :
         \/ /\ q.ext = None
            /\ call' = [call EXCEPT ![r] =
                   [@ EXCEPT !.at = "exchange", !.login = [q EXCEPT !.ext = e]]]
            /\ passed' = [passed EXCEPT ![code] = @ + 1]
         \/ UNCHANGED <<call, passed>>
    BY DEF Callback
<1>3. CallsOK'
    <2>1. CASE q.ext = None /\ call' = [call EXCEPT ![r] =
                   [@ EXCEPT !.at = "exchange", !.login = [q EXCEPT !.ext = e]]]
        <3> DEFINE l == [q EXCEPT !.ext = e]
                   v == [call[r] EXCEPT !.at = "exchange", !.login = l]
        <3>1. q \in Asked
            BY <1>1, <2>1, AccountsAssumption DEF LoginsOK, PendingRow, Awaiting, Login
        <3>2. l \in Signed
            BY <3>1 DEF Asked, Signed, Login
        <3>3. call' = [call EXCEPT ![r] = v]
            BY <2>1
        <3> HIDE DEF l
        <3>4. v \in Call /\ v.at = "exchange" /\ v.login = l
            BY <1>1, <3>2 DEF CallsOK, Call, WithLogin
        <3> HIDE DEF v
        <3> QED
            BY <1>1, <3>2, <3>3, <3>4, CallMoves DEF WithRow, HoldsWhatItNeeds
    <2>2. CASE UNCHANGED call
        BY <1>1, <2>2 DEF CallsOK
    <2> QED
        BY <1>2, <2>1, <2>2
<1>4. passed' \in [1 .. MaxCodes -> Nat]
    BY <1>1, <1>2 DEF HistoryOK
<1>5. LoginsOK' /\ TokensOK' /\ HistoryOK' /\ made' \in Made
    BY <1>1, <1>4 DEF Callback, Take, LoginsOK, TokensOK, HistoryOK
<1> QED
    BY <1>3, <1>5 DEF TypeOK, CallsOK, LoginsOK, TokensOK, HistoryOK

LEMMA ExchangeType ==
    ASSUME TypeOK, NEW r \in Req, Exchange(r)
    PROVE  TypeOK'
<1> DEFINE l == call[r].login
           q == [l EXCEPT !.code = made.code + 1, !.token = made.token + 1]
<1>1. CallsOK /\ LoginsOK /\ TokensOK /\ made \in Made /\ HistoryOK
    BY TypeParts
<1>2. /\ made.code + 1 \in 1 .. MaxCodes /\ made.token + 1 \in 1 .. MaxTokens
      /\ made' \in Made
    BY <1>1, MadeType DEF Exchange, Keep
<1>3. l \in Signed
    BY <1>1 DEF Exchange, CallsOK, HoldsWhatItNeeds
<1>4. pending' = pending \cup {q}
      /\ page' = page \cup {[code |-> q.code, user |-> q.user, ext |-> q.ext]}
      /\ live' = live \cup {[ext |-> l.ext, token |-> made.token + 1]}
    BY DEF Exchange, Keep
<1> HIDE DEF l
<1>5. q \in Awaiting
    BY <1>2, <1>3 DEF Signed, Awaiting, Login
<1> HIDE DEF q
<1>6. LoginsOK'
    <2>1. [code |-> q.code, user |-> q.user, ext |-> q.ext] \in Page
        BY <1>5 DEF Awaiting, Login, Page
    <2> QED
        BY <1>1, <1>4, <1>5, <2>1 DEF LoginsOK, PendingRow
<1>7. TokensOK'
    <2>1. [ext |-> l.ext, token |-> made.token + 1] \in LiveToken
        BY <1>2, <1>3 DEF Signed, Login, LiveToken
    <2> QED
        BY <1>1, <1>4, <2>1 DEF Exchange, Keep, TokensOK
<1>8. CallsOK'
    BY <1>1, OverType DEF Exchange
<1>9. HistoryOK'
    BY <1>1 DEF Exchange, HistoryOK
<1> QED
    BY <1>2, <1>6, <1>7, <1>8, <1>9 DEF TypeOK, CallsOK, LoginsOK, TokensOK, HistoryOK

LEMMA ConfirmType ==
    ASSUME TypeOK, NEW r \in Req, NEW g \in page, Confirm(r, g)
    PROVE  TypeOK'
<1>1. CallsOK /\ LoginsOK /\ TokensOK /\ made \in Made /\ HistoryOK
    BY TypeParts
<1>2. g.code \in 1 .. MaxCodes
    BY <1>1 DEF LoginsOK, Page
<1>3. PICK q \in Awaited :
         \/ /\ call' = [call EXCEPT ![r] = [@ EXCEPT !.at = "find", !.login = q]]
            /\ passed' = [passed EXCEPT ![g.code] = @ + 1]
         \/ UNCHANGED <<call, passed>>
    BY DEF Confirm
<1>4. CallsOK'
    <2>1. q \in Awaiting
        BY <1>1 DEF Awaited, LoginsOK, PendingRow, Asked, Login
    <2> DEFINE v == [call[r] EXCEPT !.at = "find", !.login = q]
    <2>2. v \in Call /\ v.at = "find" /\ v.login = q
        BY <1>1, <2>1 DEF CallsOK, Call, WithLogin
    <2>3. call' = [call EXCEPT ![r] = v] \/ UNCHANGED call
        BY <1>3
    <2> HIDE DEF v
    <2>4. HoldsWhatItNeeds(v)
        BY <2>1, <2>2 DEF WithRow, HoldsWhatItNeeds
    <2>5. CASE UNCHANGED call
        BY <1>1, <2>5 DEF CallsOK
    <2> QED
        BY <1>1, <2>2, <2>3, <2>4, <2>5, CallMoves
<1>5. passed' \in [1 .. MaxCodes -> Nat]
    BY <1>1, <1>2, <1>3 DEF HistoryOK
<1>6. LoginsOK' /\ TokensOK' /\ HistoryOK' /\ made' \in Made
    BY <1>1, <1>2, <1>5 DEF Confirm, Take, LoginsOK, TokensOK, HistoryOK
<1> QED
    BY <1>4, <1>6 DEF TypeOK, CallsOK, LoginsOK, TokensOK, HistoryOK

LEMMA FindType ==
    ASSUME TypeOK, NEW r \in Req, Find(r)
    PROVE  TypeOK'
<1> DEFINE l == call[r].login
           held == {a \in account : a.ext = l.ext}
<1>1. CallsOK /\ LoginsOK /\ TokensOK /\ made \in Made /\ HistoryOK
    BY TypeParts
<1>2. l \in Awaiting
    BY <1>1 DEF Find, CallsOK, HoldsWhatItNeeds
<1>3. CallsOK'
    <2>1. CASE held = {} /\ Goes(r, "create")
        BY <1>1, <1>2, <2>1, GoesType
    <2>2. CASE /\ \E a \in held : a.user = l.user
               /\ call' = [call EXCEPT ![r] = [@ EXCEPT !.at = "update",
                                                        !.row = CHOOSE a \in held : TRUE]]
        <3> DEFINE a == CHOOSE x \in held : TRUE
                   v == [call[r] EXCEPT !.at = "update", !.row = a]
        <3>1. a \in AccountRow
            BY <1>1, <2>2 DEF TokensOK
        <3>2. call' = [call EXCEPT ![r] = v]
            BY <2>2
        <3> HIDE DEF a
        <3>3. v \in Call /\ v.at = "update" /\ v.row = a /\ v.login = l
            BY <1>1, <3>1 DEF CallsOK, Call, WithLogin
        <3> HIDE DEF v, l
        <3>4. HoldsWhatItNeeds(v)
            BY <1>2, <3>1, <3>3 DEF HoldsWhatItNeeds
        <3> QED
            BY <1>1, <3>2, <3>3, <3>4, CallMoves
    <2>3. CASE Over(r)
        BY <1>1, <2>3, OverType
    <2> QED
        BY <2>1, <2>2, <2>3 DEF Find
<1>4. LoginsOK' /\ TokensOK' /\ HistoryOK' /\ made' \in Made
    BY <1>1 DEF Find, LoginsOK, TokensOK, HistoryOK
<1> QED
    BY <1>3, <1>4 DEF TypeOK, CallsOK, LoginsOK, TokensOK, HistoryOK

LEMMA CreateType ==
    ASSUME TypeOK, NEW r \in Req, Create(r)
    PROVE  TypeOK'
<1> DEFINE l == call[r].login
           a == [id |-> made.id + 1, user |-> l.user, ext |-> l.ext,
                 token |-> l.token, fresh |-> TRUE, via |-> l.code]
<1>1. CallsOK /\ LoginsOK /\ TokensOK /\ made \in Made /\ HistoryOK
    BY TypeParts
<1>2. l \in Awaiting
    BY <1>1 DEF Create, CallsOK, HoldsWhatItNeeds
<1>3. account' \in {account, account \cup {a}} /\ made' \in {made, [made EXCEPT !.id = @ + 1]}
    BY DEF Create
<1> HIDE DEF l
<1>4. a \in AccountRow
    BY <1>1, <1>2, MadeType DEF AccountRow, Awaiting, Login
<1> HIDE DEF a
<1>5. TokensOK' /\ made' \in Made
    BY <1>1, <1>3, <1>4, MadeType DEF TokensOK, Create
<1>6. CallsOK'
    BY <1>1, OverType DEF Create
<1>7. LoginsOK' /\ HistoryOK'
    BY <1>1 DEF Create, LoginsOK, HistoryOK
<1> QED
    BY <1>5, <1>6, <1>7 DEF TypeOK, CallsOK, LoginsOK, TokensOK, HistoryOK

LEMMA UpdateType ==
    ASSUME TypeOK, NEW r \in Req, Update(r)
    PROVE  TypeOK'
<1> DEFINE l == call[r].login
           id == call[r].row.id
<1>1. CallsOK /\ LoginsOK /\ TokensOK /\ made \in Made /\ HistoryOK
    BY TypeParts
<1>2. l \in Awaiting
    BY <1>1 DEF Update, CallsOK, HoldsWhatItNeeds
<1>3. account' = {IF a.id = id THEN [a EXCEPT !.token = l.token, !.fresh = TRUE,
                                              !.via = l.code]
                               ELSE a : a \in account}
    BY DEF Update, Renew
<1> HIDE DEF l, id
<1>4. \A a \in AccountRow :
          [a EXCEPT !.token = l.token, !.fresh = TRUE, !.via = l.code] \in AccountRow
    BY <1>2 DEF AccountRow, Awaiting, Login
<1>5. TokensOK'
    BY <1>1, <1>3, <1>4 DEF TokensOK, Update
<1>6. CallsOK'
    BY <1>1, OverType DEF Update
<1>7. LoginsOK' /\ HistoryOK' /\ made' \in Made
    BY <1>1 DEF Update, LoginsOK, HistoryOK
<1> QED
    BY <1>5, <1>6, <1>7 DEF TypeOK, CallsOK, LoginsOK, TokensOK, HistoryOK

LEMMA CountType ==
    ASSUME TypeOK, NEW r \in Req, NEW u \in User, NEW p \in Platform, Count(r, u, p)
    PROVE  TypeOK'
<1> DEFINE vs == {v \in Video : CreatorOf[v] = u /\ PlatformOf[PostedBy[v]] = p}
           mine == Mine(u, p)
           w == [call[r] EXCEPT !.at = "next", !.user = u, !.platform = p,
                                !.todo = mine, !.left = vs]
<1>1. CallsOK /\ LoginsOK /\ TokensOK /\ made \in Made /\ HistoryOK
    BY TypeParts
<1>2. call' = [call EXCEPT ![r] = w]
    BY DEF Count
<1>3. mine \subseteq AccountRow /\ vs \subseteq Video
    BY <1>1 DEF Mine, TokensOK
<1> HIDE DEF mine, vs
<1>4. w \in Call /\ w.at = "next"
    BY <1>1, <1>3 DEF CallsOK, Call
<1> HIDE DEF w
<1>5. HoldsWhatItNeeds(w)
    BY <1>4 DEF HoldsWhatItNeeds, WithRow
<1>6. CallsOK'
    BY <1>1, <1>2, <1>4, <1>5, CallMoves
<1>7. LoginsOK' /\ TokensOK' /\ HistoryOK' /\ made' \in Made
    BY <1>1, MadeType DEF Count, LoginsOK, TokensOK, HistoryOK
<1> QED
    BY <1>6, <1>7 DEF TypeOK, CallsOK, LoginsOK, TokensOK, HistoryOK

\* The next account is one of those still to ask.
LEMMA NextOfTodo ==
    ASSUME TypeOK, NEW r \in Req, call[r].todo # {}
    PROVE  (CHOOSE x \in call[r].todo : \A y \in call[r].todo : x.id <= y.id) \in call[r].todo
<1>1. call[r].todo \subseteq AccountRow
    BY DEF TypeOK, Call
<1> QED
    BY <1>1, LeastRow

LEMMA NextAccountType ==
    ASSUME TypeOK, NEW r \in Req, NextAccount(r)
    PROVE  TypeOK'
<1> DEFINE c == call[r]
           a == CHOOSE x \in c.todo : \A y \in c.todo : x.id <= y.id
           at == IF Own(a, c.left) = {} THEN "next" ELSE IF a.fresh THEN "ask" ELSE "refresh"
           v == [c EXCEPT !.todo = c.todo \ {a}, !.row = a, !.at = at]
<1>1. CallsOK /\ LoginsOK /\ TokensOK /\ made \in Made /\ HistoryOK
    BY TypeParts
<1>2. CallsOK'
    <2>1. CASE Over(r)
        BY <1>1, <2>1, OverType
    <2>2. CASE c.todo # {} /\ call' = [call EXCEPT ![r] = v]
        <3>1. a \in c.todo /\ c \in Call
            BY <1>1, <2>2, NextOfTodo DEF CallsOK
        <3>2. at \in {"next", "ask", "refresh"}
            OBVIOUS
        <3>3. c.todo \subseteq AccountRow
            BY <3>1 DEF Call
        <3> HIDE DEF a, at, c
        <3>4. v \in Call /\ v.at = at /\ v.row = a
            BY <3>1, <3>2, <3>3 DEF Call, WithLogin, WithRow
        <3>5. HoldsWhatItNeeds(v)
            BY <3>1, <3>2, <3>3, <3>4 DEF HoldsWhatItNeeds
        <3> HIDE DEF v
        <3> QED
            BY <1>1, <2>2, <3>4, <3>5, CallMoves
    <2>3. ASSUME ~(c.todo = {} \/ c.left = {})
          PROVE  call' = [call EXCEPT ![r] = v]
        BY <2>3 DEF NextAccount
    <2>4. c.todo = {} \/ c.left = {} => Over(r)
        BY DEF NextAccount
    <2> HIDE DEF v, c
    <2> QED
        BY <2>1, <2>2, <2>3, <2>4
<1>3. LoginsOK' /\ TokensOK' /\ HistoryOK' /\ made' \in Made
    BY <1>1 DEF NextAccount, LoginsOK, TokensOK, HistoryOK
<1> QED
    BY <1>2, <1>3 DEF TypeOK, CallsOK, LoginsOK, TokensOK, HistoryOK

LEMMA RefreshType ==
    ASSUME TypeOK, NEW r \in Req, Refresh(r)
    PROVE  TypeOK'
<1> DEFINE c == call[r]
           a == c.row
           n == made.token + 1
           k == [a EXCEPT !.token = n]
           v == [c EXCEPT !.at = "save", !.row = k]
<1>1. CallsOK /\ LoginsOK /\ TokensOK /\ made \in Made /\ HistoryOK
    BY TypeParts
<1>2. a \in AccountRow /\ c \in Call
    BY <1>1 DEF Refresh, CallsOK, HoldsWhatItNeeds, WithRow
<1>3. \/ (Goes(r, "refused") \/ Goes(r, "save")) /\ UNCHANGED <<live, made>>
      \/ /\ made.token < MaxTokens
         /\ live' = (live \ {[ext |-> a.ext, token |-> a.token]})
                    \cup {[ext |-> a.ext, token |-> n]}
         /\ made' = [made EXCEPT !.token = n]
         /\ call' = [call EXCEPT ![r] = v]
    BY DEF Refresh
<1>4. CallsOK' /\ TokensOK' /\ made' \in Made
    <2>1. CASE (Goes(r, "refused") \/ Goes(r, "save")) /\ UNCHANGED <<live, made>>
        BY <1>1, <1>2, <2>1, GoesType DEF Refresh, TokensOK
    <2>2. CASE /\ made.token < MaxTokens
               /\ live' = (live \ {[ext |-> a.ext, token |-> a.token]})
                          \cup {[ext |-> a.ext, token |-> n]}
               /\ made' = [made EXCEPT !.token = n]
               /\ call' = [call EXCEPT ![r] = v]
        <3>1. n \in 1 .. MaxTokens /\ made' \in Made
            BY <1>1, <2>2, MadeType
        <3> HIDE DEF n, a, c
        <3>2. k \in AccountRow /\ [ext |-> a.ext, token |-> n] \in LiveToken
            BY <1>2, <3>1 DEF AccountRow, LiveToken
        <3> HIDE DEF k
        <3>3. v \in Call /\ v.at = "save" /\ v.row = k
            BY <1>2, <3>2 DEF Call, WithRow
        <3> HIDE DEF v
        <3>4. CallsOK'
            BY <1>1, <2>2, <3>2, <3>3, CallMoves DEF HoldsWhatItNeeds, c
        <3>5. TokensOK'
            BY <1>1, <2>2, <3>2 DEF Refresh, TokensOK
        <3> QED
            BY <3>1, <3>4, <3>5
    <2> QED
        BY <1>3, <2>1, <2>2
<1>5. LoginsOK' /\ HistoryOK'
    BY <1>1 DEF Refresh, LoginsOK, HistoryOK
<1> QED
    BY <1>4, <1>5 DEF TypeOK, CallsOK, LoginsOK, TokensOK, HistoryOK

LEMMA SaveType ==
    ASSUME TypeOK, NEW r \in Req, Save(r)
    PROVE  TypeOK'
<1> DEFINE a == call[r].row
           held == {x \in account : x.id = a.id}
           at == IF held = {} THEN "next" ELSE "ask"
<1>1. CallsOK /\ LoginsOK /\ TokensOK /\ made \in Made /\ HistoryOK
    BY TypeParts
<1>2. a \in AccountRow
    BY <1>1 DEF Save, CallsOK, HoldsWhatItNeeds, WithRow
<1>3. /\ account' = {IF x \in held THEN [x EXCEPT !.token = a.token, !.fresh = TRUE] ELSE x :
                       x \in account}
      /\ Goes(r, at)
    BY DEF Save
<1>4. at \in {"next", "ask"}
    OBVIOUS
<1>5. CallsOK'
    <2> HIDE DEF at
    <2> QED
        BY <1>1, <1>2, <1>3, <1>4, GoesType
<1>6. \A x \in AccountRow : [x EXCEPT !.token = a.token, !.fresh = TRUE] \in AccountRow
    <2> HIDE DEF a
    <2> QED
        BY <1>2 DEF AccountRow
<1> HIDE DEF held, a, at
<1>7. TokensOK'
    BY <1>1, <1>3, <1>6 DEF TokensOK, Save
<1>8. LoginsOK' /\ HistoryOK' /\ made' \in Made
    BY <1>1 DEF Save, LoginsOK, HistoryOK
<1> QED
    BY <1>5, <1>7, <1>8 DEF TypeOK, CallsOK, LoginsOK, TokensOK, HistoryOK

LEMMA AskType ==
    ASSUME TypeOK, NEW r \in Req, Ask(r)
    PROVE  TypeOK'
<1> DEFINE c == call[r]
           e == c.row.ext
           shown == Shown(e, Own(c.row, c.left))
           v == [c EXCEPT !.at = "next", !.left = c.left \ shown]
<1>1. CallsOK /\ LoginsOK /\ TokensOK /\ made \in Made /\ HistoryOK
    BY TypeParts
<1>2. c \in Call /\ c.row \in AccountRow /\ c.left \subseteq Video
    BY <1>1 DEF Ask, CallsOK, HoldsWhatItNeeds, WithRow, Call
<1>3. shown \subseteq Video /\ e \in Ext
    BY <1>2 DEF Shown, Own, AccountRow
<1>4. counted' = counted \cup (shown \X {e}) /\ call' = [call EXCEPT ![r] = v]
    BY DEF Ask
<1> HIDE DEF shown, e, c
<1>5. v \in Call /\ v.at = "next"
    BY <1>2 DEF Call
<1> HIDE DEF v
<1>6. CallsOK'
    BY <1>1, <1>4, <1>5, CallMoves DEF HoldsWhatItNeeds, WithRow
<1>7. HistoryOK'
    BY <1>1, <1>3, <1>4 DEF Ask, HistoryOK
<1>8. LoginsOK' /\ TokensOK' /\ made' \in Made
    BY <1>1 DEF Ask, LoginsOK, TokensOK
<1> QED
    BY <1>6, <1>7, <1>8 DEF TypeOK, CallsOK, LoginsOK, TokensOK, HistoryOK

LEMMA TypeStep == TypeOK /\ [Next]_vars => TypeOK'
<1> SUFFICES ASSUME TypeOK, [Next]_vars
             PROVE  TypeOK'
    OBVIOUS
<1>0. CallsOK /\ LoginsOK /\ TokensOK /\ made \in Made /\ HistoryOK
    BY TypeParts
<1>1. ASSUME CallsOK', LoginsOK', TokensOK', made' \in Made, HistoryOK'
      PROVE  TypeOK'
    BY <1>1 DEF TypeOK, CallsOK, LoginsOK, TokensOK, HistoryOK
<1>2. ASSUME NEW g \in page, Decline(g)
      PROVE  TypeOK'
    BY <1>0, <1>1, <1>2 DEF Decline, Take, CallsOK, LoginsOK, TokensOK, HistoryOK
<1>3. ASSUME NEW a \in account, Disconnect(a) \/ TokenExpires(a)
      PROVE  TypeOK'
    <2>1. [a EXCEPT !.fresh = FALSE] \in AccountRow
        BY <1>0 DEF TokensOK, AccountRow
    <2>2. TokensOK'
        BY <1>0, <1>3, <2>1 DEF Disconnect, TokenExpires, TokensOK
    <2>3. CallsOK' /\ LoginsOK' /\ made' \in Made /\ HistoryOK'
        BY <1>0, <1>3 DEF Disconnect, TokenExpires, CallsOK, LoginsOK, HistoryOK
    <2> QED
        BY <1>1, <2>2, <2>3
<1>4. ASSUME NEW q \in pending, PendingExpires(q)
      PROVE  TypeOK'
    <2>1. [q EXCEPT !.late = TRUE] \in PendingRow
        BY <1>0 DEF LoginsOK, PendingRow, Asked, Awaiting, Login
    <2>2. LoginsOK'
        BY <1>0, <1>4, <2>1 DEF PendingExpires, LoginsOK
    <2>3. CallsOK' /\ TokensOK' /\ made' \in Made /\ HistoryOK'
        BY <1>0, <1>4 DEF PendingExpires, CallsOK, TokensOK, HistoryOK
    <2> QED
        BY <1>1, <2>2, <2>3
<1>5. ASSUME NEW e \in Ext, Revoke(e)
      PROVE  TypeOK'
    BY <1>0, <1>1, <1>5 DEF Revoke, CallsOK, LoginsOK, TokensOK, HistoryOK
<1>6. ASSUME NEW r \in Req, ExchangeFails(r)
      PROVE  TypeOK'
    BY <1>0, <1>1, <1>6, OverType DEF ExchangeFails, LoginsOK, TokensOK, HistoryOK
<1>7. ASSUME NEW r \in Req, RefreshFails(r) \/ AskFails(r)
      PROVE  TypeOK'
    <2>1. CallsOK'
        BY <1>0, <1>7, GoesType DEF RefreshFails, AskFails, OnFailure
    <2> QED
        BY <1>0, <1>1, <1>7, <2>1 DEF RefreshFails, AskFails, LoginsOK, TokensOK, HistoryOK
<1>8. ASSUME NEW r \in Req, Drop(r)
      PROVE  TypeOK'
    <2>1. CallsOK'
        BY <1>0, <1>8, GoesType DEF Drop
    <2> QED
        BY <1>0, <1>1, <1>8, <2>1 DEF Drop, LoginsOK, TokensOK, HistoryOK
<1>9. CASE UNCHANGED vars
    BY <1>0, <1>1, <1>9 DEF vars, CallsOK, LoginsOK, TokensOK, HistoryOK
<1> QED
    BY <1>2, <1>3, <1>4, <1>5, <1>6, <1>7, <1>8, <1>9, StartType, CallbackType, ConfirmType,
       CountType, ExchangeType, FindType, CreateType, UpdateType, NextAccountType, RefreshType,
       SaveType, AskType
       DEF Next

\* Logins, accounts, tokens and requests keep their types: a request at a step
\* holds the login and the account the step works on (AccountsService).
THEOREM TypeCorrect == Spec => []TypeOK
BY TypeInit, TypeStep, PTL DEF Spec

-----------------------------------------------------------------------------
(* Who agreed to what *)

\* Ids and tokens are given out in order, and an id keeps its owner and account:
\* a row that a request read has of an account at the platform and a creator what
\* the row stored under its id has by now.
Known(k) ==
    /\ k.id <= made.id /\ k.token <= made.token
    /\ \A a \in account : a.id = k.id => a.ext = k.ext /\ a.user = k.user

\* "connect" was pressed on the page of a code, which showed this.
AgreedOn(code, user, ext) ==
    \E g \in page : g.code = code /\ g.code \in agreed /\ g.user = user /\ g.ext = ext

\* The unique index.
OneRow == \A a, b \in account : a.ext = b.ext => a = b

AccountsFit ==
    /\ \A a \in account : Known(a) /\ AgreedOn(a.via, a.user, a.ext)
    /\ OneRow

\* A page shows every login that waits for "connect".
PendingFit ==
    \A q \in pending :
        /\ q.token <= made.token
        /\ q.ext # None => \E g \in page : g.code = q.code /\ g.user = q.user /\ g.ext = q.ext

\* What a request holds: rows as above, a login that was agreed on, and a token
\* that was refused is refused for good.
CallFits(c) ==
    /\ \A k \in c.todo : Known(k)
    /\ c.at \in WithRow => Known(c.row)
    /\ c.at \in {"find", "create", "update"} =>
          /\ c.login.token <= made.token
          /\ AgreedOn(c.login.code, c.login.user, c.login.ext)
    /\ c.at = "update" => c.row.user = c.login.user /\ c.row.ext = c.login.ext
    /\ c.at = "refused" => [ext |-> c.row.ext, token |-> c.row.token] \notin live

CallsFit == \A r \in Req : CallFits(call[r])

AgreedInv == TypeOK /\ AccountsFit /\ PendingFit /\ CallsFit

\* What no step takes back: pages and agreements, what was given out, and the
\* owner of an id; a token that is not accepted is never accepted again.
Grows ==
    /\ page \subseteq page' /\ agreed \subseteq agreed'
    /\ made.id <= made'.id /\ made.token <= made'.token
    /\ \A b \in account' :
          \/ \E a \in account : b.id = a.id /\ b.ext = a.ext /\ b.user = a.user
          \/ b.id > made.id
    /\ \A t \in live' : t \in live \/ t.token > made.token

\* So what a request holds stays true.
LEMMA FitsKept ==
    ASSUME made \in Made, made' \in Made, Grows, NEW c \in Call, HoldsWhatItNeeds(c),
           CallFits(c)
    PROVE  CallFits(c)'
<1>0. /\ made.id \in Nat /\ made'.id \in Nat /\ made.token \in Nat /\ made'.token \in Nat
      /\ made.id <= made'.id /\ made.token <= made'.token
    BY DEF Made, Grows
<1>1. ASSUME NEW k \in AccountRow, Known(k)
      PROVE  Known(k)'
    <2>1. k.id \in Nat /\ k.token \in Nat
        BY DEF AccountRow
    <2>2. k.id <= made'.id /\ k.token <= made'.token
        BY <1>0, <1>1, <2>1 DEF Known
    <2>3. ASSUME NEW b \in account', b.id = k.id
          PROVE  b.ext = k.ext /\ b.user = k.user
        <3>1. ~(b.id > made.id)
            BY <1>0, <1>1, <2>1, <2>3 DEF Known
        <3>2. PICK a \in account : b.id = a.id /\ b.ext = a.ext /\ b.user = a.user
            BY <3>1 DEF Grows
        <3> QED
            BY <1>1, <2>3, <3>2 DEF Known
    <2> QED
        BY <2>2, <2>3 DEF Known
<1>2. \A k \in c.todo : Known(k)'
    <2>1. c.todo \subseteq AccountRow
        BY DEF Call
    <2> QED
        BY <1>1, <2>1 DEF CallFits
<1>3. c.at \in WithRow => Known(c.row)'
    BY <1>1 DEF CallFits, HoldsWhatItNeeds
<1>4. ASSUME c.at \in {"find", "create", "update"}
      PROVE  /\ c.login.token <= made'.token
             /\ AgreedOn(c.login.code, c.login.user, c.login.ext)'
    <2>1. c.login.token \in Nat /\ c.login.token <= made.token
        BY <1>4 DEF CallFits, HoldsWhatItNeeds, Awaiting, Login
    <2>2. AgreedOn(c.login.code, c.login.user, c.login.ext)
        BY <1>4 DEF CallFits
    <2>3. AgreedOn(c.login.code, c.login.user, c.login.ext)'
        BY <2>2 DEF AgreedOn, Grows
    <2> QED
        BY <1>0, <2>1, <2>3
<1>5. ASSUME c.at = "refused"
      PROVE  [ext |-> c.row.ext, token |-> c.row.token] \notin live'
    <2> DEFINE t == [ext |-> c.row.ext, token |-> c.row.token]
    <2>1. t \notin live
        BY <1>5 DEF CallFits
    <2>2. c.row.token \in Nat /\ c.row.token <= made.token
        BY <1>5 DEF CallFits, HoldsWhatItNeeds, WithRow, AccountRow, Known
    <2>3. ~(t.token > made.token)
        BY <1>0, <2>2
    <2> QED
        BY <2>1, <2>3 DEF Grows
<1> QED
    BY <1>2, <1>3, <1>4, <1>5 DEF CallFits

\* One request moves on, the others hold what they held.
LEMMA CallsFitStep ==
    ASSUME CallsOK, made \in Made, made' \in Made, Grows, CallsFit,
           NEW r \in Req, NEW v, call' = [call EXCEPT ![r] = v], CallFits(v)'
    PROVE  CallsFit'
<1> SUFFICES ASSUME NEW s \in Req
             PROVE  CallFits(call[s])'
    BY DEF CallsFit
<1>1. call'[s] = IF s = r THEN v ELSE call[s]
    BY DEF CallsOK
<1>2. CASE s = r
    BY <1>1, <1>2 DEF CallFits, Known, AgreedOn
<1>3. CASE s # r
    <2> SUFFICES ASSUME NEW c, c = call[s]
                 PROVE  CallFits(call[s])'
        OBVIOUS
    <2>1. c \in Call /\ HoldsWhatItNeeds(c) /\ CallFits(c)
        BY DEF CallsOK, CallsFit
    <2>2. CallFits(c)'
        BY <2>1, FitsKept
    <2> QED
        BY <1>1, <1>3, <2>2 DEF CallFits, Known, AgreedOn
<1> QED
    BY <1>2, <1>3

LEMMA CallsFitSame ==
    ASSUME CallsOK, made \in Made, made' \in Made, Grows, CallsFit, UNCHANGED call
    PROVE  CallsFit'
<1> SUFFICES ASSUME NEW s \in Req, NEW c, c = call[s]
             PROVE  CallFits(call[s])'
    BY DEF CallsFit
<1>1. c \in Call /\ HoldsWhatItNeeds(c) /\ CallFits(c)
    BY DEF CallsOK, CallsFit
<1>2. CallFits(c)'
    BY <1>1, FitsKept
<1> QED
    BY <1>2 DEF CallFits, Known, AgreedOn

\* A request that ends, or goes on with no more than it holds.
LEMMA CallsFitOver ==
    ASSUME CallsOK, made \in Made, made' \in Made, Grows, CallsFit, NEW r \in Req, Over(r)
    PROVE  CallsFit'
<1>1. CallFits(Idle)'
    BY DEF CallFits, Idle, WithRow
<1> QED
    BY <1>1, CallsFitStep DEF Over

LEMMA CallsFitGoes ==
    ASSUME CallsOK, made \in Made, made' \in Made, Grows, CallsFit,
           NEW r \in Req, NEW at \in {"next", "create", "ask", "save", "refused"}, Goes(r, at),
           at = "create" => call[r].at = "find",
           at \in {"ask", "save", "refused"} => call[r].at \in WithRow,
           at = "refused" =>
               [ext |-> call[r].row.ext, token |-> call[r].row.token] \notin live
    PROVE  CallsFit'
<1> SUFFICES ASSUME NEW v, v = [call[r] EXCEPT !.at = at]
             PROVE  CallsFit'
    OBVIOUS
<1>1. call[r] \in Call /\ HoldsWhatItNeeds(call[r]) /\ CallFits(call[r])
    BY DEF CallsOK, CallsFit
<1>2. v \in Call /\ v.at = at /\ v.login = call[r].login /\ v.row = call[r].row
      /\ v.todo = call[r].todo
    BY <1>1 DEF Call, WithLogin, WithRow
<1>3. HoldsWhatItNeeds(v)
    BY <1>1, <1>2 DEF HoldsWhatItNeeds, WithRow
<1>4. CallFits(v)
    BY <1>1, <1>2 DEF CallFits, WithRow
<1>5. CallFits(v)'
    BY <1>2, <1>3, <1>4, FitsKept
<1>6. call' = [call EXCEPT ![r] = v]
    BY DEF Goes
<1> QED
    BY <1>5, <1>6, CallsFitStep

\* Rows go, or get other tokens and codes, and keep their ids, owners and accounts.
LEMMA AccountsFitRenewed ==
    ASSUME TypeOK, TypeOK', AccountsFit, made.id <= made'.id, made.token <= made'.token,
           NEW S \in SUBSET account, NEW f, \A b \in account' : \E a \in S : b = f[a],
           \A a \in S : f[a].id = a.id /\ f[a].ext = a.ext /\ f[a].user = a.user,
           \A a \in S : f[a].token <= made'.token,
           \A a \in S : AgreedOn(f[a].via, a.user, a.ext)'
    PROVE  AccountsFit'
<1>1. \A b \in account' : b.id <= made'.id
    <2> SUFFICES ASSUME NEW a \in S
                 PROVE  f[a].id <= made'.id
        OBVIOUS
    <2>1. a \in AccountRow /\ a.id \in Nat /\ made.id \in Nat /\ made'.id \in Nat
        BY DEF TypeOK, Made, AccountRow
    <2>2. a.id <= made.id
        BY DEF AccountsFit, Known
    <2> QED
        BY <2>1, <2>2
<1>2. \A b, d \in account' : d.id = b.id => d.ext = b.ext /\ d.user = b.user
    <2> SUFFICES ASSUME NEW a \in S, NEW e \in S, f[e].id = f[a].id
                 PROVE  f[e].ext = f[a].ext /\ f[e].user = f[a].user
        OBVIOUS
    <2>1. e.id = a.id
        OBVIOUS
    <2>2. e.ext = a.ext /\ e.user = a.user
        BY <2>1 DEF AccountsFit, Known
    <2> QED
        BY <2>2
<1>3. OneRow'
    <2> SUFFICES ASSUME NEW a \in S, NEW e \in S, f[e].ext = f[a].ext
                 PROVE  f[e] = f[a]
        BY DEF OneRow
    <2>1. e = a
        BY DEF AccountsFit, OneRow
    <2> QED
        BY <2>1
<1>4. \A b \in account' : AgreedOn(b.via, b.user, b.ext)'
    BY DEF AgreedOn
<1>5. \A b \in account' : b.token <= made'.token
    OBVIOUS
<1>6. \A b \in account' : Known(b)'
    BY <1>1, <1>2, <1>5 DEF Known
<1> QED
    BY <1>3, <1>4, <1>6 DEF AccountsFit

LEMMA AgreedKept ==
    ASSUME Grows, NEW code, NEW user, NEW ext, AgreedOn(code, user, ext)
    PROVE  AgreedOn(code, user, ext)'
BY DEF Grows, AgreedOn

LEMMA AccountsFitLess ==
    ASSUME TypeOK, TypeOK', AccountsFit, Grows, account' \subseteq account
    PROVE  AccountsFit'
<1> SUFFICES ASSUME NEW S, S = account', NEW f, f = [a \in S |-> a]
             PROVE  AccountsFit'
    OBVIOUS
<1>2. \A a \in S : f[a] = a
    OBVIOUS
<1>1. \A b \in account' : \E a \in S : b = f[a]
    BY <1>2
<1>3. \A a \in S : f[a].token <= made'.token
    <2> SUFFICES ASSUME NEW a \in S
                 PROVE  a.token <= made'.token
        BY <1>2
    <2>1. a.token \in Nat /\ made.token \in Nat /\ made'.token \in Nat
        BY DEF TypeOK, Made, AccountRow
    <2>2. a.token <= made.token
        BY DEF AccountsFit, Known
    <2> QED
        BY <2>1, <2>2 DEF Grows
<1>4. \A a \in S : AgreedOn(f[a].via, a.user, a.ext)'
    <2> SUFFICES ASSUME NEW a \in S
                 PROVE  AgreedOn(a.via, a.user, a.ext)'
        BY <1>2 DEF AgreedOn
    <2>1. AgreedOn(a.via, a.user, a.ext)
        BY DEF AccountsFit
    <2> QED
        BY <2>1 DEF Grows, AgreedOn
<1>5. made.id <= made'.id /\ made.token <= made'.token
    BY DEF Grows
<1>6. \A a \in S : f[a].id = a.id /\ f[a].ext = a.ext /\ f[a].user = a.user
    BY <1>2
<1>7. S \in SUBSET account
    OBVIOUS
<1> QED
    BY <1>1, <1>3, <1>4, <1>5, <1>6, <1>7, AccountsFitRenewed

LEMMA PendingFitLess ==
    ASSUME TypeOK, TypeOK', PendingFit, Grows, pending' \subseteq pending
    PROVE  PendingFit'
<1> SUFFICES ASSUME NEW q \in pending'
             PROVE  /\ q.token <= made'.token
                    /\ q.ext # None => \E g \in page' : /\ g.code = q.code /\ g.user = q.user
                                                        /\ g.ext = q.ext
    BY DEF PendingFit
<1>1. q.token \in Nat /\ made.token \in Nat /\ made'.token \in Nat
    BY DEF TypeOK, Made, PendingRow, Asked, Awaiting, Login
<1>2. q.token <= made'.token
    BY <1>1 DEF PendingFit, Grows
<1>3. page \subseteq page'
    BY DEF Grows
<1> QED
    BY <1>2, <1>3 DEF PendingFit

LEMMA GrowsQuiet ==
    ASSUME TypeOK, page \subseteq page', agreed \subseteq agreed',
           UNCHANGED <<made>> \/ (\E n \in {"code", "count"} : made' = [made EXCEPT ![n] = @ + 1]),
           account' \subseteq account, live' \subseteq live
    PROVE  Grows
<1>1. made.id \in Nat /\ made.token \in Nat
    BY DEF TypeOK, Made
<1>2. made'.id = made.id /\ made'.token = made.token
    BY DEF TypeOK, Made
<1> QED
    BY <1>1, <1>2 DEF Grows

\* The three parts that are not a type.
Fit == AccountsFit /\ PendingFit /\ CallsFit

LEMMA LoginFits ==
    ASSUME AgreedInv, TypeOK',
           \/ \E u \in User, p \in Platform : Start(u, p)
           \/ \E g \in page : Decline(g)
           \/ \E q \in pending : PendingExpires(q)
           \/ \E e \in Ext : Revoke(e)
    PROVE  Fit'
<1>0. TypeOK /\ AccountsFit /\ PendingFit /\ CallsFit /\ CallsOK /\ made \in Made /\ made' \in Made
    BY DEF AgreedInv, TypeOK, CallsOK
<1>1. made.token \in Nat /\ made'.token \in Nat
    BY <1>0 DEF Made
<1>2. /\ UNCHANGED <<call, account, page, agreed>> /\ live' \subseteq live
      /\ UNCHANGED made \/ made' = [made EXCEPT !.code = @ + 1]
    BY DEF Start, Decline, PendingExpires, Revoke
<1>3. Grows
    BY <1>0, <1>2, GrowsQuiet
<1>4. AccountsFit' /\ CallsFit'
    BY <1>0, <1>2, <1>3, AccountsFitLess, CallsFitSame
<1>5. PendingFit'
    <2>1. ASSUME NEW u \in User, NEW p \in Platform, Start(u, p)
          PROVE  PendingFit'
        <3> DEFINE o == [code |-> made.code + 1, user |-> u, platform |-> p, late |-> FALSE,
                         ext |-> None, token |-> 0]
        <3>o. pending' = {q \in pending : ~q.late} \cup {o}
            BY <2>1 DEF Start
        <3>a. o.ext = None /\ o.token = 0
            OBVIOUS
        <3> HIDE DEF o
        <3>1. \A q \in pending' : q \in pending \/ (q.ext = None /\ q.token = 0)
            BY <3>o, <3>a
        <3>2. \A q \in pending' : q.token <= made'.token
            <4> SUFFICES ASSUME NEW q \in pending'
                         PROVE  q.token <= made'.token
                OBVIOUS
            <4>1. CASE q \in pending
                BY <1>0, <1>1, <1>2, <4>1 DEF PendingFit, Made
            <4>2. CASE q.token = 0
                BY <1>1, <4>2
            <4> QED
                BY <3>1, <4>1, <4>2
        <3>3. \A q \in pending' : q.ext # None => q \in pending
            BY <3>1
        <3> QED
            BY <1>0, <1>2, <3>2, <3>3 DEF PendingFit
    <2>2. ASSUME NEW q \in pending, PendingExpires(q)
          PROVE  PendingFit'
        <3> DEFINE o == [q EXCEPT !.late = TRUE]
        <3>1. pending' = (pending \ {q}) \cup {o} /\ UNCHANGED <<made, page>>
            BY <2>2 DEF PendingExpires
        <3>2. o.code = q.code /\ o.user = q.user /\ o.ext = q.ext /\ o.token = q.token
            BY <1>0 DEF TypeOK, PendingRow, Asked, Awaiting, Login
        <3> HIDE DEF o
        <3> QED
            BY <1>0, <3>1, <3>2 DEF PendingFit
    <2>3. ASSUME pending' \subseteq pending
          PROVE  PendingFit'
        BY <1>0, <1>3, <2>3, PendingFitLess
    <2> QED
        BY <2>1, <2>2, <2>3 DEF Decline, Take, Revoke
<1> QED
    BY <1>4, <1>5 DEF Fit

\* A request takes a login, or brings tokens for it.
LEMMA SignInFits ==
    ASSUME AgreedInv, TypeOK', NEW r \in Req,
           \/ \E code \in 1 .. MaxCodes, e \in Ext : Callback(r, code, e)
           \/ Exchange(r)
           \/ ExchangeFails(r)
    PROVE  Fit'
<1>0. TypeOK /\ AccountsFit /\ PendingFit /\ CallsFit /\ CallsOK /\ made \in Made /\ made' \in Made
    BY DEF AgreedInv, TypeOK, CallsOK
<1>c. call[r] \in Call /\ HoldsWhatItNeeds(call[r]) /\ CallFits(call[r])
    BY <1>0 DEF CallsOK, CallsFit
<1>1. ASSUME NEW code \in 1 .. MaxCodes, NEW e \in Ext, Callback(r, code, e)
      PROVE  Fit'
    <2>1. UNCHANGED <<account, page, live, made, agreed>> /\ pending' \subseteq pending
        BY <1>1 DEF Callback, Take
    <2>2. Grows
        BY <1>0, <2>1, GrowsQuiet
    <2>3. CallsFit'
        <3>1. PICK q \in pending :
                 \/ call' = [call EXCEPT ![r] =
                       [@ EXCEPT !.at = "exchange", !.login = [q EXCEPT !.ext = e]]]
                 \/ UNCHANGED call
            BY <1>1 DEF Callback
        <3>2. CASE UNCHANGED call
            BY <1>0, <2>2, <3>2, CallsFitSame
        <3>3. CASE call' = [call EXCEPT ![r] =
                       [@ EXCEPT !.at = "exchange", !.login = [q EXCEPT !.ext = e]]]
            <4> SUFFICES ASSUME NEW v,
                                v = [call[r] EXCEPT !.at = "exchange",
                                                    !.login = [q EXCEPT !.ext = e]]
                         PROVE  CallsFit'
                OBVIOUS
            <4>1. v.at = "exchange" /\ v.todo = call[r].todo
                BY <1>c DEF Call
            <4>2. \A k \in v.todo : Known(k)
                BY <1>c, <4>1 DEF CallFits
            <4>3. \A k \in v.todo : Known(k)'
                BY <2>1, <4>2 DEF Known
            <4>4. CallFits(v)'
                BY <4>1, <4>3 DEF CallFits, WithRow
            <4>5. call' = [call EXCEPT ![r] = v]
                BY <3>3
            <4> QED
                BY <1>0, <2>2, <4>4, <4>5, CallsFitStep
        <3> QED
            BY <3>1, <3>2, <3>3
    <2>4. AccountsFit' /\ PendingFit'
        BY <1>0, <2>1, <2>2, AccountsFitLess, PendingFitLess
    <2> QED
        BY <2>3, <2>4 DEF Fit
<1>2. CASE Exchange(r)
    <2> DEFINE l == call[r].login
               q == [l EXCEPT !.code = made.code + 1, !.token = made.token + 1]
               t == [ext |-> l.ext, token |-> made.token + 1]
    <2>1. /\ pending' = pending \cup {q}
          /\ page' = page \cup {[code |-> q.code, user |-> q.user, ext |-> q.ext]}
          /\ live' = live \cup {t}
          /\ made' = [made EXCEPT !.code = @ + 1, !.token = @ + 1]
          /\ UNCHANGED <<account, agreed>> /\ Over(r)
        BY <1>2 DEF Exchange, Keep
    <2>2. q.token = made.token + 1
        BY <1>0, <1>2 DEF CallsOK, HoldsWhatItNeeds, Exchange, Signed, Login
    <2>3. made'.id = made.id /\ made'.token = made.token + 1 /\ made.token \in Nat /\ made.id \in Nat
        BY <1>0, <2>1 DEF Made
    <2>4. t.token = made.token + 1
        OBVIOUS
    <2> HIDE DEF q, t
    <2>5. Grows
        BY <2>1, <2>3, <2>4 DEF Grows
    <2>6. PendingFit'
        <3> SUFFICES ASSUME NEW o \in pending'
                     PROVE  /\ o.token <= made'.token
                            /\ o.ext # None => \E g \in page' : /\ g.code = o.code
                                                   /\ g.user = o.user /\ g.ext = o.ext
            BY DEF PendingFit
        <3>1. CASE o \in pending
            <4>1. o.token \in Nat /\ o.token <= made.token
                BY <1>0, <3>1 DEF PendingFit, TypeOK, PendingRow, Asked, Awaiting, Login
            <4> QED
                BY <1>0, <2>1, <2>3, <3>1, <4>1 DEF PendingFit
        <3>2. CASE o = q
            <4> DEFINE g == [code |-> q.code, user |-> q.user, ext |-> q.ext]
            <4>1. g \in page' /\ g.code = q.code /\ g.user = q.user /\ g.ext = q.ext
                BY <2>1
            <4>2. q.token <= made'.token
                BY <2>2, <2>3
            <4> HIDE DEF g
            <4> QED
                BY <3>2, <4>1, <4>2
        <3> QED
            BY <2>1, <3>1, <3>2
    <2>7. CallsFit'
        BY <1>0, <2>1, <2>5, CallsFitOver
    <2>8. AccountsFit'
        BY <1>0, <2>1, <2>5, AccountsFitLess
    <2> QED
        BY <2>6, <2>7, <2>8 DEF Fit
<1>3. CASE ExchangeFails(r)
    <2>1. UNCHANGED <<account, page, live, made, agreed, pending>> /\ Over(r)
        BY <1>3 DEF ExchangeFails
    <2>2. Grows
        BY <1>0, <2>1, GrowsQuiet
    <2> QED
        BY <1>0, <2>1, <2>2, AccountsFitLess, PendingFitLess, CallsFitOver DEF Fit
<1> QED
    BY <1>1, <1>2, <1>3

\* "connect": what was shown is what was agreed on.
LEMMA ConfirmFits ==
    ASSUME AgreedInv, TypeOK', NEW r \in Req, NEW g \in page, Confirm(r, g)
    PROVE  Fit'
<1>0. TypeOK /\ AccountsFit /\ PendingFit /\ CallsFit /\ CallsOK /\ made \in Made /\ made' \in Made
    BY DEF AgreedInv, TypeOK, CallsOK
<1>c. call[r] \in Call /\ HoldsWhatItNeeds(call[r]) /\ CallFits(call[r])
    BY <1>0 DEF CallsOK, CallsFit
<1>1. UNCHANGED <<account, page, live, made>> /\ pending' \subseteq pending
      /\ agreed' = agreed \cup {g.code}
    BY DEF Confirm, Take
<1>2. Grows
    BY <1>0, <1>1, GrowsQuiet
<1>3. CallsFit'
    <2>1. PICK q \in Awaited :
              /\ q.code = g.code
              /\ \/ call' = [call EXCEPT ![r] = [@ EXCEPT !.at = "find", !.login = q]]
                 \/ UNCHANGED call
        BY DEF Confirm
    <2>2. CASE UNCHANGED call
        BY <1>0, <1>2, <2>2, CallsFitSame
    <2>3. CASE call' = [call EXCEPT ![r] = [@ EXCEPT !.at = "find", !.login = q]]
        <3> SUFFICES ASSUME NEW v, v = [call[r] EXCEPT !.at = "find", !.login = q]
                     PROVE  CallsFit'
            OBVIOUS
        <3>1. v.at = "find" /\ v.todo = call[r].todo /\ v.login = q
            BY <1>c DEF Call
        <3>2. \A k \in v.todo : Known(k)
            BY <1>c, <3>1 DEF CallFits
        <3>3. \A k \in v.todo : Known(k)'
            BY <1>1, <3>2 DEF Known
        <3>4. q.token <= made'.token
            BY <1>0, <1>1 DEF PendingFit, Awaited
        <3>5. AgreedOn(q.code, q.user, q.ext)'
            <4>1. PICK h \in page : h.code = q.code /\ h.user = q.user /\ h.ext = q.ext
                BY <1>0 DEF PendingFit, Awaited
            <4> QED
                BY <1>1, <2>1, <4>1 DEF AgreedOn
        <3>6. CallFits(v)'
            BY <3>1, <3>3, <3>4, <3>5 DEF CallFits, WithRow
        <3>7. call' = [call EXCEPT ![r] = v]
            BY <2>3
        <3> QED
            BY <1>0, <1>2, <3>6, <3>7, CallsFitStep
    <2> QED
        BY <2>1, <2>2, <2>3
<1>4. AccountsFit' /\ PendingFit'
    BY <1>0, <1>1, <1>2, AccountsFitLess, PendingFitLess
<1> QED
    BY <1>3, <1>4 DEF Fit

LEMMA FindFits ==
    ASSUME AgreedInv, TypeOK', NEW r \in Req, Find(r)
    PROVE  Fit'
<1> DEFINE l == call[r].login
           held == {a \in account : a.ext = l.ext}
<1>0. TypeOK /\ AccountsFit /\ PendingFit /\ CallsFit /\ CallsOK /\ made \in Made /\ made' \in Made
    BY DEF AgreedInv, TypeOK, CallsOK
<1>c. call[r] \in Call /\ HoldsWhatItNeeds(call[r]) /\ CallFits(call[r]) /\ call[r].at = "find"
    BY <1>0 DEF CallsOK, CallsFit, Find
<1>1. UNCHANGED <<account, page, live, made, agreed, pending>>
    BY DEF Find
<1>2. Grows
    BY <1>0, <1>1, GrowsQuiet
<1>3. CallsFit'
    <2>1. CASE Goes(r, "create")
        BY <1>0, <1>c, <1>2, <2>1, CallsFitGoes
    <2>2. CASE Over(r)
        BY <1>0, <1>2, <2>2, CallsFitOver
    <2>3. CASE /\ \E a \in held : a.user = l.user
               /\ call' = [call EXCEPT ![r] = [@ EXCEPT !.at = "update",
                                                        !.row = CHOOSE a \in held : TRUE]]
        <3> SUFFICES ASSUME NEW a, a = CHOOSE x \in held : TRUE,
                            NEW v, v = [call[r] EXCEPT !.at = "update", !.row = a],
                            NEW m, m = l
                     PROVE  CallsFit'
            OBVIOUS
        <3>1. a \in account /\ a.ext = l.ext /\ a.user = l.user
            <4>1. a \in held
                BY <2>3
            <4>2. PICK b \in held : b.user = l.user
                BY <2>3
            <4>3. a = b
                BY <1>0, <4>1, <4>2 DEF AccountsFit, OneRow
            <4> QED
                BY <4>1, <4>2, <4>3
        <3>2. v.at = "update" /\ v.todo = call[r].todo /\ v.login = m /\ v.row = a
            BY <1>c DEF Call
        <3>l. m = call[r].login
            OBVIOUS
        <3> HIDE DEF l, held
        <3>3. \A k \in v.todo : Known(k)'
            BY <1>c, <1>1, <3>2 DEF CallFits, Known
        <3>4. Known(a)'
            BY <1>0, <1>1, <3>1 DEF AccountsFit, Known
        <3>5. m.token <= made'.token /\ AgreedOn(m.code, m.user, m.ext)'
            BY <1>c, <1>1, <3>l DEF CallFits, AgreedOn
        <3>6. CallFits(v)'
            BY <3>1, <3>2, <3>3, <3>4, <3>5 DEF CallFits
        <3>7. call' = [call EXCEPT ![r] = v]
            BY <2>3
        <3> QED
            BY <1>0, <1>2, <3>6, <3>7, CallsFitStep
    <2> QED
        BY <2>1, <2>2, <2>3 DEF Find
<1>4. AccountsFit' /\ PendingFit'
    BY <1>0, <1>1, <1>2, AccountsFitLess, PendingFitLess
<1> QED
    BY <1>3, <1>4 DEF Fit

\* The account is put in place for the one who agreed.
LEMMA CreateFits ==
    ASSUME AgreedInv, TypeOK', NEW r \in Req, Create(r)
    PROVE  Fit'
<1>0. TypeOK /\ AccountsFit /\ PendingFit /\ CallsFit /\ CallsOK /\ made \in Made /\ made' \in Made
    BY DEF AgreedInv, TypeOK, CallsOK
<1> SUFFICES ASSUME NEW l, l = call[r].login,
                    NEW n, n = [id |-> made.id + 1, user |-> l.user, ext |-> l.ext,
                                token |-> l.token, fresh |-> TRUE, via |-> l.code]
             PROVE  Fit'
    OBVIOUS
<1>1. l.token <= made.token /\ AgreedOn(l.code, l.user, l.ext) /\ l \in Awaiting
    BY <1>0 DEF Create, CallsFit, CallFits, CallsOK, HoldsWhatItNeeds
<1>2. UNCHANGED <<page, live, agreed, pending>> /\ Over(r)
    BY DEF Create
<1>3. /\ made.id \in Nat /\ made.token \in Nat /\ made'.token = made.token
      /\ made' = made \/ (made'.id = made.id + 1)
    BY <1>0 DEF Create, Made
<1>4. \/ UNCHANGED <<account, made>>
      \/ /\ ~Taken(l.ext) /\ account' = account \cup {n}
         /\ made'.id = made.id + 1
    BY <1>0 DEF Create, Made
<1>5. n.id = made.id + 1
    OBVIOUS
<1>6. Grows
    BY <1>2, <1>3, <1>4, <1>5 DEF Grows
<1>7. CallsFit' /\ PendingFit'
    BY <1>0, <1>2, <1>6, CallsFitOver, PendingFitLess
<1>8. AccountsFit'
    <2>1. CASE account' = account
        BY <1>0, <1>6, <2>1, AccountsFitLess
    <2>2. CASE ~Taken(l.ext) /\ account' = account \cup {n} /\ made'.id = made.id + 1
        <3>0. n.user = l.user /\ n.ext = l.ext /\ n.token = l.token /\ n.via = l.code
            OBVIOUS
        <3>1. \A a \in account : a.id \in Nat /\ a.id <= made.id /\ a.token <= made.token
            BY <1>0 DEF AccountsFit, Known, TypeOK, AccountRow
        <3>2. \A a \in account : a.id # n.id /\ a.ext # n.ext
            BY <1>3, <1>5, <2>2, <3>0, <3>1 DEF Taken
        <3>3. OneRow'
            <4> SUFFICES ASSUME NEW a \in account', NEW b \in account', a.ext = b.ext
                         PROVE  a = b
                BY DEF OneRow
            <4>1. CASE a \in account /\ b \in account
                BY <1>0, <4>1 DEF AccountsFit, OneRow
            <4>2. CASE a = n \/ b = n
                BY <2>2, <3>2, <4>2
            <4> QED
                BY <2>2, <4>1, <4>2
        <3>4. \A a \in account : AgreedOn(a.via, a.user, a.ext)'
            BY <1>0, <1>2 DEF AccountsFit, AgreedOn
        <3>5. AgreedOn(n.via, n.user, n.ext)'
            BY <1>1, <1>2, <3>0 DEF AgreedOn
        <3>6. \A a \in account : Known(a)'
            <4> SUFFICES ASSUME NEW a \in account
                         PROVE  Known(a)'
                OBVIOUS
            <4>1. a.id <= made'.id /\ a.token <= made'.token
                BY <1>3, <2>2, <3>1
            <4>2. \A b \in account' : b.id = a.id => b.ext = a.ext /\ b.user = a.user
                BY <1>0, <2>2, <3>2 DEF AccountsFit, Known
            <4> QED
                BY <4>1, <4>2 DEF Known
        <3>7. Known(n)'
            <4>1. n.id <= made'.id /\ n.token <= made'.token
                BY <1>1, <1>3, <1>5, <2>2, <3>0
            <4>2. \A b \in account' : b.id = n.id => b = n
                BY <2>2, <3>2
            <4> QED
                BY <4>1, <4>2 DEF Known
        <3>8. \A a \in account' : Known(a)' /\ AgreedOn(a.via, a.user, a.ext)'
            BY <2>2, <3>4, <3>5, <3>6, <3>7
        <3> QED
            BY <3>3, <3>8 DEF AccountsFit
    <2> QED
        BY <1>4, <2>1, <2>2
<1> QED
    BY <1>7, <1>8 DEF Fit

\* Rows change their tokens, or age.
LEMMA RenewFits ==
    ASSUME AgreedInv, TypeOK',
           \/ \E r \in Req : Update(r) \/ Save(r)
           \/ \E a \in account : TokenExpires(a)
    PROVE  Fit'
<1>0. TypeOK /\ AccountsFit /\ PendingFit /\ CallsFit /\ CallsOK /\ made \in Made /\ made' \in Made
    BY DEF AgreedInv, TypeOK, CallsOK
<1>1. UNCHANGED <<page, live, agreed, pending, made>>
    BY DEF Update, Save, TokenExpires
<1>2. made.id \in Nat /\ made.token \in Nat /\ made.id <= made'.id /\ made.token <= made'.token
    BY <1>0, <1>1 DEF Made
<1>3. \A a \in account : a \in AccountRow /\ a.token <= made'.token /\ AgreedOn(a.via, a.user, a.ext)'
    BY <1>0, <1>1 DEF TypeOK, AccountsFit, Known, AgreedOn
\* How an account is renewed.
<1> DEFINE Same(f) == \A a \in account : f[a].id = a.id /\ f[a].ext = a.ext /\ f[a].user = a.user
<1>4. ASSUME NEW f, \A b \in account' : \E a \in account : b = f[a], Same(f),
             \A a \in account : f[a].token <= made'.token,
             \A a \in account : AgreedOn(f[a].via, a.user, a.ext)'
      PROVE  AccountsFit' /\ Grows
    <2>1. AccountsFit'
        <3>1. \A S \in SUBSET account : S = account =>
                 /\ \A b \in account' : \E a \in S : b = f[a]
                 /\ \A a \in S : f[a].id = a.id /\ f[a].ext = a.ext /\ f[a].user = a.user
                 /\ \A a \in S : f[a].token <= made'.token
                 /\ \A a \in S : AgreedOn(f[a].via, a.user, a.ext)'
            BY <1>4
        <3> QED
            BY <1>0, <1>2, <1>4, AccountsFitRenewed
    <2>2. \A b \in account' : \E a \in account : b.id = a.id /\ b.ext = a.ext /\ b.user = a.user
        BY <1>4
    <2> QED
        BY <1>1, <1>2, <2>1, <2>2 DEF Grows
<1>5. ASSUME NEW r \in Req, Update(r)
      PROVE  Fit'
    <2> SUFFICES ASSUME NEW l, l = call[r].login, NEW k, k = call[r].row,
                        NEW f, f = [a \in account |->
                                       IF a.id = k.id
                                       THEN [a EXCEPT !.token = l.token, !.fresh = TRUE,
                                                      !.via = l.code]
                                       ELSE a]
                 PROVE  Fit'
        OBVIOUS
    <2>1. /\ l.token <= made.token /\ AgreedOn(l.code, l.user, l.ext)
          /\ Known(k) /\ k.user = l.user /\ k.ext = l.ext
        BY <1>0, <1>5 DEF Update, CallsFit, CallFits, WithRow
    <2>2. account' = {f[a] : a \in account}
        BY <1>5 DEF Update, Renew
    <2>3. ASSUME NEW a \in account
          PROVE  /\ f[a].id = a.id /\ f[a].ext = a.ext /\ f[a].user = a.user
                 /\ \/ f[a] = a
                    \/ a.id = k.id /\ f[a].token = l.token /\ f[a].via = l.code
        BY <1>3 DEF AccountRow
    <2>4. Same(f)
        BY <2>3
    <2>5. \A a \in account : f[a].token <= made'.token
        BY <1>1, <1>3, <2>1, <2>3
    <2>6. ASSUME NEW a \in account
          PROVE  AgreedOn(f[a].via, a.user, a.ext)'
        <3>1. CASE f[a] = a
            BY <1>3, <3>1 DEF AgreedOn
        <3>2. CASE a.id = k.id /\ f[a].via = l.code
            <4>1. a.ext = l.ext /\ a.user = l.user
                BY <2>1, <3>2 DEF Known
            <4> QED
                BY <1>1, <2>1, <3>2, <4>1 DEF AgreedOn
        <3> QED
            BY <2>3, <3>1, <3>2
    <2>7. \A b \in account' : \E a \in account : b = f[a]
        BY <2>2
    <2>8. AccountsFit' /\ Grows
        BY <1>4, <2>4, <2>5, <2>6, <2>7
    <2> QED
        BY <1>0, <1>1, <1>5, <2>8, CallsFitOver, PendingFitLess DEF Update, Fit
<1>6. ASSUME NEW r \in Req, Save(r)
      PROVE  Fit'
    <2> SUFFICES ASSUME NEW k, k = call[r].row,
                        NEW f, f = [a \in account |->
                                       IF a.id = k.id
                                       THEN [a EXCEPT !.token = k.token, !.fresh = TRUE] ELSE a]
                 PROVE  Fit'
        OBVIOUS
    <2>1. Known(k) /\ call[r].at = "save"
        BY <1>0, <1>6 DEF Save, CallsFit, CallFits, WithRow
    <2>2. \A b \in account' : \E a \in account : b = f[a]
        BY <1>6 DEF Save
    <2>3. ASSUME NEW a \in account
          PROVE  /\ f[a].id = a.id /\ f[a].ext = a.ext /\ f[a].user = a.user /\ f[a].via = a.via
                 /\ f[a].token \in {a.token, k.token}
        BY <1>3 DEF AccountRow
    <2>4. Same(f)
        BY <2>3
    <2>5. \A a \in account : f[a].token <= made'.token
        BY <1>1, <1>3, <2>1, <2>3 DEF Known
    <2>6. \A a \in account : AgreedOn(f[a].via, a.user, a.ext)'
        <3> SUFFICES ASSUME NEW a \in account
                     PROVE  AgreedOn(f[a].via, a.user, a.ext)'
            OBVIOUS
        <3>1. f[a].via = a.via
            BY <2>3
        <3>2. AgreedOn(a.via, a.user, a.ext)'
            BY <1>3
        <3> QED
            BY <3>1, <3>2 DEF AgreedOn
    <2>7. AccountsFit' /\ Grows
        BY <1>4, <2>2, <2>4, <2>5, <2>6
    <2>8. \E at \in {"next", "ask"} : Goes(r, at)
        BY <1>6 DEF Save
    <2>9. CallsFit'
        BY <1>0, <2>1, <2>7, <2>8, CallsFitGoes DEF WithRow
    <2> QED
        BY <1>0, <1>1, <2>7, <2>9, PendingFitLess DEF Fit
<1>7. ASSUME NEW x \in account, TokenExpires(x)
      PROVE  Fit'
    <2> SUFFICES ASSUME NEW f, f = [a \in account |->
                                       IF a = x THEN [a EXCEPT !.fresh = FALSE] ELSE a]
                 PROVE  Fit'
        OBVIOUS
    <2>1. UNCHANGED call
        BY <1>7 DEF TokenExpires
    <2>2. \A b \in account' : \E a \in account : b = f[a]
        BY <1>7 DEF TokenExpires
    <2>3. ASSUME NEW a \in account
          PROVE  /\ f[a].id = a.id /\ f[a].ext = a.ext /\ f[a].user = a.user /\ f[a].via = a.via
                 /\ f[a].token = a.token
        BY <1>3 DEF AccountRow
    <2>4. Same(f)
        BY <2>3
    <2>5. \A a \in account : f[a].token <= made'.token
        BY <1>3, <2>3
    <2>6. \A a \in account : AgreedOn(f[a].via, a.user, a.ext)'
        BY <1>3, <2>3 DEF AgreedOn
    <2>7. AccountsFit' /\ Grows
        BY <1>4, <2>2, <2>4, <2>5, <2>6
    <2> QED
        BY <1>0, <1>1, <2>1, <2>7, CallsFitSame, PendingFitLess DEF Fit
<1> QED
    BY <1>5, <1>6, <1>7

\* Accounts go.
LEMMA DropFits ==
    ASSUME AgreedInv, TypeOK',
           \/ \E r \in Req : Drop(r)
           \/ \E a \in account : Disconnect(a)
    PROVE  Fit'
<1>0. TypeOK /\ AccountsFit /\ PendingFit /\ CallsFit /\ CallsOK /\ made \in Made /\ made' \in Made
    BY DEF AgreedInv, TypeOK, CallsOK
<1>1. UNCHANGED <<page, live, agreed, pending, made>> /\ account' \subseteq account
    BY DEF Drop, Disconnect
<1>2. Grows
    BY <1>0, <1>1, GrowsQuiet
<1>3. CallsFit'
    BY <1>0, <1>2, CallsFitSame, CallsFitGoes DEF Drop, Disconnect
<1> QED
    BY <1>0, <1>1, <1>2, <1>3, AccountsFitLess, PendingFitLess DEF Fit

\* The view counter at work.
LEMMA CountFits ==
    ASSUME AgreedInv, TypeOK', NEW r \in Req,
           \/ \E u \in User, p \in Platform : Count(r, u, p)
           \/ NextAccount(r) \/ RefreshFails(r) \/ Ask(r) \/ AskFails(r)
    PROVE  Fit'
<1>0. TypeOK /\ AccountsFit /\ PendingFit /\ CallsFit /\ CallsOK /\ made \in Made /\ made' \in Made
    BY DEF AgreedInv, TypeOK, CallsOK
<1>c. call[r] \in Call /\ HoldsWhatItNeeds(call[r]) /\ CallFits(call[r])
    BY <1>0 DEF CallsOK, CallsFit
<1>1. /\ UNCHANGED <<page, live, agreed, pending, account>>
      /\ UNCHANGED made \/ made' = [made EXCEPT !.count = @ + 1]
    BY DEF Count, NextAccount, RefreshFails, Ask, AskFails
<1>2. made'.id = made.id /\ made'.token = made.token
    BY <1>0, <1>1 DEF Made
<1>3. Grows
    BY <1>0, <1>1, GrowsQuiet
<1>4. ASSUME NEW k, Known(k)
      PROVE  Known(k)'
    BY <1>1, <1>2, <1>4 DEF Known
<1>5. ASSUME NEW u \in User, NEW p \in Platform, Count(r, u, p)
      PROVE  CallsFit'
    <2> SUFFICES ASSUME NEW v, call' = [call EXCEPT ![r] = v],
                        NEW vs, v = [call[r] EXCEPT !.at = "next", !.user = u, !.platform = p,
                                                    !.todo = Mine(u, p), !.left = vs]
                 PROVE  CallsFit'
        BY <1>5 DEF Count
    <2>1. v.at = "next" /\ v.todo = Mine(u, p)
        BY <1>c DEF Call
    <2>2. \A k \in v.todo : Known(k)
        BY <1>0, <2>1 DEF Mine, AccountsFit
    <2>3. CallFits(v)'
        BY <1>4, <2>1, <2>2 DEF CallFits, WithRow
    <2> QED
        BY <1>0, <1>3, <2>3, CallsFitStep
<1>6. ASSUME NextAccount(r)
      PROVE  CallsFit'
    <2>1. CASE Over(r)
        BY <1>0, <1>3, <2>1, CallsFitOver
    <2>2. ASSUME ~(call[r].todo = {} \/ call[r].left = {})
          PROVE  CallsFit'
        <3> SUFFICES ASSUME NEW a,
                            a = CHOOSE x \in call[r].todo : \A y \in call[r].todo : x.id <= y.id,
                            NEW at \in {"next", "ask", "refresh"},
                            NEW v, v = [call[r] EXCEPT !.todo = call[r].todo \ {a}, !.row = a,
                                                       !.at = at],
                            call' = [call EXCEPT ![r] = v]
                     PROVE  CallsFit'
            BY <1>6, <2>2 DEF NextAccount
        <3>1. a \in call[r].todo
            BY <1>0, <2>2, NextOfTodo
        <3>2. v.at = at /\ v.todo = call[r].todo \ {a} /\ v.row = a
            BY <1>c DEF Call
        <3>3. \A k \in v.todo : Known(k)'
            BY <1>c, <1>4, <3>2 DEF CallFits
        <3>4. Known(a)'
            BY <1>c, <1>4, <3>1 DEF CallFits
        <3>5. CallFits(v)'
            BY <3>2, <3>3, <3>4 DEF CallFits
        <3> QED
            BY <1>0, <1>3, <3>5, CallsFitStep
    <2>3. call[r].todo = {} \/ call[r].left = {} => Over(r)
        BY <1>6 DEF NextAccount
    <2> QED
        BY <2>1, <2>2, <2>3
<1>7. ASSUME RefreshFails(r) \/ AskFails(r)
      PROVE  CallsFit'
    <2>1. Goes(r, "next")
        BY <1>7 DEF RefreshFails, AskFails, OnFailure
    <2> QED
        BY <1>0, <1>3, <2>1, CallsFitGoes
<1>8. ASSUME Ask(r)
      PROVE  CallsFit'
    <2> SUFFICES ASSUME NEW v, call' = [call EXCEPT ![r] = v],
                        NEW vs, v = [call[r] EXCEPT !.at = "next", !.left = vs]
                 PROVE  CallsFit'
        BY <1>8 DEF Ask
    <2>1. v.at = "next" /\ v.todo = call[r].todo
        BY <1>c DEF Call
    <2>2. \A k \in v.todo : Known(k)'
        BY <1>c, <1>4, <2>1 DEF CallFits
    <2>3. CallFits(v)'
        BY <2>1, <2>2 DEF CallFits, WithRow
    <2> QED
        BY <1>0, <1>3, <2>3, CallsFitStep
<1>9. CallsFit'
    BY <1>5, <1>6, <1>7, <1>8
<1>10. AccountsFit' /\ PendingFit'
    BY <1>0, <1>1, <1>3, AccountsFitLess, PendingFitLess
<1> QED
    BY <1>9, <1>10 DEF Fit

LEMMA RefreshFits ==
    ASSUME AgreedInv, TypeOK', NEW r \in Req, Refresh(r)
    PROVE  Fit'
<1>0. TypeOK /\ AccountsFit /\ PendingFit /\ CallsFit /\ CallsOK /\ made \in Made /\ made' \in Made
    BY DEF AgreedInv, TypeOK, CallsOK
<1>c. call[r] \in Call /\ HoldsWhatItNeeds(call[r]) /\ CallFits(call[r])
      /\ call[r].at = "refresh"
    BY <1>0 DEF CallsOK, CallsFit, Refresh
<1> SUFFICES ASSUME NEW a, a = call[r].row, NEW n, n = made.token + 1,
                    NEW k, k = [a EXCEPT !.token = n],
                    NEW v, v = [call[r] EXCEPT !.at = "save", !.row = k],
                    NEW held, held = [ext |-> a.ext, token |-> a.token]
             PROVE  Fit'
    OBVIOUS
<1>1. UNCHANGED <<account, page, agreed, pending>>
    BY DEF Refresh
<1>2. \/ Goes(r, "refused") /\ held \notin live /\ UNCHANGED <<live, made>>
      \/ Goes(r, "save") /\ UNCHANGED <<live, made>>
      \/ /\ live' = (live \ {held}) \cup {[ext |-> a.ext, token |-> n]}
         /\ made' = [made EXCEPT !.token = n]
         /\ call' = [call EXCEPT ![r] = v]
    <2>1. a = call[r].row
        OBVIOUS
    <2>2. CASE held \notin live
        BY <2>2 DEF Refresh
    <2>3. ASSUME held \in live
          PROVE  \/ Goes(r, "save") /\ UNCHANGED <<live, made>>
                 \/ /\ live' = (live \ {held}) \cup {[held EXCEPT !.token = made.token + 1]}
                    /\ made' = [made EXCEPT !.token = n]
                    /\ call' = [call EXCEPT ![r] = v]
        BY <2>3 DEF Refresh
    <2>4. [held EXCEPT !.token = made.token + 1] = [ext |-> a.ext, token |-> n]
        OBVIOUS
    <2> QED
        BY <2>2, <2>3, <2>4
<1>3. made.id \in Nat /\ made.token \in Nat
    BY <1>0 DEF Made
<1>4. CASE UNCHANGED <<live, made>> /\ (Goes(r, "save") \/ (Goes(r, "refused") /\ held \notin live))
    <2>1. Grows
        BY <1>0, <1>1, <1>4, GrowsQuiet
    <2>2. CallsFit'
        BY <1>0, <1>c, <1>4, <2>1, CallsFitGoes DEF WithRow
    <2> QED
        BY <1>0, <1>1, <2>1, <2>2, AccountsFitLess, PendingFitLess DEF Fit
<1>5. CASE /\ live' = (live \ {held}) \cup {[ext |-> a.ext, token |-> n]}
           /\ made' = [made EXCEPT !.token = n]
           /\ call' = [call EXCEPT ![r] = v]
    <2>1. made'.id = made.id /\ made'.token = n /\ n = made.token + 1
        BY <1>0, <1>5 DEF Made
    <2>2. Grows
        <3>1. \A t \in live' : t \in live \/ t.token > made.token
            BY <1>3, <1>5, <2>1
        <3> QED
            BY <1>1, <1>3, <2>1, <3>1 DEF Grows
    <2>3. Known(a) /\ a \in AccountRow
        BY <1>c DEF CallFits, WithRow, HoldsWhatItNeeds
    <2>4. k.id = a.id /\ k.token = n /\ k.ext = a.ext /\ k.user = a.user
        BY <2>3 DEF AccountRow
    <2>5. Known(k)'
        BY <1>1, <1>3, <2>1, <2>3, <2>4 DEF Known
    <2>6. v.at = "save" /\ v.todo = call[r].todo /\ v.row = k
        BY <1>c DEF Call
    <2>7. \A x \in v.todo : Known(x)'
        <3> SUFFICES ASSUME NEW x \in v.todo
                     PROVE  Known(x)'
            OBVIOUS
        <3>1. Known(x) /\ x \in AccountRow
            BY <1>c, <2>6 DEF CallFits, Call
        <3>2. x.token <= made'.token
            BY <1>3, <2>1, <3>1 DEF Known, AccountRow
        <3> QED
            BY <1>1, <2>1, <3>1, <3>2 DEF Known
    <2>8. CallFits(v)'
        BY <2>5, <2>6, <2>7 DEF CallFits
    <2>9. CallsFit'
        BY <1>0, <1>5, <2>2, <2>8, CallsFitStep
    <2> QED
        BY <1>0, <1>1, <2>2, <2>9, AccountsFitLess, PendingFitLess DEF Fit
<1> QED
    BY <1>2, <1>4, <1>5

LEMMA AgreedInit == Init => AgreedInv
<1> SUFFICES ASSUME Init
             PROVE  AgreedInv
    OBVIOUS
<1>1. TypeOK
    BY TypeInit
<1>2. CallFits(Idle)
    BY DEF CallFits, Idle, WithRow
<1>3. CallsFit
    BY <1>2 DEF Init, CallsFit
<1>4. AccountsFit /\ PendingFit
    BY DEF Init, AccountsFit, OneRow, PendingFit
<1> QED
    BY <1>1, <1>3, <1>4 DEF AgreedInv

LEMMA AgreedStep == AgreedInv /\ [Next]_vars => AgreedInv'
<1> SUFFICES ASSUME AgreedInv, [Next]_vars
             PROVE  AgreedInv'
    OBVIOUS
<1>1. TypeOK'
    BY TypeStep DEF AgreedInv
<1>2. CASE UNCHANGED vars
    <2>1. UNCHANGED <<account, page, agreed, pending, live, made, call>>
        BY <1>2 DEF vars
    <2>2. AccountsFit' /\ PendingFit'
        BY <2>1 DEF AgreedInv, AccountsFit, PendingFit, Known, AgreedOn, OneRow
    <2>3. CallsFit'
        BY <2>1 DEF AgreedInv, CallsFit, CallFits, Known, AgreedOn
    <2> QED
        BY <1>1, <2>2, <2>3 DEF AgreedInv
<1>3. CASE Next
    BY <1>1, <1>3, LoginFits, SignInFits, ConfirmFits, FindFits, CreateFits, RenewFits, DropFits,
       CountFits, RefreshFits
       DEF Next, Fit, AgreedInv
<1> QED
    BY <1>2, <1>3

\* Every account that is connected was agreed to, on the page that showed it
\* (complete, confirm).
THEOREM AlwaysAsAgreed == Spec => []ConnectedAsAgreed
<1>1. AgreedInv => ConnectedAsAgreed
    BY DEF AgreedInv, AccountsFit, AgreedOn, ConnectedAsAgreed
<1> QED
    BY AgreedInit, AgreedStep, <1>1, PTL DEF Spec

\* An account whose token is accepted goes only with its creator, or by a request
\* that was refused with an older token of it (accessToken, drop).
THEOREM GoodLostOnlyStale == Spec => GoodLostOnlyToStale
<1>1. AgreedInv /\ [Next]_vars =>
          [\A a \in account :
              Gone(a) /\ Good(a) =>
                \/ Disconnect(a)
                \/ \E r \in Req : /\ call[r].at = "refused" /\ call[r].row.id = a.id
                                  /\ call[r].row.token # a.token]_vars
    <2> SUFFICES ASSUME AgreedInv, Next, NEW a \in account, Gone(a), Good(a)
                 PROVE  \/ Disconnect(a)
                        \/ \E r \in Req : /\ call[r].at = "refused" /\ call[r].row.id = a.id
                                          /\ call[r].row.token # a.token
        OBVIOUS
    <2>0. TypeOK /\ AccountsFit /\ CallsFit
        BY DEF AgreedInv
    <2>1. a \notin account'
        BY DEF Gone
    <2>2. ASSUME UNCHANGED account
          PROVE  FALSE
        BY <2>1, <2>2
    <2>3. ASSUME NEW r \in Req, Create(r)
          PROVE  FALSE
        BY <2>1, <2>3 DEF Create
    <2>4. ASSUME NEW b \in account', b.id = a.id
          PROVE  FALSE
        BY <2>4 DEF Gone
    <2>5. a \in AccountRow
        BY <2>0 DEF TypeOK
    <2>6. ASSUME NEW r \in Req, Update(r)
          PROVE  FALSE
        <3> DEFINE x == [a EXCEPT !.token = call[r].login.token, !.fresh = TRUE,
                                  !.via = call[r].login.code]
        <3>1. x.id = a.id
            BY <2>5 DEF AccountRow
        <3>2. a \in account' \/ x \in account'
            BY <2>6 DEF Update, Renew
        <3> HIDE DEF x
        <3> QED
            BY <2>1, <2>4, <3>1, <3>2
    <2>7. ASSUME NEW r \in Req, Save(r)
          PROVE  FALSE
        <3> DEFINE x == [a EXCEPT !.token = call[r].row.token, !.fresh = TRUE]
        <3>1. x.id = a.id
            BY <2>5 DEF AccountRow
        <3>2. a \in account' \/ x \in account'
            BY <2>7 DEF Save
        <3> HIDE DEF x
        <3> QED
            BY <2>1, <2>4, <3>1, <3>2
    <2>8. ASSUME NEW b \in account, TokenExpires(b)
          PROVE  FALSE
        <3> DEFINE x == [b EXCEPT !.fresh = FALSE]
        <3>1. x.id = b.id
            BY <2>0 DEF TypeOK, AccountRow
        <3>2. account' = (account \ {b}) \cup {x}
            BY <2>8 DEF TokenExpires
        <3> HIDE DEF x
        <3> QED
            BY <2>1, <2>4, <3>1, <3>2
    <2>9. ASSUME NEW b \in account, Disconnect(b)
          PROVE  Disconnect(a)
        <3>1. a = b
            BY <2>1, <2>9 DEF Disconnect
        <3> QED
            BY <2>9, <3>1
    <2>10. ASSUME NEW r \in Req, Drop(r)
           PROVE  /\ call[r].at = "refused" /\ call[r].row.id = a.id
                  /\ call[r].row.token # a.token
        <3>1. call[r].at = "refused" /\ call[r].row.id = a.id
            BY <2>1, <2>10 DEF Drop
        <3>2. Known(call[r].row) /\ [ext |-> call[r].row.ext, token |-> call[r].row.token] \notin live
            BY <2>0, <3>1 DEF CallsFit, CallFits, WithRow
        <3>3. a.ext = call[r].row.ext
            BY <3>1, <3>2 DEF Known
        <3>4. [ext |-> a.ext, token |-> a.token] \in live
            BY DEF Good
        <3> QED
            BY <3>1, <3>2, <3>3, <3>4
    <2>11. ASSUME NEW u \in User, NEW p \in Platform, Start(u, p)
           PROVE  FALSE
        BY <2>2, <2>11 DEF Start
    <2>12. ASSUME NEW r \in Req,
                  \/ \E code \in 1 .. MaxCodes, e \in Ext : Callback(r, code, e)
                  \/ \E g \in page : Confirm(r, g)
                  \/ \E u \in User, p \in Platform : Count(r, u, p)
                  \/ Exchange(r) \/ ExchangeFails(r) \/ Find(r)
                  \/ NextAccount(r) \/ Refresh(r) \/ RefreshFails(r) \/ Ask(r) \/ AskFails(r)
           PROVE  FALSE
        <3>1. UNCHANGED account
            BY <2>12 DEF Callback, Confirm, Count, Exchange, Keep, ExchangeFails, Find,
                NextAccount, Refresh, RefreshFails, Ask, AskFails
        <3> QED
            BY <2>2, <3>1
    <2>13. ASSUME \/ \E g \in page : Decline(g)
                  \/ \E q \in pending : PendingExpires(q)
                  \/ \E e \in Ext : Revoke(e)
           PROVE  FALSE
        BY <2>2, <2>13 DEF Decline, PendingExpires, Revoke
    <2> QED
        BY <2>3, <2>6, <2>7, <2>8, <2>9, <2>10, <2>11, <2>12, <2>13 DEF Next
<1> QED
    BY AgreedInit, AgreedStep, <1>1, PTL DEF Spec, GoodLostOnlyToStale

-----------------------------------------------------------------------------
(* One owner, one use *)

\* A code is given out once and taken once.
TakenOnce ==
    /\ \A q, o \in pending : q.code = o.code => q = o
    /\ \A q \in pending : q.code <= made.code /\ passed[q.code] = 0
    /\ \A c \in 1 .. MaxCodes : passed[c] <= 1 /\ (c > made.code => passed[c] = 0)

LEMMA TakenStep ==
    ASSUME TypeOK, TypeOK', TakenOnce, [Next]_vars
    PROVE  TakenOnce'
<1>0. /\ made.code \in 0 .. MaxCodes /\ made'.code \in 0 .. MaxCodes
      /\ passed \in [1 .. MaxCodes -> Nat] /\ made \in Made
      /\ \A q \in pending : q.code \in 1 .. MaxCodes
    BY DEF TypeOK, Made, PendingRow, Asked, Awaiting, Login
\* A code is taken.
<1>1. ASSUME NEW code \in 1 .. MaxCodes,
             pending' \subseteq pending, \A q \in pending' : q.code # code,
             \E q \in pending : q.code = code,
             passed' \in {passed, [passed EXCEPT ![code] = @ + 1]}, UNCHANGED made
      PROVE  TakenOnce'
    <2>1. passed[code] = 0 /\ code <= made.code
        BY <1>1 DEF TakenOnce
    <2>2. \A c \in 1 .. MaxCodes : passed'[c] = passed[c] \/ (c = code /\ passed'[c] = 1)
        <3>1. CASE passed' = passed
            BY <3>1
        <3>2. CASE passed' = [passed EXCEPT ![code] = @ + 1]
            <4>1. passed'[code] = 1
                BY <1>0, <2>1, <3>2
            <4>2. \A c \in 1 .. MaxCodes : c # code => passed'[c] = passed[c]
                BY <1>0, <3>2
            <4> QED
                BY <4>1, <4>2
        <3> QED
            BY <1>1, <3>1, <3>2
    <2>3. ASSUME NEW c \in 1 .. MaxCodes
          PROVE  passed'[c] <= 1 /\ (c > made'.code => passed'[c] = 0)
        BY <1>0, <1>1, <2>1, <2>2 DEF TakenOnce
    <2>4. ASSUME NEW q \in pending'
          PROVE  q.code <= made'.code /\ passed'[q.code] = 0
        BY <1>0, <1>1, <2>2 DEF TakenOnce
    <2>5. \A q, o \in pending' : q.code = o.code => q = o
        BY <1>1 DEF TakenOnce
    <2> QED
        BY <2>3, <2>4, <2>5 DEF TakenOnce
\* A code is given out.
<1>2. ASSUME NEW o, o.code = made.code + 1, pending' \subseteq pending \cup {o},
             made'.code = made.code + 1, UNCHANGED passed
      PROVE  TakenOnce'
    <2>1. ASSUME NEW c \in 1 .. MaxCodes
          PROVE  passed'[c] <= 1 /\ (c > made'.code => passed'[c] = 0)
        <3>1. c > made'.code => c > made.code
            BY <1>0, <1>2
        <3> QED
            BY <1>2, <3>1 DEF TakenOnce
    <2>2. ASSUME NEW q \in pending'
          PROVE  q.code <= made'.code /\ passed'[q.code] = 0
        <3>1. CASE q = o
            <4>1. o.code \in 1 .. MaxCodes /\ o.code > made.code
                BY <1>0, <1>2
            <4> QED
                BY <1>0, <1>2, <3>1, <4>1 DEF TakenOnce
        <3>2. CASE q \in pending
            BY <1>0, <1>2, <3>2 DEF TakenOnce
        <3> QED
            BY <1>2, <3>1, <3>2
    <2>3. \A q \in pending : q.code # o.code
        BY <1>0, <1>2 DEF TakenOnce
    <2>4. \A q, x \in pending' : q.code = x.code => q = x
        BY <1>2, <2>3 DEF TakenOnce
    <2> QED
        BY <2>1, <2>2, <2>4 DEF TakenOnce
\* Logins stay, or go.
<1>3. ASSUME pending' \subseteq pending, made'.code = made.code, UNCHANGED passed
      PROVE  TakenOnce'
    BY <1>3 DEF TakenOnce
<1>4. ASSUME NEW u \in User, NEW p \in Platform, Start(u, p)
      PROVE  TakenOnce'
    <2> SUFFICES ASSUME NEW o, o = [code |-> made.code + 1, user |-> u, platform |-> p,
                                    late |-> FALSE, ext |-> None, token |-> 0]
                 PROVE  TakenOnce'
        OBVIOUS
    <2>1. pending' \subseteq pending \cup {o} /\ made' = [made EXCEPT !.code = @ + 1]
          /\ UNCHANGED passed
        BY <1>4 DEF Start
    <2>2. made'.code = made.code + 1 /\ o.code = made.code + 1
        BY <1>0, <2>1 DEF Made
    <2> QED
        BY <1>2, <2>1, <2>2
<1>5. ASSUME NEW r \in Req, Exchange(r)
      PROVE  TakenOnce'
    <2> SUFFICES ASSUME NEW o, o = [call[r].login EXCEPT !.code = made.code + 1,
                                                         !.token = made.token + 1]
                 PROVE  TakenOnce'
        OBVIOUS
    <2>1. pending' \subseteq pending \cup {o} /\ UNCHANGED passed
          /\ made' = [made EXCEPT !.code = @ + 1, !.token = @ + 1]
        BY <1>5 DEF Exchange, Keep
    <2>2. o.code = made.code + 1
        BY <1>5 DEF TypeOK, HoldsWhatItNeeds, Exchange, Signed, Login
    <2>3. made'.code = made.code + 1
        BY <1>0, <2>1 DEF Made
    <2> QED
        BY <1>2, <2>1, <2>2, <2>3
<1>6. ASSUME NEW r \in Req, NEW code \in 1 .. MaxCodes, NEW e \in Ext, Callback(r, code, e)
      PROVE  TakenOnce'
    <2>1. /\ pending' \subseteq pending /\ \A q \in pending' : q.code # code
          /\ \E q \in pending : q.code = code
          /\ UNCHANGED made
        BY <1>6 DEF Callback, Take
    <2>2. passed' \in {passed, [passed EXCEPT ![code] = @ + 1]}
        BY <1>6 DEF Callback
    <2> QED
        BY <1>1, <2>1, <2>2
<1>7. ASSUME NEW r \in Req, NEW g \in page, Confirm(r, g)
      PROVE  TakenOnce'
    <2>1. PICK q \in Awaited : q.code = g.code
        BY <1>7 DEF Confirm
    <2>2. g.code \in 1 .. MaxCodes
        BY <1>0, <2>1 DEF Awaited
    <2>3. UNCHANGED made /\ pending' = pending \ {o \in Awaited : o.code = g.code}
          /\ passed' \in {passed, [passed EXCEPT ![g.code] = @ + 1]}
        BY <1>7 DEF Confirm, Take
    <2>4. \A o \in pending' : o.code # g.code
        BY <2>1, <2>3 DEF TakenOnce, Awaited
    <2>5. q \in pending /\ pending' \subseteq pending
        BY <2>1, <2>3 DEF Awaited
    <2> QED
        BY <1>1, <2>1, <2>2, <2>3, <2>4, <2>5
<1>8. ASSUME NEW q \in pending, PendingExpires(q)
      PROVE  TakenOnce'
    <2> SUFFICES ASSUME NEW x, x = [q EXCEPT !.late = TRUE]
                 PROVE  TakenOnce'
        OBVIOUS
    <2>1. x.code = q.code
        BY DEF TypeOK, PendingRow, Asked, Awaiting, Login
    <2>2. pending' = (pending \ {q}) \cup {x} /\ UNCHANGED <<made, passed>>
        BY <1>8 DEF PendingExpires
    <2>3. \A o \in pending : o # q => o.code # x.code
        BY <2>1 DEF TakenOnce
    <2>4. \A o, y \in pending' : o.code = y.code => o = y
        BY <2>2, <2>3 DEF TakenOnce
    <2>5. \A o \in pending' : o.code <= made'.code /\ passed'[o.code] = 0
        BY <2>1, <2>2 DEF TakenOnce
    <2>6. \A c \in 1 .. MaxCodes : passed'[c] <= 1 /\ (c > made'.code => passed'[c] = 0)
        BY <2>2 DEF TakenOnce
    <2> QED
        BY <2>4, <2>5, <2>6 DEF TakenOnce
<1>9. ASSUME \/ \E g \in page : Decline(g)
             \/ \E a \in account : Disconnect(a) \/ TokenExpires(a)
             \/ \E e \in Ext : Revoke(e)
             \/ UNCHANGED vars
      PROVE  TakenOnce'
    <2>1. pending' \subseteq pending /\ UNCHANGED <<made, passed>>
        BY <1>9 DEF Decline, Take, Disconnect, TokenExpires, Revoke, vars
    <2> QED
        BY <1>3, <2>1
<1>10. ASSUME NEW r \in Req,
              \/ \E u \in User, p \in Platform : Count(r, u, p)
              \/ ExchangeFails(r)
              \/ Find(r) \/ Create(r) \/ Update(r)
              \/ NextAccount(r) \/ Refresh(r) \/ RefreshFails(r)
              \/ Save(r) \/ Drop(r) \/ Ask(r) \/ AskFails(r)
       PROVE  TakenOnce'
    <2>1. pending' = pending /\ UNCHANGED passed
        BY <1>10 DEF Count, ExchangeFails, Find, Create, Update, NextAccount, Refresh,
            RefreshFails, Save, Drop, Ask, AskFails
    <2>2. \/ UNCHANGED made
          \/ made' = [made EXCEPT !.count = @ + 1]
          \/ made' = [made EXCEPT !.id = @ + 1]
          \/ made' = [made EXCEPT !.token = @ + 1]
        BY <1>10 DEF Count, ExchangeFails, Find, Create, Update, NextAccount, Refresh,
            RefreshFails, Save, Drop, Ask, AskFails
    <2>3. made'.code = made.code
        BY <1>0, <2>2 DEF Made
    <2> QED
        BY <1>3, <2>1, <2>3
<1>11. CASE Next
    BY <1>4, <1>5, <1>6, <1>7, <1>8, <1>9, <1>10, <1>11 DEF Next
<1> QED
    BY <1>9, <1>11

\* An account serves one creator at a time, and a code lets one request through
\* (the unique index, takeConfirmation).
THEOREM AlwaysOneOwner == Spec => []OneOwner
<1> DEFINE Inv == AgreedInv /\ TakenOnce
<1>1. Init => Inv
    <2>1. Init => TakenOnce
        BY DEF Init, TakenOnce
    <2> QED
        BY <2>1, AgreedInit
<1>2. Inv /\ [Next]_vars => Inv'
    BY AgreedStep, TakenStep DEF AgreedInv
<1>3. Inv => OneOwner
    <2> SUFFICES ASSUME Inv
                 PROVE  OneOwner
        OBVIOUS
    <2>1. DOMAIN passed = 1 .. MaxCodes
        BY DEF AgreedInv, TypeOK
    <2> QED
        BY <2>1 DEF AgreedInv, AccountsFit, OneRow, TakenOnce, OneOwner
<1> HIDE DEF Inv
<1> QED
    BY <1>1, <1>2, <1>3, PTL DEF Spec

-----------------------------------------------------------------------------
(* How many logins a creator has open at a platform *)

Logs(q, u, p) == q.user = u /\ q.platform = p
Has(r, u, p) == call[r].at \in WithLogin /\ Logs(call[r].login, u, p)

\* An account a login brought is of the platform of the login.
RightPlatform ==
    /\ \A q \in pending : q.ext # None => PlatformOf[q.ext] = q.platform
    /\ \A r \in Req : call[r].at \in WithLogin => PlatformOf[call[r].login.ext] = call[r].login.platform

\* One who never began a login beside another has one at most.
OneLogin(u, p) ==
    /\ \A q, o \in pending : Logs(q, u, p) /\ Logs(o, u, p) => q = o
    /\ \A r, s \in Req : Has(r, u, p) /\ Has(s, u, p) => r = s
    /\ \A q \in pending, r \in Req : ~(Logs(q, u, p) /\ Has(r, u, p))

\* While it is open there is room for what it brings.
RoomKept(u, p) ==
    /\ Cardinality(Mine(u, p)) <= MAX_PER_PLATFORM
    /\ Open(u, p) => Cardinality(Mine(u, p)) < MAX_PER_PLATFORM

BesideInv ==
    /\ TypeOK
    /\ IsFiniteSet(account)
    /\ RightPlatform
    /\ \A u \in User, p \in Platform :
          <<u, p>> \notin beside => OneLogin(u, p) /\ RoomKept(u, p)

LEMMA OpenIs ==
    ASSUME NEW u, NEW p
    PROVE  Open(u, p) <=> (\E q \in pending : Logs(q, u, p)) \/ (\E r \in Req : Has(r, u, p))
BY DEF Open, Logs, Has

\* As many as are the images of some are no more than these.
LEMMA ImageSmaller ==
    ASSUME NEW S, IsFiniteSet(S), NEW T, NEW f, \A b \in T : \E a \in S : b = f[a]
    PROVE  IsFiniteSet(T) /\ Cardinality(T) <= Cardinality(S)
<1> DEFINE g == [b \in T |-> CHOOSE a \in S : b = f[a]]
<1>1. \A b \in T : g[b] \in S /\ b = f[g[b]]
    OBVIOUS
<1>2. g \in [T -> S]
    BY <1>1
<1> HIDE DEF g
<1>3. g \in Injection(T, S)
    BY <1>1, <1>2 DEF Injection, IsInjective
<1> QED
    BY <1>3, FS_Injection

\* Accounts go or are renewed.
AccountsRenewed ==
    \E f : \A b \in account' : \E a \in account : b = f[a] /\ b.user = a.user /\ b.ext = a.ext

LEMMA MineLess ==
    ASSUME IsFiniteSet(account), AccountsRenewed
    PROVE  /\ IsFiniteSet(account')
           /\ \A u \in User, p \in Platform :
                 /\ Cardinality(Mine(u, p)) \in Nat /\ Cardinality(Mine(u, p)') \in Nat
                 /\ Cardinality(Mine(u, p)') <= Cardinality(Mine(u, p))
<1>1. PICK f : \A b \in account' : \E a \in account : b = f[a] /\ b.user = a.user /\ b.ext = a.ext
    BY DEF AccountsRenewed
<1>2. IsFiniteSet(account')
    <2>1. \A b \in account' : \E a \in account : b = f[a]
        BY <1>1
    <2> QED
        BY <2>1, ImageSmaller
<1>3. ASSUME NEW u \in User, NEW p \in Platform
      PROVE  /\ Cardinality(Mine(u, p)) \in Nat /\ Cardinality(Mine(u, p)') \in Nat
             /\ Cardinality(Mine(u, p)') <= Cardinality(Mine(u, p))
    <2>1. Mine(u, p) \in SUBSET account
        BY DEF Mine
    <2>2. IsFiniteSet(Mine(u, p))
        BY <2>1, FS_Subset
    <2>3. \A b \in Mine(u, p)' : \E a \in Mine(u, p) : b = f[a]
        BY <1>1 DEF Mine
    <2>4. IsFiniteSet(Mine(u, p)') /\ Cardinality(Mine(u, p)') <= Cardinality(Mine(u, p))
        BY <2>2, <2>3, ImageSmaller
    <2> QED
        BY <2>2, <2>4, FS_CardinalityType
<1> QED
    BY <1>2, <1>3

LEMMA RenewedStep ==
    ASSUME TypeOK, [Next]_vars, ~\E r \in Req : Create(r)
    PROVE  AccountsRenewed
<1>0. account \subseteq AccountRow
    BY DEF TypeOK
<1>1. ASSUME account' \subseteq account
      PROVE  AccountsRenewed
    <2> DEFINE f == [a \in account |-> a]
    <2>1. \A b \in account' : \E a \in account : b = f[a] /\ b.user = a.user /\ b.ext = a.ext
        BY <1>1
    <2> HIDE DEF f
    <2> QED
        BY <2>1 DEF AccountsRenewed
<1>2. ASSUME NEW r \in Req, Update(r)
      PROVE  AccountsRenewed
    <2> DEFINE k == call[r].row
               l == call[r].login
               f == [a \in account |->
                        IF a.id = k.id
                        THEN [a EXCEPT !.token = l.token, !.fresh = TRUE, !.via = l.code] ELSE a]
    <2>1. \A b \in account' : \E a \in account : b = f[a]
        BY <1>2 DEF Update, Renew
    <2>2. \A a \in account : f[a].user = a.user /\ f[a].ext = a.ext
        <3> HIDE DEF k, l
        <3> QED
            BY <1>0 DEF AccountRow
    <2> HIDE DEF f
    <2> QED
        BY <2>1, <2>2 DEF AccountsRenewed
<1>3. ASSUME NEW r \in Req, Save(r)
      PROVE  AccountsRenewed
    <2> DEFINE k == call[r].row
               f == [a \in account |->
                        IF a.id = k.id
                        THEN [a EXCEPT !.token = k.token, !.fresh = TRUE] ELSE a]
    <2>1. \A b \in account' : \E a \in account : b = f[a]
        BY <1>3 DEF Save
    <2>2. \A a \in account : f[a].user = a.user /\ f[a].ext = a.ext
        <3> HIDE DEF k
        <3> QED
            BY <1>0 DEF AccountRow
    <2> HIDE DEF f
    <2> QED
        BY <2>1, <2>2 DEF AccountsRenewed
<1>4. ASSUME NEW x \in account, TokenExpires(x)
      PROVE  AccountsRenewed
    <2> DEFINE f == [a \in account |-> IF a = x THEN [a EXCEPT !.fresh = FALSE] ELSE a]
    <2>1. \A b \in account' : \E a \in account : b = f[a]
        BY <1>4 DEF TokenExpires
    <2>2. \A a \in account : f[a].user = a.user /\ f[a].ext = a.ext
        BY <1>0 DEF AccountRow
    <2> HIDE DEF f
    <2> QED
        BY <2>1, <2>2 DEF AccountsRenewed
<1>5. ASSUME NEW r \in Req,
             \/ \E code \in 1 .. MaxCodes, e \in Ext : Callback(r, code, e)
             \/ \E g \in page : Confirm(r, g)
             \/ \E u \in User, p \in Platform : Count(r, u, p)
             \/ Exchange(r) \/ ExchangeFails(r) \/ Find(r) \/ Drop(r)
             \/ NextAccount(r) \/ Refresh(r) \/ RefreshFails(r) \/ Ask(r) \/ AskFails(r)
      PROVE  AccountsRenewed
    <2>1. account' \subseteq account
        BY <1>5 DEF Callback, Confirm, Count, Exchange, Keep, ExchangeFails, Find, Drop,
            NextAccount, Refresh, RefreshFails, Ask, AskFails
    <2> QED
        BY <1>1, <2>1
<1>6. ASSUME \/ \E u \in User, p \in Platform : Start(u, p)
             \/ \E g \in page : Decline(g)
             \/ \E a \in account : Disconnect(a)
             \/ \E q \in pending : PendingExpires(q)
             \/ \E e \in Ext : Revoke(e)
             \/ UNCHANGED vars
      PROVE  AccountsRenewed
    <2>1. account' \subseteq account
        BY <1>6 DEF Start, Decline, Disconnect, PendingExpires, Revoke, vars
    <2> QED
        BY <1>1, <2>1
<1>7. CASE Next
    BY <1>2, <1>3, <1>4, <1>5, <1>6, <1>7 DEF Next
<1> QED
    BY <1>6, <1>7

\* Logins that end, and those that go on with the same request.
LEMMA LoginsLess ==
    ASSUME NEW u, NEW p, OneLogin(u, p), pending' \subseteq pending,
           \A r \in Req : Has(r, u, p)' => Has(r, u, p)
    PROVE  OneLogin(u, p)' /\ (Open(u, p)' => Open(u, p))
<1>1. /\ \A q, o \in pending' : Logs(q, u, p) /\ Logs(o, u, p) => q = o
      /\ \A r, s \in Req : Has(r, u, p)' /\ Has(s, u, p)' => r = s
      /\ \A q \in pending', r \in Req : ~(Logs(q, u, p) /\ Has(r, u, p)')
    BY DEF OneLogin
<1>2. OneLogin(u, p)'
    BY <1>1 DEF OneLogin, Logs
<1>3. Open(u, p)' => (\E q \in pending' : Logs(q, u, p)) \/ (\E r \in Req : Has(r, u, p)')
    BY DEF Open, Logs, Has
<1> QED
    BY <1>2, <1>3, OpenIs

\* A login goes from its row to a request.
LEMMA LoginTaken ==
    ASSUME NEW u, NEW p, OneLogin(u, p), NEW q \in pending, pending' \subseteq pending \ {q},
           NEW r \in Req, Has(r, u, p)' => Logs(q, u, p),
           \A s \in Req \ {r} : Has(s, u, p)' => Has(s, u, p)
    PROVE  OneLogin(u, p)' /\ (Open(u, p)' => Open(u, p))
<1>1. /\ \A x, o \in pending' : Logs(x, u, p) /\ Logs(o, u, p) => x = o
      /\ \A t, s \in Req : Has(t, u, p)' /\ Has(s, u, p)' => t = s
      /\ \A x \in pending', s \in Req : ~(Logs(x, u, p) /\ Has(s, u, p)')
    BY DEF OneLogin
<1>2. OneLogin(u, p)'
    BY <1>1 DEF OneLogin, Logs
<1>3. Open(u, p)' => (\E x \in pending' : Logs(x, u, p)) \/ (\E s \in Req : Has(s, u, p)')
    BY DEF Open, Logs, Has
<1> QED
    BY <1>2, <1>3, OpenIs

\* A login goes from its request to a row.
LEMMA LoginGiven ==
    ASSUME NEW u, NEW p, OneLogin(u, p), NEW q, pending' = pending \cup {q},
           NEW r \in Req, Logs(q, u, p) => Has(r, u, p), ~Has(r, u, p)',
           \A s \in Req \ {r} : Has(s, u, p)' => Has(s, u, p)
    PROVE  OneLogin(u, p)' /\ (Open(u, p)' => Open(u, p))
<1>1. /\ \A x, o \in pending' : Logs(x, u, p) /\ Logs(o, u, p) => x = o
      /\ \A t, s \in Req : Has(t, u, p)' /\ Has(s, u, p)' => t = s
      /\ \A x \in pending', s \in Req : ~(Logs(x, u, p) /\ Has(s, u, p)')
    BY DEF OneLogin
<1>2. OneLogin(u, p)'
    BY <1>1 DEF OneLogin, Logs
<1>3. Open(u, p)' => (\E x \in pending' : Logs(x, u, p)) \/ (\E s \in Req : Has(s, u, p)')
    BY DEF Open, Logs, Has
<1> QED
    BY <1>2, <1>3, OpenIs

\* Only the request that moves may hold another login than before.
LEMMA HasOthers ==
    ASSUME CallsOK, NEW r \in Req, NEW v, call' = [call EXCEPT ![r] = v], NEW u, NEW p
    PROVE  /\ \A s \in Req \ {r} : Has(s, u, p)' => Has(s, u, p)
           /\ Has(r, u, p)' <=> v.at \in WithLogin /\ Logs(v.login, u, p)
<1>1. \A s \in Req : call'[s] = IF s = r THEN v ELSE call[s]
    BY DEF CallsOK
<1> QED
    BY <1>1 DEF Has, Logs

\* No step but Start opens a login.
LoginsKept ==
    /\ RightPlatform'
    /\ \A u \in User, p \in Platform : OneLogin(u, p) =>
          OneLogin(u, p)' /\ (Open(u, p)' => Open(u, p))

\* A request goes on with the login it had, or without one.
LEMMA KeepsLogin ==
    ASSUME CallsOK, RightPlatform, NEW r \in Req, NEW v, call' = [call EXCEPT ![r] = v],
           v.at \in WithLogin => call[r].at \in WithLogin /\ v.login = call[r].login,
           pending' \subseteq pending
    PROVE  LoginsKept
<1>1. \A s \in Req : call'[s] = IF s = r THEN v ELSE call[s]
    BY DEF CallsOK
<1>2. RightPlatform'
    BY <1>1 DEF RightPlatform
<1>3. ASSUME NEW u \in User, NEW p \in Platform, OneLogin(u, p)
      PROVE  OneLogin(u, p)' /\ (Open(u, p)' => Open(u, p))
    <2>1. \A s \in Req : Has(s, u, p)' => Has(s, u, p)
        BY <1>1 DEF Has, Logs
    <2> QED
        BY <1>3, <2>1, LoginsLess
<1> QED
    BY <1>2, <1>3 DEF LoginsKept

LEMMA KeepsCalls ==
    ASSUME RightPlatform, UNCHANGED call, pending' \subseteq pending
    PROVE  LoginsKept
<1>1. RightPlatform'
    BY DEF RightPlatform
<1>2. ASSUME NEW u \in User, NEW p \in Platform, OneLogin(u, p)
      PROVE  OneLogin(u, p)' /\ (Open(u, p)' => Open(u, p))
    <2>1. \A s \in Req : Has(s, u, p)' => Has(s, u, p)
        BY DEF Has, Logs
    <2> QED
        BY <1>2, <2>1, LoginsLess
<1> QED
    BY <1>1, <1>2 DEF LoginsKept

LEMMA CallbackKeeps ==
    ASSUME TypeOK, RightPlatform, NEW r \in Req, NEW code \in 1 .. MaxCodes, NEW e \in Ext,
           Callback(r, code, e)
    PROVE  LoginsKept
<1>0. CallsOK /\ pending \subseteq PendingRow
    BY DEF TypeOK, CallsOK
<1>1. PICK q \in pending :
         /\ q.code = code
         /\ \/ /\ q.platform = PlatformOf[e]
               /\ call' = [call EXCEPT ![r] =
                     [@ EXCEPT !.at = "exchange", !.login = [q EXCEPT !.ext = e]]]
            \/ UNCHANGED call
    BY DEF Callback
<1>2. pending' \subseteq pending \ {q}
    BY <1>1 DEF Callback, Take
<1>3. CASE UNCHANGED call
    BY <1>2, <1>3, KeepsCalls
<1>4. CASE /\ q.platform = PlatformOf[e]
           /\ call' = [call EXCEPT ![r] =
                 [@ EXCEPT !.at = "exchange", !.login = [q EXCEPT !.ext = e]]]
    <2> SUFFICES ASSUME NEW l, l = [q EXCEPT !.ext = e],
                        NEW v, v = [call[r] EXCEPT !.at = "exchange", !.login = l]
                 PROVE  LoginsKept
        OBVIOUS
    <2>1. l.user = q.user /\ l.platform = q.platform /\ l.ext = e
        BY <1>0 DEF PendingRow, Asked, Awaiting, Login
    <2>2. v.at = "exchange" /\ v.login = l
        BY <1>0 DEF CallsOK, Call
    <2>3. call' = [call EXCEPT ![r] = v]
        BY <1>4
    <2>4. \A s \in Req : call'[s] = IF s = r THEN v ELSE call[s]
        BY <1>0, <2>3 DEF CallsOK
    <2>5. RightPlatform'
        <3>1. \A x \in pending' : x.ext # None => PlatformOf[x.ext] = x.platform
            BY <1>2 DEF RightPlatform
        <3>2. \A s \in Req : call'[s].at \in WithLogin =>
                  PlatformOf[call'[s].login.ext] = call'[s].login.platform
            BY <1>4, <2>1, <2>2, <2>4 DEF RightPlatform
        <3> QED
            BY <3>1, <3>2 DEF RightPlatform
    <2>6. ASSUME NEW u \in User, NEW p \in Platform, OneLogin(u, p)
          PROVE  OneLogin(u, p)' /\ (Open(u, p)' => Open(u, p))
        <3>0. Has(r, u, p)' => Logs(v.login, u, p)
            BY <1>0, <2>3, HasOthers
        <3>1. Has(r, u, p)' => Logs(q, u, p)
            BY <2>1, <2>2, <3>0 DEF Logs
        <3>2. \A s \in Req \ {r} : Has(s, u, p)' => Has(s, u, p)
            BY <1>0, <2>3, HasOthers
        <3> QED
            BY <1>2, <2>6, <3>1, <3>2, LoginTaken
    <2> QED
        BY <2>5, <2>6 DEF LoginsKept
<1> QED
    BY <1>1, <1>3, <1>4

LEMMA ConfirmKeeps ==
    ASSUME TypeOK, RightPlatform, NEW r \in Req, NEW g \in page, Confirm(r, g)
    PROVE  LoginsKept
<1>0. CallsOK /\ pending \subseteq PendingRow
    BY DEF TypeOK, CallsOK
<1>1. PICK q \in Awaited :
         /\ q.code = g.code
         /\ \/ call' = [call EXCEPT ![r] = [@ EXCEPT !.at = "find", !.login = q]]
            \/ UNCHANGED call
    BY DEF Confirm
<1>2. pending' \subseteq pending \ {q} /\ q \in pending /\ q.ext # None
    BY <1>1 DEF Confirm, Take, Awaited
<1>3. CASE UNCHANGED call
    BY <1>2, <1>3, KeepsCalls
<1>4. CASE call' = [call EXCEPT ![r] = [@ EXCEPT !.at = "find", !.login = q]]
    <2> SUFFICES ASSUME NEW v, v = [call[r] EXCEPT !.at = "find", !.login = q]
                 PROVE  LoginsKept
        OBVIOUS
    <2>1. v.at = "find" /\ v.login = q
        BY <1>0 DEF CallsOK, Call
    <2>2. call' = [call EXCEPT ![r] = v]
        BY <1>4
    <2>3. \A s \in Req : call'[s] = IF s = r THEN v ELSE call[s]
        BY <1>0, <2>2 DEF CallsOK
    <2>4. RightPlatform'
        <3>1. \A x \in pending' : x.ext # None => PlatformOf[x.ext] = x.platform
            BY <1>2 DEF RightPlatform
        <3>2. \A s \in Req : call'[s].at \in WithLogin =>
                  PlatformOf[call'[s].login.ext] = call'[s].login.platform
            BY <1>2, <2>1, <2>3 DEF RightPlatform
        <3> QED
            BY <3>1, <3>2 DEF RightPlatform
    <2>5. ASSUME NEW u \in User, NEW p \in Platform, OneLogin(u, p)
          PROVE  OneLogin(u, p)' /\ (Open(u, p)' => Open(u, p))
        <3>1. Has(r, u, p)' => Logs(q, u, p)
            BY <1>0, <2>1, <2>2, HasOthers
        <3>2. \A s \in Req \ {r} : Has(s, u, p)' => Has(s, u, p)
            BY <1>0, <2>2, HasOthers
        <3> QED
            BY <1>2, <2>5, <3>1, <3>2, LoginTaken
    <2> QED
        BY <2>4, <2>5 DEF LoginsKept
<1> QED
    BY <1>1, <1>3, <1>4

LEMMA ExchangeKeeps ==
    ASSUME TypeOK, RightPlatform, NEW r \in Req, Exchange(r)
    PROVE  LoginsKept
<1>0. CallsOK /\ pending \subseteq PendingRow
    BY DEF TypeOK, CallsOK
<1> SUFFICES ASSUME NEW l, l = call[r].login,
                    NEW q, q = [l EXCEPT !.code = made.code + 1, !.token = made.token + 1]
             PROVE  LoginsKept
    OBVIOUS
<1>1. pending' = pending \cup {q} /\ Over(r) /\ call[r].at = "exchange"
    BY DEF Exchange, Keep
<1>2. l \in Signed
    BY <1>0, <1>1 DEF CallsOK, HoldsWhatItNeeds
<1>3. q.user = l.user /\ q.platform = l.platform /\ q.ext = l.ext
    BY <1>2 DEF Signed, Login
<1>4. \A s \in Req : call'[s] = IF s = r THEN Idle ELSE call[s]
    BY <1>0, <1>1 DEF Over, CallsOK
<1>5. Idle.at \notin WithLogin
    BY IdleCall DEF WithLogin
<1>6. PlatformOf[q.ext] = q.platform
    BY <1>1, <1>3 DEF RightPlatform, WithLogin
<1>7. RightPlatform'
    BY <1>1, <1>4, <1>5, <1>6 DEF RightPlatform
<1>8. ASSUME NEW u \in User, NEW p \in Platform, OneLogin(u, p)
      PROVE  OneLogin(u, p)' /\ (Open(u, p)' => Open(u, p))
    <2>1. Logs(q, u, p) => Has(r, u, p)
        BY <1>1, <1>3 DEF Has, Logs, WithLogin
    <2>2. ~Has(r, u, p)' /\ \A s \in Req \ {r} : Has(s, u, p)' => Has(s, u, p)
        BY <1>4, <1>5 DEF Has, Logs
    <2> QED
        BY <1>1, <1>8, <2>1, <2>2, LoginGiven
<1> QED
    BY <1>7, <1>8 DEF LoginsKept

LEMMA PendingExpiresKeeps ==
    ASSUME TypeOK, RightPlatform, NEW q \in pending, PendingExpires(q)
    PROVE  LoginsKept
<1> SUFFICES ASSUME NEW x, x = [q EXCEPT !.late = TRUE]
             PROVE  LoginsKept
    OBVIOUS
<1>1. x.user = q.user /\ x.platform = q.platform /\ x.ext = q.ext
    BY DEF TypeOK, PendingRow, Asked, Awaiting, Login
<1>2. pending' = (pending \ {q}) \cup {x} /\ UNCHANGED call
    BY DEF PendingExpires
<1>3. RightPlatform'
    BY <1>1, <1>2 DEF RightPlatform
<1>4. ASSUME NEW u \in User, NEW p \in Platform, OneLogin(u, p)
      PROVE  OneLogin(u, p)' /\ (Open(u, p)' => Open(u, p))
    <2>1. Logs(x, u, p) <=> Logs(q, u, p)
        BY <1>1 DEF Logs
    <2>2. \A s \in Req : Has(s, u, p)' <=> Has(s, u, p)
        BY <1>2 DEF Has, Logs
    <2>3. /\ \A y, o \in pending' : Logs(y, u, p) /\ Logs(o, u, p) => y = o
          /\ \A t, s \in Req : Has(t, u, p)' /\ Has(s, u, p)' => t = s
          /\ \A y \in pending', s \in Req : ~(Logs(y, u, p) /\ Has(s, u, p)')
        BY <1>2, <1>4, <2>1, <2>2 DEF OneLogin
    <2>4. OneLogin(u, p)'
        BY <2>3 DEF OneLogin, Logs
    <2>5. Open(u, p)' => (\E y \in pending' : Logs(y, u, p)) \/ (\E s \in Req : Has(s, u, p)')
        BY DEF Open, Logs, Has
    <2> QED
        BY <1>2, <2>1, <2>2, <2>4, <2>5, OpenIs
<1> QED
    BY <1>3, <1>4 DEF LoginsKept

LEMMA StepKeepsLogins ==
    ASSUME TypeOK, RightPlatform, [Next]_vars, ~\E u \in User, p \in Platform : Start(u, p)
    PROVE  LoginsKept /\ UNCHANGED beside
<1>0. CallsOK
    BY DEF TypeOK, CallsOK
<1>1. ASSUME NEW r \in Req, Over(r), pending' \subseteq pending
      PROVE  LoginsKept
    <2>1. Idle.at \notin WithLogin
        BY IdleCall DEF WithLogin
    <2> QED
        BY <1>0, <1>1, <2>1, KeepsLogin DEF Over
<1>2. ASSUME NEW r \in Req, NEW at, Goes(r, at), pending' \subseteq pending,
             at \in WithLogin => call[r].at \in WithLogin
      PROVE  LoginsKept
    <2> SUFFICES ASSUME NEW v, v = [call[r] EXCEPT !.at = at]
                 PROVE  LoginsKept
        OBVIOUS
    <2>1. v.at = at /\ v.login = call[r].login
        BY <1>0 DEF CallsOK, Call
    <2> QED
        BY <1>0, <1>2, <2>1, KeepsLogin DEF Goes
<1>3. ASSUME NEW r \in Req, NEW v, call' = [call EXCEPT ![r] = v], pending' \subseteq pending,
             v.at \in {"next", "ask", "refresh", "save"}
      PROVE  LoginsKept
    <2>1. v.at \notin WithLogin
        BY <1>3 DEF WithLogin
    <2> QED
        BY <1>0, <1>3, <2>1, KeepsLogin
<1>4. ASSUME NEW r \in Req, ExchangeFails(r) \/ Create(r) \/ Update(r)
      PROVE  LoginsKept
    BY <1>1, <1>4 DEF ExchangeFails, Create, Update
<1>5. ASSUME NEW r \in Req, Find(r)
      PROVE  LoginsKept
    <2>1. CASE Goes(r, "create")
        BY <1>2, <1>5, <2>1 DEF Find, WithLogin
    <2>2. CASE Over(r)
        BY <1>1, <1>5, <2>2 DEF Find
    <2>3. ASSUME NEW a, call' = [call EXCEPT ![r] = [@ EXCEPT !.at = "update", !.row = a]]
          PROVE  LoginsKept
        <3> SUFFICES ASSUME NEW v, v = [call[r] EXCEPT !.at = "update", !.row = a]
                     PROVE  LoginsKept
            OBVIOUS
        <3>1. v.at = "update" /\ v.login = call[r].login
            BY <1>0 DEF CallsOK, Call
        <3>2. call[r].at \in WithLogin /\ pending' \subseteq pending
            BY <1>5 DEF Find, WithLogin
        <3>3. call' = [call EXCEPT ![r] = v]
            BY <2>3
        <3> QED
            BY <1>0, <3>1, <3>2, <3>3, KeepsLogin
    <2> QED
        BY <1>5, <2>1, <2>2, <2>3 DEF Find
<1>6. ASSUME NEW r \in Req, RefreshFails(r) \/ Drop(r) \/ AskFails(r)
      PROVE  LoginsKept
    <2>1. Goes(r, "next") /\ pending' \subseteq pending
        BY <1>6 DEF RefreshFails, Drop, AskFails, OnFailure
    <2> QED
        BY <1>2, <2>1 DEF WithLogin
<1>7. ASSUME NEW r \in Req, Save(r)
      PROVE  LoginsKept
    <2>1. PICK at \in {"next", "ask"} : Goes(r, at)
        BY <1>7 DEF Save
    <2>2. pending' \subseteq pending
        BY <1>7 DEF Save
    <2> QED
        BY <1>2, <2>1, <2>2 DEF WithLogin
<1>8. ASSUME NEW r \in Req, Refresh(r)
      PROVE  LoginsKept
    <2>1. pending' \subseteq pending
        BY <1>8 DEF Refresh
    <2>2. CASE Goes(r, "refused") \/ Goes(r, "save")
        BY <1>2, <2>1, <2>2 DEF WithLogin
    <2>3. ASSUME NEW k, call' = [call EXCEPT ![r] = [@ EXCEPT !.at = "save", !.row = k]]
          PROVE  LoginsKept
        <3> SUFFICES ASSUME NEW v, v = [call[r] EXCEPT !.at = "save", !.row = k]
                     PROVE  LoginsKept
            OBVIOUS
        <3>1. v.at = "save"
            BY <1>0 DEF CallsOK, Call
        <3> QED
            BY <1>3, <2>1, <2>3, <3>1
    <2>4. \/ Goes(r, "refused") \/ Goes(r, "save")
          \/ call' = [call EXCEPT ![r] = [@ EXCEPT !.at = "save",
                                            !.row = [call[r].row EXCEPT !.token = made.token + 1]]]
        BY <1>8 DEF Refresh
    <2> QED
        BY <2>2, <2>3, <2>4
<1>9. ASSUME NEW r \in Req,
             \/ \E u \in User, p \in Platform : Count(r, u, p)
             \/ Ask(r)
      PROVE  LoginsKept
    <2>1. pending' \subseteq pending
        BY <1>9 DEF Count, Ask
    <2>2. ASSUME NEW u \in User, NEW p \in Platform, Count(r, u, p)
          PROVE  LoginsKept
        <3> SUFFICES ASSUME NEW v, call' = [call EXCEPT ![r] = v],
                            NEW vs, v = [call[r] EXCEPT !.at = "next", !.user = u, !.platform = p,
                                                        !.todo = Mine(u, p), !.left = vs]
                     PROVE  LoginsKept
            BY <2>2 DEF Count
        <3>1. v.at = "next"
            BY <1>0 DEF CallsOK, Call
        <3> QED
            BY <1>3, <2>1, <3>1
    <2>3. ASSUME Ask(r)
          PROVE  LoginsKept
        <3> SUFFICES ASSUME NEW v, call' = [call EXCEPT ![r] = v],
                            NEW vs, v = [call[r] EXCEPT !.at = "next", !.left = vs]
                     PROVE  LoginsKept
            BY <2>3 DEF Ask
        <3>1. v.at = "next"
            BY <1>0 DEF CallsOK, Call
        <3> QED
            BY <1>3, <2>1, <3>1
    <2> QED
        BY <1>9, <2>2, <2>3
<1>10. ASSUME NEW r \in Req, NextAccount(r)
       PROVE  LoginsKept
    <2>1. pending' \subseteq pending
        BY <1>10 DEF NextAccount
    <2>2. CASE Over(r)
        BY <1>1, <2>1, <2>2
    <2>3. ASSUME ~(call[r].todo = {} \/ call[r].left = {})
          PROVE  LoginsKept
        <3> SUFFICES ASSUME NEW a,
                            a = CHOOSE x \in call[r].todo : \A y \in call[r].todo : x.id <= y.id,
                            NEW at \in {"next", "ask", "refresh"},
                            NEW v, v = [call[r] EXCEPT !.todo = call[r].todo \ {a}, !.row = a,
                                                       !.at = at],
                            call' = [call EXCEPT ![r] = v]
                     PROVE  LoginsKept
            BY <1>10, <2>3 DEF NextAccount
        <3>1. v.at = at
            BY <1>0 DEF CallsOK, Call
        <3> QED
            BY <1>3, <2>1, <3>1
    <2>4. call[r].todo = {} \/ call[r].left = {} => Over(r)
        BY <1>10 DEF NextAccount
    <2> QED
        BY <2>2, <2>3, <2>4
<1>11. ASSUME \/ \E g \in page : Decline(g)
              \/ \E a \in account : Disconnect(a) \/ TokenExpires(a)
              \/ \E e \in Ext : Revoke(e)
              \/ UNCHANGED vars
       PROVE  LoginsKept
    <2>1. UNCHANGED call /\ pending' \subseteq pending
        BY <1>11 DEF Decline, Take, Disconnect, TokenExpires, Revoke, vars
    <2> QED
        BY <2>1, KeepsCalls
<1>12. LoginsKept
    BY <1>4, <1>5, <1>6, <1>7, <1>8, <1>9, <1>10, <1>11, CallbackKeeps, ConfirmKeeps,
       ExchangeKeeps, PendingExpiresKeeps
       DEF Next
<1>13. UNCHANGED beside
    BY DEF Next, Decline, Disconnect, TokenExpires, PendingExpires, Revoke, Callback, Confirm,
       Count, Exchange, ExchangeFails, Find, Create, Update, NextAccount, Refresh, RefreshFails,
       Save, Drop, Ask, AskFails, vars
<1> QED
    BY <1>12, <1>13

LEMMA BesideInit == Init => BesideInv
<1> SUFFICES ASSUME Init
             PROVE  BesideInv
    OBVIOUS
<1>1. TypeOK /\ IsFiniteSet(account)
    BY TypeInit, FS_EmptySet DEF Init
<1>2. pending = {} /\ \A r \in Req : call[r].at \notin WithLogin
    BY IdleCall DEF Init, WithLogin
<1>3. RightPlatform
    BY <1>2 DEF RightPlatform
<1>4. ASSUME NEW u \in User, NEW p \in Platform
      PROVE  OneLogin(u, p) /\ RoomKept(u, p)
    <2>1. OneLogin(u, p)
        BY <1>2 DEF OneLogin, Has
    <2>2. Mine(u, p) = {}
        BY DEF Init, Mine
    <2> QED
        BY <2>1, <2>2, FS_EmptySet, AccountsAssumption, <1>2 DEF RoomKept, Open
<1> QED
    BY <1>1, <1>3, <1>4 DEF BesideInv

\* A new login is begun where there is room, and none is open where the history
\* tells of none beside it.
LEMMA BesideStart ==
    ASSUME BesideInv, TypeOK', NEW u0 \in User, NEW p0 \in Platform, Start(u0, p0)
    PROVE  BesideInv'
<1> SUFFICES ASSUME NEW n, n = [code |-> made.code + 1, user |-> u0, platform |-> p0,
                                late |-> FALSE, ext |-> None, token |-> 0]
             PROVE  BesideInv'
    OBVIOUS
<1>1. /\ pending' = {q \in pending : ~q.late} \cup {n}
      /\ UNCHANGED <<account, call>> /\ HasRoom(u0, p0)
      /\ beside' = IF Open(u0, p0) THEN beside \cup {<<u0, p0>>} ELSE beside
    BY DEF Start
<1>2. n.user = u0 /\ n.platform = p0 /\ n.ext = None
    OBVIOUS
<1>3. RightPlatform'
    BY <1>1, <1>2 DEF BesideInv, RightPlatform
<1>4. \A u, p : \A s \in Req : Has(s, u, p)' <=> Has(s, u, p)
    BY <1>1 DEF Has, Logs
<1>5. \A u, p : Mine(u, p)' = Mine(u, p)
    BY <1>1 DEF Mine
<1>6. ASSUME NEW u \in User, NEW p \in Platform, <<u, p>> \notin beside'
      PROVE  OneLogin(u, p)' /\ RoomKept(u, p)'
    <2>1. <<u, p>> \notin beside
        BY <1>1, <1>6
    <2>2. OneLogin(u, p) /\ RoomKept(u, p)
        BY <2>1 DEF BesideInv
    <2>3. CASE u = u0 /\ p = p0
        <3>1. ~Open(u, p)
            BY <1>1, <1>6, <2>3
        <3>2. (\A q \in pending : ~Logs(q, u, p)) /\ (\A s \in Req : ~Has(s, u, p))
            BY <3>1, OpenIs
        <3>3. /\ \A q, o \in pending' : Logs(q, u, p) /\ Logs(o, u, p) => q = o
              /\ \A s \in Req : ~Has(s, u, p)'
            BY <1>1, <1>4, <3>2
        <3>4. OneLogin(u, p)'
            BY <3>3 DEF OneLogin, Logs
        <3>5. Cardinality(Mine(u, p)') < MAX_PER_PLATFORM
            BY <1>1, <1>5, <2>3 DEF HasRoom
        <3>6. Cardinality(Mine(u, p)') <= MAX_PER_PLATFORM
            BY <1>5, <2>2 DEF RoomKept
        <3> QED
            BY <3>4, <3>5, <3>6 DEF RoomKept
    <2>4. CASE ~(u = u0 /\ p = p0)
        <3>1. \A q \in pending' : Logs(q, u, p) => q \in pending
            BY <1>1, <1>2, <2>4 DEF Logs
        <3>2. /\ \A q, o \in pending' : Logs(q, u, p) /\ Logs(o, u, p) => q = o
              /\ \A t, s \in Req : Has(t, u, p)' /\ Has(s, u, p)' => t = s
              /\ \A q \in pending', s \in Req : ~(Logs(q, u, p) /\ Has(s, u, p)')
            BY <1>4, <2>2, <3>1 DEF OneLogin
        <3>3. OneLogin(u, p)'
            BY <3>2 DEF OneLogin, Logs
        <3>4. Open(u, p)' => (\E q \in pending' : Logs(q, u, p)) \/ (\E s \in Req : Has(s, u, p)')
            BY DEF Open, Logs, Has
        <3>5. Open(u, p)' => Open(u, p)
            BY <1>4, <3>1, <3>4, OpenIs
        <3> QED
            BY <1>5, <2>2, <3>3, <3>5 DEF RoomKept
    <2> QED
        BY <2>3, <2>4
<1> QED
    BY <1>1, <1>3, <1>6 DEF BesideInv

\* What a login brings takes the room that was kept for it.
LEMMA BesideCreate ==
    ASSUME BesideInv, TypeOK', NEW r \in Req, Create(r), LoginsKept, UNCHANGED beside
    PROVE  BesideInv'
<1>0. CallsOK /\ IsFiniteSet(account)
    BY DEF BesideInv, TypeOK, CallsOK
<1> SUFFICES ASSUME NEW l, l = call[r].login,
                    NEW n, n = [id |-> made.id + 1, user |-> l.user, ext |-> l.ext,
                                token |-> l.token, fresh |-> TRUE, via |-> l.code]
             PROVE  BesideInv'
    OBVIOUS
<1>1. call[r].at = "create" /\ Over(r) /\ UNCHANGED pending
      /\ (account' = account \/ account' = account \cup {n})
    BY DEF Create
<1>2. n.user = l.user /\ n.ext = l.ext /\ PlatformOf[l.ext] = l.platform
    BY <1>1 DEF BesideInv, RightPlatform, WithLogin
<1>3. IsFiniteSet(account')
    <2>1. IsFiniteSet(account \cup {n})
        BY <1>0, FS_AddElement
    <2> QED
        BY <1>0, <1>1, <2>1
<1>4. ASSUME NEW u \in User, NEW p \in Platform, <<u, p>> \notin beside'
      PROVE  OneLogin(u, p)' /\ RoomKept(u, p)'
    <2>1. OneLogin(u, p) /\ RoomKept(u, p)
        BY <1>4 DEF BesideInv
    <2>2. OneLogin(u, p)' /\ (Open(u, p)' => Open(u, p))
        BY <2>1 DEF LoginsKept
    <2>3. Mine(u, p) \in SUBSET account
        BY DEF Mine
    <2>4. IsFiniteSet(Mine(u, p)) /\ Cardinality(Mine(u, p)) \in Nat
        BY <1>0, <2>3, FS_Subset, FS_CardinalityType
    <2>5. CASE Mine(u, p)' = Mine(u, p)
        BY <2>1, <2>2, <2>5 DEF RoomKept
    <2>6. CASE Logs(l, u, p)
        <3>1. Has(r, u, p)
            BY <1>1, <2>6 DEF Has, WithLogin
        <3>2. (\A q \in pending : ~Logs(q, u, p)) /\ (\A s \in Req \ {r} : ~Has(s, u, p))
            BY <2>1, <3>1 DEF OneLogin
        <3>3. \A s \in Req : call'[s] = IF s = r THEN Idle ELSE call[s]
            BY <1>0, <1>1 DEF Over, CallsOK
        <3>4. \A s \in Req : ~Has(s, u, p)'
            BY <3>2, <3>3, IdleCall DEF Has, Logs, WithLogin
        <3>5. Open(u, p)' => (\E q \in pending' : Logs(q, u, p)) \/ (\E s \in Req : Has(s, u, p)')
            BY DEF Open, Logs, Has
        <3>6. ~Open(u, p)'
            BY <1>1, <3>2, <3>4, <3>5
        <3>7. Open(u, p)
            BY <3>1, OpenIs
        <3>8. Cardinality(Mine(u, p)) < MAX_PER_PLATFORM
            BY <2>1, <3>7 DEF RoomKept
        <3>9. Mine(u, p)' \in SUBSET (Mine(u, p) \cup {n})
            BY <1>1 DEF Mine
        <3>10. /\ IsFiniteSet(Mine(u, p) \cup {n})
               /\ Cardinality(Mine(u, p) \cup {n}) <= Cardinality(Mine(u, p)) + 1
               /\ Cardinality(Mine(u, p) \cup {n}) \in Nat
            <4>1. ASSUME NEW S, IsFiniteSet(S)
                  PROVE  /\ IsFiniteSet(S \cup {n})
                         /\ Cardinality(S \cup {n}) <= Cardinality(S) + 1
                         /\ Cardinality(S \cup {n}) \in Nat
                <5>1. Cardinality(S) \in Nat
                    BY <4>1, FS_CardinalityType
                <5>2. /\ IsFiniteSet(S \cup {n})
                      /\ \/ Cardinality(S \cup {n}) = Cardinality(S)
                         \/ Cardinality(S \cup {n}) = Cardinality(S) + 1
                    BY <4>1, FS_AddElement
                <5> QED
                    BY <5>1, <5>2
            <4> QED
                BY <2>4, <4>1
        <3>11. /\ Cardinality(Mine(u, p)') <= Cardinality(Mine(u, p) \cup {n})
               /\ Cardinality(Mine(u, p)') \in Nat
            BY <3>9, <3>10, FS_Subset, FS_CardinalityType
        <3>12. Cardinality(Mine(u, p)') <= MAX_PER_PLATFORM
            BY <2>4, <3>8, <3>10, <3>11, AccountsAssumption
        <3> QED
            BY <2>2, <3>6, <3>12 DEF RoomKept
    <2>7. ASSUME ~Logs(l, u, p)
          PROVE  Mine(u, p)' = Mine(u, p)
        <3>1. ~(n.user = u /\ n.ext \in On(p))
            BY <1>2, <2>7 DEF Logs, On
        <3> QED
            BY <1>1, <3>1 DEF Mine
    <2> QED
        BY <2>5, <2>6, <2>7
<1> QED
    BY <1>3, <1>4 DEF BesideInv, LoginsKept

LEMMA BesideStep == BesideInv /\ [Next]_vars => BesideInv'
<1> SUFFICES ASSUME BesideInv, [Next]_vars
             PROVE  BesideInv'
    OBVIOUS
<1>1. TypeOK /\ TypeOK' /\ RightPlatform /\ IsFiniteSet(account)
    BY TypeStep DEF BesideInv
<1>2. CASE \E u \in User, p \in Platform : Start(u, p)
    BY <1>1, <1>2, BesideStart
<1>3. CASE ~\E u \in User, p \in Platform : Start(u, p)
    <2>1. LoginsKept /\ UNCHANGED beside
        BY <1>1, <1>3, StepKeepsLogins
    <2>2. CASE \E r \in Req : Create(r)
        BY <1>1, <2>1, <2>2, BesideCreate
    <2>3. CASE ~\E r \in Req : Create(r)
        <3>1. AccountsRenewed
            BY <1>1, <2>3, RenewedStep
        <3>2. IsFiniteSet(account')
            BY <1>1, <3>1, MineLess
        <3>3. ASSUME NEW u \in User, NEW p \in Platform, <<u, p>> \notin beside'
              PROVE  OneLogin(u, p)' /\ RoomKept(u, p)'
            <4>1. OneLogin(u, p) /\ RoomKept(u, p)
                BY <2>1, <3>3 DEF BesideInv
            <4>2. OneLogin(u, p)' /\ (Open(u, p)' => Open(u, p))
                BY <2>1, <4>1 DEF LoginsKept
            <4>3. /\ Cardinality(Mine(u, p)) \in Nat /\ Cardinality(Mine(u, p)') \in Nat
                  /\ Cardinality(Mine(u, p)') <= Cardinality(Mine(u, p))
                BY <1>1, <3>1, MineLess
            <4> QED
                BY <4>1, <4>2, <4>3, AccountsAssumption DEF RoomKept
        <3> QED
            BY <1>1, <2>1, <3>2, <3>3 DEF BesideInv, LoginsKept
    <2> QED
        BY <2>2, <2>3
<1> QED
    BY <1>2, <1>3

\* A creator has more accounts at a platform than MAX_PER_PLATFORM only if he
\* once began a login while another of his was open there (start).
THEOREM OverLimitOnlyForBeside == Spec => []OverLimitOnlyBeside
<1>1. BesideInv => OverLimitOnlyBeside
    <2> SUFFICES ASSUME BesideInv, NEW u \in User, NEW p \in Platform, <<u, p>> \notin beside
                 PROVE  ~(Cardinality(Mine(u, p)) > MAX_PER_PLATFORM)
        BY DEF OverLimitOnlyBeside
    <2>1. Cardinality(Mine(u, p)) <= MAX_PER_PLATFORM
        BY DEF BesideInv, RoomKept
    <2>2. Mine(u, p) \in SUBSET account
        BY DEF Mine
    <2>3. Cardinality(Mine(u, p)) \in Nat
        BY <2>2, FS_Subset, FS_CardinalityType DEF BesideInv
    <2> QED
        BY <2>1, <2>3, AccountsAssumption
<1> QED
    BY <1>1, BesideInit, BesideStep, PTL DEF Spec


-----------------------------------------------------------------------------
(* Whose views are counted *)

Counting == {"next", "refresh", "save", "refused", "ask"}

\* The owner of an outside account has agreed to have it in a profile.
Shared(user, ext) ==
    \E g \in page : g.code \in agreed /\ g.user = user /\ g.ext = ext

\* A request that counts has accounts and videos of one creator at hand.
CountsOwn(c) == c.at \in Counting =>
    /\ \A k \in c.todo : k.user = c.user /\ Shared(k.user, k.ext)
    /\ \A v \in c.left : CreatorOf[v] = c.user
    /\ c.at # "next" => c.row.user = c.user /\ Shared(c.row.user, c.row.ext)

ViewsInv == AgreedInv /\ (\A r \in Req : CountsOwn(call[r])) /\ OwnViews

\* Agreements are not taken back.
LEMMA SharedStays ==
    ASSUME page \subseteq page', agreed \subseteq agreed', NEW u, NEW e, Shared(u, e)
    PROVE  Shared(u, e)'
BY DEF Shared

LEMMA PagesGrow ==
    ASSUME Next PROVE page \subseteq page' /\ agreed \subseteq agreed'
BY DEF Next, Start, Decline, Take, Disconnect, TokenExpires, PendingExpires, Revoke, Callback,
   Confirm, Count, Exchange, Keep, Over, ExchangeFails, Find, Goes, Create, Update, Renew,
   NextAccount, Refresh, RefreshFails, Save, Drop, Ask, AskFails

LEMMA CountsStep ==
    ASSUME AgreedInv, \A r \in Req : CountsOwn(call[r]), Next, NEW r \in Req
    PROVE  CountsOwn(call[r])'
<1>0. page \subseteq page' /\ agreed \subseteq agreed'  BY PagesGrow
<1>1. call \in [Req -> Call] /\ call[r] \in Call  BY DEF AgreedInv, TypeOK
<1>2. CASE call'[r] = call[r]
    <2>1. CountsOwn(call[r])  OBVIOUS
    <2> QED
        BY <1>0, <1>2, <2>1, SharedStays DEF CountsOwn
<1>3. CASE call'[r].at \notin Counting
    BY <1>3 DEF CountsOwn
<1>4. ASSUME NEW u \in User, NEW p \in Platform, Count(r, u, p)
      PROVE  CountsOwn(call[r])'
    <2>1. /\ call'[r].at = "next" /\ call'[r].user = u /\ call'[r].todo = Mine(u, p)
          /\ \A v \in call'[r].left : CreatorOf[v] = u
        BY <1>1, <1>4 DEF Count, Call
    <2>2. \A a \in Mine(u, p) : a.user = u /\ Shared(a.user, a.ext)
        BY DEF AgreedInv, AccountsFit, AgreedOn, Shared, Mine
    <2> QED
        BY <1>0, <2>1, <2>2, SharedStays DEF CountsOwn
<1>5. CASE NextAccount(r)
    <2> DEFINE c == call[r]
               a == CHOOSE x \in c.todo : \A y \in c.todo : x.id <= y.id
    <2>1. CASE c.todo = {} \/ c.left = {}
        <3>1. call'[r] = Idle
            BY <1>1, <1>5, <2>1 DEF NextAccount, Over
        <3> QED
            BY <1>3, <3>1 DEF Idle, Counting
    <2>2. CASE ~(c.todo = {} \/ c.left = {})
        <3>1. a \in c.todo
            <4>1. TypeOK  BY DEF AgreedInv
            <4>2. c.todo # {}  BY <2>2
            <4> QED
                BY <1>1, <4>1, <4>2, NextOfTodo
        <3>2. /\ c.at = "next"
              /\ call' = [call EXCEPT ![r] =
                            [c EXCEPT !.todo = c.todo \ {a}, !.row = a,
                                      !.at = IF Own(a, c.left) = {} THEN "next"
                                             ELSE IF a.fresh THEN "ask" ELSE "refresh"]]
            BY <1>5, <2>2 DEF NextAccount
        <3> HIDE DEF a
        <3>3. /\ call'[r].todo = c.todo \ {a} /\ call'[r].row = a
              /\ call'[r].user = c.user /\ call'[r].left = c.left
            BY <1>1, <3>2 DEF Call
        <3>4. CountsOwn(c)  OBVIOUS
        <3> QED
            BY <1>0, <3>1, <3>2, <3>3, <3>4, SharedStays DEF CountsOwn, Counting
    <2> QED
        BY <2>1, <2>2
<1>6. CASE Refresh(r) \/ RefreshFails(r) \/ Save(r) \/ Drop(r) \/ Ask(r) \/ AskFails(r)
    <2> DEFINE c == call[r]
               Kept(d) == /\ c.at \in Counting \ {"next"}
                          /\ d.user = c.user /\ d.todo = c.todo /\ d.left \subseteq c.left
                          /\ d.row.user = c.row.user /\ d.row.ext = c.row.ext
    <2>0. TypeOK /\ c \in Call /\ HoldsWhatItNeeds(c)
        BY <1>1 DEF AgreedInv, TypeOK
    <2>1. Kept(call'[r])
        <3>1. ASSUME NEW at, Goes(r, at), c.at \in Counting \ {"next"} PROVE Kept(call'[r])
            BY <1>1, <3>1 DEF Goes, Call
        <3>2. CASE RefreshFails(r) \/ Drop(r) \/ AskFails(r)
            BY <3>1, <3>2 DEF RefreshFails, OnFailure, Drop, AskFails, Counting
        <3>3. CASE Save(r)
            <4>1. c.at = "save" /\ \E at \in {"next", "ask"} : Goes(r, at)
                BY <3>3 DEF Save
            <4> QED
                BY <3>1, <4>1 DEF Counting
        <3>4. CASE Ask(r)
            <4>1. /\ c.at = "ask"
                  /\ \E vs : call' = [call EXCEPT ![r] = [c EXCEPT !.at = "next",
                                                                 !.left = c.left \ vs]]
                BY <3>4 DEF Ask
            <4> QED
                BY <1>1, <4>1 DEF Call, Counting
        <3>5. CASE Refresh(r)
            <4>1. c.at = "refresh"  BY <3>5 DEF Refresh
            <4>2. \/ \E at \in {"refused", "save"} : Goes(r, at)
                  \/ call' = [call EXCEPT ![r] = [@ EXCEPT !.at = "save",
                                                         !.row.token = made.token + 1]]
                BY <3>5 DEF Refresh
            <4>3. CASE \E at \in {"refused", "save"} : Goes(r, at)
                BY <3>1, <4>1, <4>3 DEF Counting
            <4>4. CASE call' = [call EXCEPT ![r] = [@ EXCEPT !.at = "save",
                                                         !.row.token = made.token + 1]]
                <5>1. c.row \in AccountRow
                    BY <2>0, <4>1 DEF HoldsWhatItNeeds, WithRow
                <5>2. /\ call'[r].user = c.user /\ call'[r].todo = c.todo
                      /\ call'[r].left = c.left
                      /\ call'[r].row = [c.row EXCEPT !.token = made.token + 1]
                    BY <1>1, <4>4 DEF Call
                <5> QED
                    BY <4>1, <5>1, <5>2 DEF AccountRow, Counting
            <4> QED
                BY <4>2, <4>3, <4>4
        <3> QED
            BY <1>6, <3>2, <3>3, <3>4, <3>5
    <2>2. CountsOwn(c)  OBVIOUS
    <2> QED
        BY <1>0, <2>1, <2>2, SharedStays DEF CountsOwn
<1>7. \/ call'[r] = call[r] \/ call'[r].at \notin Counting
      \/ \E u \in User, p \in Platform : Count(r, u, p)
      \/ NextAccount(r) \/ Refresh(r) \/ RefreshFails(r) \/ Save(r) \/ Drop(r) \/ Ask(r)
      \/ AskFails(r)
    <2>1. CASE UNCHANGED call  BY <2>1
    <2>2. ASSUME NEW s \in Req, s # r,
                 \/ \E code \in 1 .. MaxCodes, e \in Ext : Callback(s, code, e)
                 \/ \E g \in page : Confirm(s, g)
                 \/ \E u \in User, p \in Platform : Count(s, u, p)
                 \/ Exchange(s) \/ ExchangeFails(s)
                 \/ Find(s) \/ Create(s) \/ Update(s)
                 \/ NextAccount(s) \/ Refresh(s) \/ RefreshFails(s)
                 \/ Save(s) \/ Drop(s) \/ Ask(s) \/ AskFails(s)
          PROVE  call'[r] = call[r]
        BY <1>1, <2>2 DEF Callback, Confirm, Count, Exchange, ExchangeFails, Find, Create,
           Update, NextAccount, Refresh, RefreshFails, Save, Drop, Ask, AskFails, Goes, Over
    <2>3. CASE \/ \E code \in 1 .. MaxCodes, e \in Ext : Callback(r, code, e)
               \/ \E g \in page : Confirm(r, g)
               \/ Exchange(r) \/ ExchangeFails(r) \/ Find(r) \/ Create(r) \/ Update(r)
        <3>1. CASE Exchange(r) \/ ExchangeFails(r) \/ Create(r) \/ Update(r)
            <4>1. Over(r)
                BY <3>1 DEF Exchange, ExchangeFails, Create, Update
            <4> QED
                BY <1>1, <4>1 DEF Over, Idle, Counting
        <3>2. CASE Find(r)
            <4>1. \/ Goes(r, "create") \/ Over(r)
                  \/ \E a : call' = [call EXCEPT ![r] = [@ EXCEPT !.at = "update", !.row = a]]
                BY <3>2 DEF Find
            <4> QED
                <5>1. CASE Goes(r, "create") \/ Over(r)
                    BY <1>1, <5>1 DEF Goes, Over, Idle, Counting, Call
                <5>2. ASSUME NEW a, call' = [call EXCEPT ![r] = [@ EXCEPT !.at = "update",
                                                                          !.row = a]]
                      PROVE  call'[r].at = "update"
                    BY <1>1, <5>2 DEF Call
                <5> QED
                    BY <4>1, <5>1, <5>2 DEF Counting
        <3>3. CASE \E code \in 1 .. MaxCodes, e \in Ext : Callback(r, code, e)
            <4>1. \/ call' = call
                  \/ \E q : call' = [call EXCEPT ![r] = [@ EXCEPT !.at = "exchange", !.login = q]]
                BY <3>3 DEF Callback
            <4> QED
                BY <1>1, <4>1 DEF Counting, Call
        <3>4. CASE \E g \in page : Confirm(r, g)
            <4>1. \/ call' = call
                  \/ \E q : call' = [call EXCEPT ![r] = [@ EXCEPT !.at = "find", !.login = q]]
                BY <3>4 DEF Confirm
            <4> QED
                BY <1>1, <4>1 DEF Counting, Call
        <3> QED
            BY <2>3, <3>1, <3>2, <3>3, <3>4
    <2> QED
        BY <2>1, <2>2, <2>3 DEF Next, Start, Decline, Disconnect, TokenExpires, PendingExpires,
           Revoke
<1> QED
    BY <1>2, <1>3, <1>4, <1>5, <1>6, <1>7

LEMMA ViewsInit == Init => ViewsInv
BY AgreedInit DEF ViewsInv, Init, CountsOwn, Idle, Counting, OwnViews

LEMMA ViewsStep == ViewsInv /\ [Next]_vars => ViewsInv'
<1> SUFFICES ASSUME ViewsInv, [Next]_vars PROVE ViewsInv'  OBVIOUS
<1>0. AgreedInv' /\ AgreedInv  BY AgreedStep DEF ViewsInv
<1>1. CASE UNCHANGED vars
    <2>1. UNCHANGED <<call, counted, page, agreed>>  BY <1>1 DEF vars
    <2> QED
        BY <1>0, <2>1 DEF ViewsInv, CountsOwn, Shared, OwnViews
<1>2. CASE Next
    <2>1. \A r \in Req : CountsOwn(call[r])'
        BY <1>0, <1>2, CountsStep DEF ViewsInv
    <2>2. page \subseteq page' /\ agreed \subseteq agreed'  BY <1>2, PagesGrow
    <2>4. ASSUME NEW r \in Req, Ask(r) PROVE OwnViews'
        <3> DEFINE c == call[r]
                   shown == Shown(c.row.ext, Own(c.row, c.left))
        <3>1. c.at = "ask" /\ counted' = counted \cup (shown \X {c.row.ext})
            BY <2>4 DEF Ask
        <3>2. \A v \in shown : v \in c.left /\ PostedBy[v] = c.row.ext
            BY DEF Shown, Own
        <3>3. CountsOwn(c)  BY DEF ViewsInv
        <3>4. /\ \A v \in c.left : CreatorOf[v] = c.user
              /\ c.row.user = c.user /\ Shared(c.row.user, c.row.ext)
            BY <3>1, <3>3 DEF CountsOwn, Counting
        <3> HIDE DEF shown
        <3>5. \A x \in counted' : x \in counted \/ \E v \in shown : x = <<v, c.row.ext>>
            BY <3>1
        <3> QED
            BY <2>2, <3>2, <3>4, <3>5 DEF ViewsInv, OwnViews, Shared
    <2>5. counted' = counted \/ \E r \in Req : Ask(r)
        BY <1>2 DEF Next, Start, Decline, Disconnect, TokenExpires, PendingExpires, Revoke,
           Callback, Confirm, Count, Exchange, ExchangeFails, Find, Create, Update,
           NextAccount, Refresh, RefreshFails, Save, Drop, AskFails
    <2>6. OwnViews'
        <3>1. counted' = counted => OwnViews'
            BY <2>2 DEF ViewsInv, OwnViews
        <3> QED
            BY <2>4, <2>5, <3>1
    <2> QED
        BY <1>0, <2>1, <2>6 DEF ViewsInv
<1> QED
    BY <1>1, <1>2

\* Views are read only by the account that published the video, and only if its
\* owner agreed to have it in the profile of the creator who handed the video in
\* (stats, ownerOf), however accounts come and go while views are counted.
THEOREM ViewsAlwaysOwn == Spec => []OwnViews
<1>1. ViewsInv => OwnViews
    BY DEF ViewsInv
<1> QED
    BY <1>1, ViewsInit, ViewsStep, PTL DEF Spec
=============================================================================
