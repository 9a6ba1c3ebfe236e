--------------------------- MODULE Creator_proofs ---------------------------
(***************************************************************************)
(* What holds of the screens of a creator for any orders, filters, videos, *)
(* apps and bounds: the profile, the work on an order, the balance and the *)
(* catalogue, each with the invariant it needs.                            *)
(***************************************************************************)
EXTENDS Creator, FiniteSetTheorems, SequenceTheorems, TLAPS

-----------------------------------------------------------------------------
(* The profile *)

ScreenFields == {"p", "error", "busy", "editing", "links", "newLink", "editingWallet", "wallet"}

\* A copy of the row is a record, whatever stands in it.
IsCopy(p) == p = [links |-> p.links, wallet |-> p.wallet, notify |-> p.notify, here |-> p.here]

\* Rows, screens and requests have the fields the code reads of them.
ProfileType ==
    /\ DOMAIN user = {"links", "wallet", "changed", "notify"}
    /\ DOMAIN profilePage = Client /\ DOMAIN call = Client
    /\ DOMAIN beside = Client \cup {"wallet"}
    /\ \A c \in Client :
        /\ DOMAIN profilePage[c] = ScreenFields
        /\ IsCopy(profilePage[c].p)
        /\ DOMAIN call[c] = P!Slot
        /\ \A s \in P!Slot : "at" \in DOMAIN call[c][s]
        /\ \A s \in P!Slot : call[c][s].at # "idle" => "val" \in DOMAIN call[c][s]
        /\ \A s \in P!Reads : call[c][s].at = "done" => IsCopy(call[c][s].val)

\* Of an app that nothing has crossed since it last read alone: an answer on its way
\* is what is stored; a screen that has its copy and awaits no answer to a read or a
\* save has what is stored, but for a switch.
Uncrossed(c) ==
    /\ \A s \in P!Reads : call[c][s].at = "done" => call[c][s].val = P!profile
    /\ \A s \in {"switch1", "switch2"} :
            call[c][s].at = "done" => call[c][s].val = user.notify
    /\ profilePage[c].p.here /\ (\A s \in P!Reads : call[c][s].at = "idle")
       /\ call[c]["put"].at # "done" =>
        /\ profilePage[c].p.links = user.links /\ profilePage[c].p.wallet = user.wallet
        /\ call[c]["switch1"].at # "done" /\ call[c]["switch2"].at # "done" =>
                profilePage[c].p.notify = user.notify

\* A save holds the buttons until the profile is read again, so that none follows it
\* before.
Held(c) ==
    /\ call[c]["put"].at # "idle" => profilePage[c].busy
    /\ call[c]["reload"].at # "idle" => profilePage[c].busy /\ call[c]["put"].at = "idle"

ProfileInv ==
    /\ ProfileType
    /\ \A c \in Client : Held(c)
    /\ \A c \in Client : ~beside[c] => Uncrossed(c)

LEMMA ProfileInit == Init => ProfileInv
<1> SUFFICES ASSUME Init PROVE ProfileInv  OBVIOUS
<1>1. P!Init  BY DEF Init
<1>2. ProfileType
  BY <1>1 DEF P!Init, ProfileType, ScreenFields, IsCopy, P!Blank, P!Nothing, P!Idle, P!Slot,
              P!Reads
<1>3. ASSUME NEW c \in Client PROVE Uncrossed(c) /\ Held(c)
  BY <1>1 DEF P!Init, Uncrossed, Held, P!Blank, P!Nothing, P!Idle, P!Slot, P!Reads, P!profile
<1> QED BY <1>2, <1>3 DEF ProfileInv

\* A step of one app, seen by another that it has not crossed.
LEMMA OtherApp ==
    ASSUME ProfileInv, NEW c \in Client, Uncrossed(c),
           call'[c] = call[c], profilePage'[c] = profilePage[c], user' = user
    PROVE  Uncrossed(c)'
BY DEF Uncrossed, P!profile

\* What a step of app c must leave of its own.
LEMMA AppStep ==
    ASSUME ProfileInv, NEW c \in Client,
           DOMAIN user' = DOMAIN user,
           DOMAIN profilePage' = Client, DOMAIN call' = Client,
           DOMAIN beside' = DOMAIN beside,
           \A d \in Client \ {c} : call'[d] = call[d] /\ profilePage'[d] = profilePage[d],
           \A d \in Client \ {c} : beside[d] => beside'[d],
           user' = user \/ \A d \in Client \ {c} : beside'[d],
           DOMAIN profilePage'[c] = ScreenFields, IsCopy(profilePage'[c].p),
           DOMAIN call'[c] = P!Slot,
           \A s \in P!Slot : "at" \in DOMAIN call'[c][s],
           \A s \in P!Slot : call'[c][s].at # "idle" => "val" \in DOMAIN call'[c][s],
           \A s \in P!Reads : call'[c][s].at = "done" => IsCopy(call'[c][s].val),
           Held(c)', ~beside'[c] => Uncrossed(c)'
    PROVE  ProfileInv'
<1>1. ProfileType'
  BY DEF ProfileInv, ProfileType, IsCopy
<1>3. ASSUME NEW d \in Client PROVE Held(d)'
  BY DEF ProfileInv, Held
<1>2. ASSUME NEW d \in Client, ~beside'[d] PROVE Uncrossed(d)'
  <2>1. CASE d = c  BY <1>2, <2>1
  <2>2. CASE d # c
    <3>1. user' = user /\ Uncrossed(d)  BY <1>2, <2>2 DEF ProfileInv
    <3> QED BY <3>1, <2>2, OtherApp
  <2> QED BY <2>1, <2>2
<1> QED BY <1>1, <1>2, <1>3 DEF ProfileInv

\* What the hand does on the screen changes neither the copy nor the flags, and sends
\* at most a save, which holds the buttons, or a switch.
LEMMA ByHand ==
    ASSUME ProfileInv, NEW c \in Client,
           \/ P!startLinks(c) \/ P!TypeLink(c) \/ P!addLink(c) \/ P!removeLink(c)
           \/ P!startWallet(c) \/ P!Cancel(c)
    PROVE  ProfileInv'
<1>0. DOMAIN profilePage = Client /\ DOMAIN profilePage[c] = ScreenFields
  BY DEF ProfileInv, ProfileType
<1>1. call' = call /\ user' = user /\ beside' = beside
  BY DEF P!startLinks, P!TypeLink, P!addLink, P!removeLink, P!startWallet, P!Cancel, P!history
<1>2. /\ profilePage'[c].p = profilePage[c].p /\ profilePage'[c].busy = profilePage[c].busy
      /\ profilePage'[c].error = profilePage[c].error /\ DOMAIN profilePage'[c] = ScreenFields
      /\ DOMAIN profilePage' = Client
      /\ \A d \in Client \ {c} : profilePage'[d] = profilePage[d]
  <2>1. CASE P!startLinks(c)  BY <1>0, <2>1 DEF P!startLinks, P!Set, ScreenFields
  <2>2. CASE P!TypeLink(c)  BY <1>0, <2>2 DEF P!TypeLink, P!Set, ScreenFields
  <2>3. CASE P!addLink(c)  BY <1>0, <2>3 DEF P!addLink, P!Set, ScreenFields
  <2>4. CASE P!removeLink(c)  BY <1>0, <2>4 DEF P!removeLink, P!Set, ScreenFields
  <2>5. CASE P!startWallet(c)  BY <1>0, <2>5 DEF P!startWallet, P!Set, ScreenFields
  <2>6. CASE P!Cancel(c)  BY <1>0, <2>6 DEF P!Cancel, P!Set, ScreenFields
  <2> QED BY <2>1, <2>2, <2>3, <2>4, <2>5, <2>6
<1>3. Held(c)' /\ (~beside'[c] => Uncrossed(c)')
  BY <1>1, <1>2 DEF ProfileInv, Held, Uncrossed, P!profile
<1> QED BY <1>1, <1>2, <1>3, AppStep DEF ProfileInv, ProfileType

LEMMA HandSends ==
    ASSUME ProfileInv, NEW c \in Client,
           P!saveLinks(c) \/ P!saveWallet(c) \/ P!toggleNewOrders(c)
    PROVE  ProfileInv'
<1>1. CASE P!saveLinks(c) \/ P!saveWallet(c)
  <2>1. /\ user' = user /\ beside' = beside
        /\ profilePage' = [profilePage EXCEPT ![c] = [profilePage[c] EXCEPT !.busy = TRUE]]
        /\ ~profilePage[c].busy /\ profilePage[c].p.here
        /\ \E w : \E v : call' = [call EXCEPT ![c]["put"] = [at |-> "sent", what |-> w, val |-> v]]
    BY <1>1 DEF P!saveLinks, P!saveWallet, P!Set, P!Asks, P!Shows, P!history
  <2>2. PICK w : \E v : call' = [call EXCEPT ![c]["put"] = [at |-> "sent", what |-> w, val |-> v]]
    BY <2>1
  <2>8. PICK v : call' = [call EXCEPT ![c]["put"] = [at |-> "sent", what |-> w, val |-> v]]
    BY <2>2
  <2>3. /\ DOMAIN call' = Client /\ DOMAIN call'[c] = P!Slot
        /\ \A d \in Client \ {c} : call'[d] = call[d]
        /\ call'[c]["put"] = [at |-> "sent", what |-> w, val |-> v]
        /\ \A s \in P!Slot \ {"put"} : call'[c][s] = call[c][s]
    BY <2>8 DEF ProfileInv, ProfileType, P!Slot
  <2>4. /\ profilePage'[c].p = profilePage[c].p /\ profilePage'[c].busy
        /\ profilePage'[c].error = profilePage[c].error /\ DOMAIN profilePage'[c] = ScreenFields
        /\ DOMAIN profilePage' = Client
        /\ \A d \in Client \ {c} : profilePage'[d] = profilePage[d]
    BY <2>1 DEF ProfileInv, ProfileType, ScreenFields
  <2>10. /\ \A s \in P!Reads : call'[c][s] = call[c][s]
         /\ \A s \in {"switch1", "switch2"} : call'[c][s] = call[c][s]
         /\ call'[c]["reload"] = call[c]["reload"]
    BY <2>3 DEF P!Slot, P!Reads
  <2>11. call[c]["put"].at = "idle" /\ call[c]["reload"].at = "idle"
    BY <2>1 DEF ProfileInv, Held
  <2>12. call'[c]["put"].at = "sent"  BY <2>3
  <2>13. Held(c)'  BY <2>4, <2>10, <2>11 DEF Held
  <2>5. ASSUME ~beside'[c] PROVE Uncrossed(c)'
    <3>1. Uncrossed(c) /\ P!profile' = P!profile
      BY <2>1, <2>5 DEF ProfileInv, P!profile
    <3> QED BY <2>1, <2>4, <2>10, <2>11, <2>12, <3>1 DEF Uncrossed
  <2>6. \A s \in P!Slot : "at" \in DOMAIN call'[c][s]
            /\ (call'[c][s].at # "idle" => "val" \in DOMAIN call'[c][s])
    BY <2>3 DEF ProfileInv, ProfileType
  <2>7. \A s \in P!Reads : call'[c][s].at = "done" => IsCopy(call'[c][s].val)
    BY <2>3 DEF ProfileInv, ProfileType, P!Slot, P!Reads
  <2> QED BY <2>1, <2>3, <2>4, <2>5, <2>6, <2>7, <2>13, AppStep DEF ProfileInv, ProfileType
<1>2. CASE P!toggleNewOrders(c)
  <2>1. /\ user' = user /\ beside' = beside /\ profilePage' = profilePage
        /\ \E t \in {"switch1", "switch2"} : \E v :
              /\ call[c][t] = P!Idle
              /\ call' = [call EXCEPT ![c][t] = [at |-> "sent", what |-> "notify", val |-> v]]
    BY <1>2 DEF P!toggleNewOrders, P!Asks, P!history
  <2>2. PICK t \in {"switch1", "switch2"} : \E v :
              /\ call[c][t] = P!Idle
              /\ call' = [call EXCEPT ![c][t] = [at |-> "sent", what |-> "notify", val |-> v]]
    BY <2>1
  <2>8. PICK v : /\ call[c][t] = P!Idle
                 /\ call' = [call EXCEPT ![c][t] = [at |-> "sent", what |-> "notify", val |-> v]]
    BY <2>2
  <2>3. /\ DOMAIN call' = Client /\ DOMAIN call'[c] = P!Slot
        /\ \A d \in Client \ {c} : call'[d] = call[d]
        /\ call'[c][t] = [at |-> "sent", what |-> "notify", val |-> v]
        /\ call[c][t].at = "idle"
        /\ \A s \in P!Slot \ {t} : call'[c][s] = call[c][s]
    BY <2>8 DEF ProfileInv, ProfileType, P!Slot, P!Idle
  <2>4. Held(c)' /\ (~beside'[c] => Uncrossed(c)')
    <3>1. /\ \A s \in P!Reads : call'[c][s] = call[c][s]
          /\ call'[c]["put"] = call[c]["put"]
          /\ \A s \in {"switch1", "switch2"} : call'[c][s] = call[c][s] \/ s = t
          /\ call'[c][t].at # "done" /\ call[c][t].at # "done"
      BY <2>3 DEF P!Slot, P!Reads
    <3>2. call'[c]["reload"] = call[c]["reload"]  BY <3>1 DEF P!Reads
    <3>3. Held(c)'  BY <2>1, <3>1, <3>2 DEF ProfileInv, Held
    <3>4. ASSUME ~beside'[c] PROVE Uncrossed(c)'
      <4>1. Uncrossed(c) /\ P!profile' = P!profile
        BY <2>1, <3>4 DEF ProfileInv, P!profile
      <4> QED BY <2>1, <3>1, <4>1 DEF Uncrossed
    <3> QED BY <3>3, <3>4
  <2>5. \A s \in P!Slot : "at" \in DOMAIN call'[c][s]
            /\ (call'[c][s].at # "idle" => "val" \in DOMAIN call'[c][s])
    BY <2>3 DEF ProfileInv, ProfileType
  <2>6. \A s \in P!Reads : call'[c][s].at = "done" => IsCopy(call'[c][s].val)
    BY <2>3 DEF ProfileInv, ProfileType, P!Slot, P!Reads
  <2> QED BY <2>1, <2>3, <2>4, <2>5, <2>6, AppStep DEF ProfileInv, ProfileType
<1> QED BY <1>1, <1>2

\* One request of an app changes, the others stay.
LEMMA OneRequest ==
    ASSUME ProfileInv, NEW c \in Client, NEW t \in P!Slot, NEW r,
           call' = [call EXCEPT ![c] = [call[c] EXCEPT ![t] = r]],
           "at" \in DOMAIN r, r.at # "idle" => "val" \in DOMAIN r,
           t \in P!Reads /\ r.at = "done" => IsCopy(r.val)
    PROVE  /\ DOMAIN call' = Client /\ DOMAIN call'[c] = P!Slot
           /\ \A d \in Client \ {c} : call'[d] = call[d]
           /\ call'[c][t] = r
           /\ \A s \in P!Slot \ {t} : call'[c][s] = call[c][s]
           /\ \A s \in P!Slot : "at" \in DOMAIN call'[c][s]
           /\ \A s \in P!Slot : call'[c][s].at # "idle" => "val" \in DOMAIN call'[c][s]
           /\ \A s \in P!Reads : call'[c][s].at = "done" => IsCopy(call'[c][s].val)
<1>1. DOMAIN call = Client /\ DOMAIN call[c] = P!Slot  BY DEF ProfileInv, ProfileType
<1>2. /\ DOMAIN call' = Client /\ call'[c] = [call[c] EXCEPT ![t] = r]
      /\ \A d \in Client \ {c} : call'[d] = call[d]
  BY <1>1
<1>3. /\ DOMAIN call'[c] = P!Slot /\ call'[c][t] = r
      /\ \A s \in P!Slot \ {t} : call'[c][s] = call[c][s]
  BY <1>1, <1>2
<1>4. /\ \A s \in P!Slot : "at" \in DOMAIN call'[c][s]
      /\ \A s \in P!Slot : call'[c][s].at # "idle" => "val" \in DOMAIN call'[c][s]
  BY <1>3 DEF ProfileInv, ProfileType
<1>5. \A s \in P!Reads : call'[c][s].at = "done" => IsCopy(call'[c][s].val)
  <2>1. P!Reads \subseteq P!Slot  BY DEF P!Slot
  <2> QED BY <1>3, <2>1 DEF ProfileInv, ProfileType
<1> QED BY <1>2, <1>3, <1>4, <1>5

\* A read of the row, and the checks of a save: nothing is stored yet.
LEMMA ServerLooks ==
    ASSUME ProfileInv, NEW c \in Client, P!Read(c) \/ P!Authorize(c)
    PROVE  ProfileInv'
<1>0. user' = user /\ profilePage' = profilePage
  BY DEF P!Read, P!Authorize, P!history
<1>1. CASE P!Read(c)
  <2> DEFINE r == [at |-> "done", what |-> "load", val |-> P!profile]
  <2>1. PICK t \in P!Reads :
          /\ call' = [call EXCEPT ![c] = [call[c] EXCEPT ![t] = r]] /\ call[c][t].at = "sent"
          /\ beside' = [beside EXCEPT ![c] = @ /\ \E x \in P!Slot \ {t} : call[c][x] # P!Idle]
    BY <1>1 DEF P!Read
  <2>2. IsCopy(P!profile)  BY DEF IsCopy, P!profile
  <2>3. t \in P!Slot  BY <2>1 DEF P!Slot
  <2>4. r.at = "done" /\ r.val = P!profile /\ "at" \in DOMAIN r /\ "val" \in DOMAIN r  OBVIOUS
  <2> HIDE DEF r
  <2>5. /\ DOMAIN call' = Client /\ DOMAIN call'[c] = P!Slot
        /\ \A d \in Client \ {c} : call'[d] = call[d]
        /\ call'[c][t] = r
        /\ \A s \in P!Slot \ {t} : call'[c][s] = call[c][s]
        /\ \A s \in P!Slot : "at" \in DOMAIN call'[c][s]
        /\ \A s \in P!Slot : call'[c][s].at # "idle" => "val" \in DOMAIN call'[c][s]
        /\ \A s \in P!Reads : call'[c][s].at = "done" => IsCopy(call'[c][s].val)
    BY <2>1, <2>2, <2>3, <2>4, OneRequest
  <2>6. /\ DOMAIN beside' = DOMAIN beside
        /\ \A d \in Client \ {c} : beside'[d] = beside[d]
        /\ beside'[c] <=> beside[c] /\ \E x \in P!Slot \ {t} : call[c][x] # P!Idle
    BY <2>1 DEF ProfileInv, ProfileType
  <2>7. Held(c)'
    BY <1>0, <2>1, <2>4, <2>5 DEF ProfileInv, Held, P!Slot, P!Reads
  <2>8. ASSUME ~beside'[c] PROVE Uncrossed(c)'
    <3>1. P!profile' = P!profile  BY <1>0 DEF P!profile
    <3>2. \A s \in {"switch1", "switch2"} : call'[c][s] = call[c][s]
      BY <2>1, <2>5 DEF P!Slot, P!Reads
    <3>3. CASE ~beside[c]
      <4>1. Uncrossed(c)  BY <3>3 DEF ProfileInv
      <4>2. \A s \in P!Reads : call'[c][s].at = "done" => call'[c][s].val = P!profile
        BY <2>1, <2>4, <2>5, <4>1 DEF Uncrossed, P!Slot
      <4> QED BY <1>0, <2>1, <2>4, <2>5, <3>1, <3>2, <4>1, <4>2 DEF Uncrossed
    <3>4. CASE \A x \in P!Slot \ {t} : call[c][x] = P!Idle
      <4>1. \A x \in P!Slot \ {t} : call'[c][x].at = "idle"
        BY <2>5, <3>4 DEF P!Idle
      <4>2. \A s \in P!Reads : call'[c][s].at = "done" => call'[c][s].val = P!profile
        BY <2>4, <2>5, <4>1 DEF P!Slot
      <4>3. \A s \in {"switch1", "switch2"} : call'[c][s].at = "idle"
        BY <2>1, <4>1 DEF P!Slot, P!Reads
      <4> QED BY <1>0, <2>1, <2>4, <2>5, <3>1, <4>2, <4>3 DEF Uncrossed
    <3> QED BY <2>6, <2>8, <3>3, <3>4
  <2> QED BY <1>0, <2>5, <2>6, <2>7, <2>8, AppStep DEF ProfileInv, ProfileType
<1>2. CASE P!Authorize(c)
  <2>7. beside' = beside  BY <1>2 DEF P!Authorize, P!history
  <2>1. PICK r :
          /\ call' = [call EXCEPT ![c] = [call[c] EXCEPT !["put"] = r]]
          /\ "at" \in DOMAIN r /\ "val" \in DOMAIN r
          /\ r.at # "done" \/ call[c]["put"].val = user.wallet
          /\ call[c]["put"].at = "sent"
    <3> DEFINE u == call[c]["put"]
    <3>1. "at" \in DOMAIN u /\ "val" \in DOMAIN u
      BY <1>2 DEF P!Authorize, ProfileInv, ProfileType, P!Slot
    <3>2. CASE P!Refused(c, "put")
      <4>1. call' = [call EXCEPT ![c] = [call[c] EXCEPT !["put"] = [u EXCEPT !.at = "refused"]]]
        BY <3>2 DEF P!Refused
      <4>2. [u EXCEPT !.at = "refused"].at = "refused"
            /\ DOMAIN [u EXCEPT !.at = "refused"] = DOMAIN u
        BY <3>1
      <4> QED BY <1>2, <3>1, <4>1, <4>2 DEF P!Authorize
    <3>3. CASE call[c]["put"].val = user.wallet /\ P!Done(c, "put")
      <4>1. call' = [call EXCEPT ![c] = [call[c] EXCEPT !["put"] = [u EXCEPT !.at = "done"]]]
        BY <3>3 DEF P!Done
      <4>2. DOMAIN [u EXCEPT !.at = "done"] = DOMAIN u
        BY <3>1
      <4> QED BY <1>2, <3>1, <3>3, <4>1, <4>2 DEF P!Authorize
    <3>4. CASE call' = [call EXCEPT ![c]["put"] = [at |-> "seen", what |-> "wallet", val |-> u.val,
                                                  replaces |-> user.wallet # "none"]]
      <4> DEFINE seen == [at |-> "seen", what |-> "wallet", val |-> u.val,
                          replaces |-> user.wallet # "none"]
      <4>1. "at" \in DOMAIN seen /\ "val" \in DOMAIN seen /\ seen.at = "seen"  OBVIOUS
      <4>2. call' = [call EXCEPT ![c] = [call[c] EXCEPT !["put"] = seen]]  BY <3>4
      <4> HIDE DEF seen
      <4>3. call[c]["put"].at = "sent"  BY <1>2 DEF P!Authorize
      <4> QED BY <4>1, <4>2, <4>3
    <3> QED BY <1>2, <3>2, <3>3, <3>4 DEF P!Authorize
  <2>3. "put" \in P!Slot  BY DEF P!Slot
  <2>5. /\ DOMAIN call' = Client /\ DOMAIN call'[c] = P!Slot
        /\ \A d \in Client \ {c} : call'[d] = call[d]
        /\ call'[c]["put"] = r
        /\ \A s \in P!Slot \ {"put"} : call'[c][s] = call[c][s]
        /\ \A s \in P!Slot : "at" \in DOMAIN call'[c][s]
        /\ \A s \in P!Slot : call'[c][s].at # "idle" => "val" \in DOMAIN call'[c][s]
        /\ \A s \in P!Reads : call'[c][s].at = "done" => IsCopy(call'[c][s].val)
    BY <2>1, <2>3, OneRequest DEF P!Reads
  <2>6. Held(c)' /\ (~beside'[c] => Uncrossed(c)')
    <3>1. /\ \A s \in P!Reads : call'[c][s] = call[c][s]
          /\ \A s \in {"switch1", "switch2"} : call'[c][s] = call[c][s]
          /\ call'[c]["reload"] = call[c]["reload"]
      BY <2>5 DEF P!Slot, P!Reads
    <3>2. Held(c)'  BY <1>0, <2>1, <2>5, <3>1 DEF ProfileInv, Held
    <3>3. ASSUME ~beside'[c] PROVE Uncrossed(c)'
      <4>1. Uncrossed(c) /\ P!profile' = P!profile
        BY <1>0, <2>7, <3>3 DEF ProfileInv, P!profile
      <4> QED BY <1>0, <2>1, <2>5, <3>1, <4>1 DEF Uncrossed
    <3> QED BY <3>2, <3>3
  <2> QED BY <1>0, <2>5, <2>6, <2>7, AppStep DEF ProfileInv, ProfileType
<1> QED BY <1>1, <1>2

\* A save that is stored crosses the other apps, and every other request of its own.
LEMMA Stores ==
    ASSUME ProfileInv, NEW c \in Client,
           P!updateLinks(c) \/ P!updateWallet(c)
    PROVE  ProfileInv'
<1> DEFINE u == call[c]["put"]
<1>1. /\ u.at \in {"sent", "seen"} /\ profilePage' = profilePage
      /\ \E x \in {"done", "refused"} :
          /\ call' = [call EXCEPT ![c] = [call[c] EXCEPT !["put"] = [u EXCEPT !.at = x]]]
          /\ x = "refused" => user' = user /\ beside' = beside
          /\ x = "done" =>
              /\ DOMAIN user' = DOMAIN user /\ user'.notify = user.notify
              /\ DOMAIN beside' = DOMAIN beside
              /\ \A d \in Client : beside[d] => beside'[d]
              /\ \A d \in Client \ {c} : beside'[d]
              /\ ~beside'[c] => \A s \in P!Slot : s # "put" => call[c][s] = P!Idle
  <2>1. CASE P!updateLinks(c)
    <3>1. CASE ~P!parseLinks(u.val)
      BY <2>1, <3>1 DEF P!updateLinks, P!Refused, P!history
    <3>2. CASE P!parseLinks(u.val)
      <4>1. /\ user' = [user EXCEPT !.links = P!normal(u.val)]
            /\ P!Done(c, "put") /\ P!Overlaps(c) /\ profilePage' = profilePage /\ u.at = "sent"
        BY <2>1, <3>2 DEF P!updateLinks
      <4>2. DOMAIN user' = DOMAIN user /\ user'.notify = user.notify
        BY <4>1 DEF ProfileInv, ProfileType
      <4>3. /\ DOMAIN beside' = DOMAIN beside
            /\ \A d \in Client : beside[d] => beside'[d]
            /\ \A d \in Client \ {c} : beside'[d]
            /\ ~beside'[c] => \A s \in P!Slot : s # "put" => call[c][s] = P!Idle
        BY <4>1, CreatorAssumption DEF P!Overlaps, ProfileInv, ProfileType, P!ProfileAssumption
      <4> QED BY <4>1, <4>2, <4>3 DEF P!Done
    <3> QED BY <3>1, <3>2
  <2>2. CASE P!updateWallet(c)
    <3>1. DOMAIN user' = DOMAIN user /\ user'.notify = user.notify
      BY <2>2 DEF P!updateWallet, ProfileInv, ProfileType
    <3>2. /\ DOMAIN beside' = DOMAIN beside
          /\ \A d \in Client : beside[d] => beside'[d]
          /\ \A d \in Client \ {c} : beside'[d]
          /\ ~beside'[c] => \A s \in P!Slot : s # "put" => call[c][s] = P!Idle
      BY <2>2, CreatorAssumption DEF P!updateWallet, ProfileInv, ProfileType, P!ProfileAssumption
    <3> QED BY <2>2, <3>1, <3>2 DEF P!updateWallet, P!Done
  <2> QED BY <2>1, <2>2
<1>2. PICK x \in {"done", "refused"} :
          /\ call' = [call EXCEPT ![c] = [call[c] EXCEPT !["put"] = [u EXCEPT !.at = x]]]
          /\ x = "refused" => user' = user /\ beside' = beside
          /\ x = "done" =>
              /\ DOMAIN user' = DOMAIN user /\ user'.notify = user.notify
              /\ DOMAIN beside' = DOMAIN beside
              /\ \A d \in Client : beside[d] => beside'[d]
              /\ \A d \in Client \ {c} : beside'[d]
              /\ ~beside'[c] => \A s \in P!Slot : s # "put" => call[c][s] = P!Idle
  BY <1>1
<1>3. /\ "put" \in P!Slot /\ "switch1" \in P!Slot /\ "switch2" \in P!Slot
      /\ P!Reads \subseteq P!Slot \ {"put"} /\ "reload" \in P!Reads /\ "put" \notin P!Reads
  BY DEF P!Slot, P!Reads
<1>4. /\ "at" \in DOMAIN u /\ "val" \in DOMAIN u
  BY <1>1, <1>3 DEF ProfileInv, ProfileType
<1>5. [u EXCEPT !.at = x].at = x /\ DOMAIN [u EXCEPT !.at = x] = DOMAIN u
  BY <1>4
<1>6. /\ DOMAIN call' = Client /\ DOMAIN call'[c] = P!Slot
      /\ \A d \in Client \ {c} : call'[d] = call[d]
      /\ call'[c]["put"] = [u EXCEPT !.at = x]
      /\ \A s \in P!Slot \ {"put"} : call'[c][s] = call[c][s]
      /\ \A s \in P!Slot : "at" \in DOMAIN call'[c][s]
      /\ \A s \in P!Slot : call'[c][s].at # "idle" => "val" \in DOMAIN call'[c][s]
      /\ \A s \in P!Reads : call'[c][s].at = "done" => IsCopy(call'[c][s].val)
  <2> DEFINE r == [u EXCEPT !.at = x]
  <2>1. /\ call' = [call EXCEPT ![c] = [call[c] EXCEPT !["put"] = r]]
        /\ "at" \in DOMAIN r /\ "val" \in DOMAIN r
    BY <1>2, <1>4, <1>5
  <2> HIDE DEF r
  <2>2. /\ DOMAIN call' = Client /\ DOMAIN call'[c] = P!Slot
        /\ \A d \in Client \ {c} : call'[d] = call[d]
        /\ call'[c]["put"] = r
        /\ \A s \in P!Slot \ {"put"} : call'[c][s] = call[c][s]
        /\ \A s \in P!Slot : "at" \in DOMAIN call'[c][s]
        /\ \A s \in P!Slot : call'[c][s].at # "idle" => "val" \in DOMAIN call'[c][s]
        /\ \A s \in P!Reads : call'[c][s].at = "done" => IsCopy(call'[c][s].val)
    BY <1>3, <2>1, OneRequest
  <2> QED BY <2>2 DEF r
<1>9. Held(c)'
  BY <1>1, <1>3, <1>6 DEF ProfileInv, Held
<1>7. ~beside'[c] => Uncrossed(c)'
  <2>1. CASE x = "refused"
    <3>1. /\ \A s \in P!Reads : call'[c][s] = call[c][s]
          /\ \A s \in {"switch1", "switch2"} : call'[c][s] = call[c][s]
          /\ call[c]["put"].at # "done"
      BY <1>1, <1>3, <1>6
    <3>2. ASSUME ~beside'[c] PROVE Uncrossed(c)'
      <4>1. Uncrossed(c) /\ P!profile' = P!profile /\ user' = user
        BY <1>2, <2>1, <3>2 DEF ProfileInv, P!profile
      <4> QED BY <1>1, <3>1, <4>1 DEF Uncrossed
    <3> QED BY <3>2
  <2>2. CASE x = "done"
    <3> SUFFICES ASSUME ~beside'[c] PROVE Uncrossed(c)'  OBVIOUS
    <3>1. ~beside[c] /\ (\A s \in P!Reads : call[c][s] = P!Idle)
          /\ call[c]["switch1"] = P!Idle /\ call[c]["switch2"] = P!Idle
      BY <1>2, <1>3, <2>2
    <3>2. P!Idle.at = "idle"  BY DEF P!Idle
    <3> QED BY <1>1, <1>2, <1>3, <1>5, <1>6, <2>2, <3>1, <3>2 DEF ProfileInv, Uncrossed
  <2> QED BY <2>1, <2>2
<1>8. DOMAIN user' = DOMAIN user /\ DOMAIN beside' = DOMAIN beside
      /\ (\A d \in Client : beside[d] => beside'[d])
      /\ (user' = user \/ \A d \in Client \ {c} : beside'[d])
  BY <1>2
<1> QED BY <1>1, <1>6, <1>7, <1>8, <1>9, AppStep DEF ProfileInv, ProfileType

LEMMA Switches ==
    ASSUME ProfileInv, NEW c \in Client, P!updateNotifications(c)
    PROVE  ProfileInv'
<1>1. PICK t \in {"switch1", "switch2"} :
          /\ call[c][t].at = "sent"
          /\ user' = [user EXCEPT !.notify = call[c][t].val]
          /\ P!Done(c, t)
          /\ beside' = [d \in DOMAIN beside |-> beside[d]
                \/ (d # "wallet" /\ (d # c \/ \E s \in P!Slot \ {t} : call[c][s] # P!Idle))]
          /\ profilePage' = profilePage
  BY DEF P!updateNotifications
<1> DEFINE u == call[c][t]
           r == [u EXCEPT !.at = "done"]
<1>2. t \in P!Slot /\ t \notin P!Reads /\ t # "put"  BY DEF P!Slot, P!Reads
<1>3. "at" \in DOMAIN u /\ "val" \in DOMAIN u
  BY <1>1, <1>2 DEF ProfileInv, ProfileType
<1>4. /\ call' = [call EXCEPT ![c] = [call[c] EXCEPT ![t] = r]]
      /\ r.at = "done" /\ r.val = u.val /\ DOMAIN r = DOMAIN u
  BY <1>1, <1>3 DEF P!Done
<1>5. /\ DOMAIN user' = DOMAIN user /\ user'.notify = u.val
      /\ user'.links = user.links /\ user'.wallet = user.wallet
  BY <1>1 DEF ProfileInv, ProfileType
<1>6. /\ DOMAIN beside' = DOMAIN beside
      /\ \A d \in Client : beside[d] => beside'[d]
      /\ \A d \in Client \ {c} : beside'[d]
      /\ ~beside'[c] => \A s \in P!Slot \ {t} : call[c][s] = P!Idle
  BY <1>1, CreatorAssumption DEF ProfileInv, ProfileType, P!ProfileAssumption
<1> HIDE DEF r
<1>7. /\ DOMAIN call' = Client /\ DOMAIN call'[c] = P!Slot
      /\ \A d \in Client \ {c} : call'[d] = call[d]
      /\ call'[c][t] = r
      /\ \A s \in P!Slot \ {t} : call'[c][s] = call[c][s]
      /\ \A s \in P!Slot : "at" \in DOMAIN call'[c][s]
      /\ \A s \in P!Slot : call'[c][s].at # "idle" => "val" \in DOMAIN call'[c][s]
      /\ \A s \in P!Reads : call'[c][s].at = "done" => IsCopy(call'[c][s].val)
  BY <1>2, <1>3, <1>4, OneRequest
<1>9. Held(c)'
  BY <1>1, <1>2, <1>7 DEF ProfileInv, Held, P!Slot, P!Reads
<1>8. ~beside'[c] => Uncrossed(c)'
  <2> SUFFICES ASSUME ~beside'[c] PROVE Uncrossed(c)'  OBVIOUS
  <2>1. P!Idle.at = "idle"  BY DEF P!Idle
  <2>2. ~beside[c] /\ \A s \in P!Slot \ {t} : call'[c][s].at = "idle" /\ call[c][s].at = "idle"
    BY <1>6, <1>7, <2>1
  <2>3. /\ \A s \in P!Reads : call'[c][s].at = "idle" /\ call[c][s].at = "idle"
        /\ call'[c]["put"].at = "idle" /\ call[c]["put"].at = "idle"
        /\ \A s \in {"switch1", "switch2"} : s # t => call'[c][s].at = "idle"
    BY <1>2, <2>2 DEF P!Slot, P!Reads
  <2> QED BY <1>1, <1>4, <1>5, <1>7, <2>2, <2>3 DEF ProfileInv, Uncrossed
<1> QED BY <1>1, <1>5, <1>6, <1>7, <1>8, <1>9, AppStep DEF ProfileInv, ProfileType

\* The screen opens; its requests are answered or lost.
LEMMA Idles ==
    ASSUME ProfileInv, NEW c \in Client, NEW t \in P!Slot, NEW s,
           call' = [call EXCEPT ![c][t] = P!Idle], user' = user,
           profilePage' = [profilePage EXCEPT ![c] = s],
           DOMAIN s = ScreenFields, IsCopy(s.p),
           DOMAIN beside' = DOMAIN beside, \A d \in Client : beside[d] => beside'[d],
           \A x \in {"put", "reload"} \ {t} :
                call[c][x].at # "idle" => s.busy = profilePage[c].busy,
           ~beside'[c] =>
                \/ /\ s.p = profilePage[c].p
                   /\ t \notin P!Reads
                   /\ t = "put" => call[c]["put"].at # "done"
                   /\ t \in {"switch1", "switch2"} => call[c][t].at # "done"
                \/ /\ t \in P!Reads /\ call[c][t].at = "done"
                   /\ s.p = call[c][t].val
                \/ /\ t \in {"switch1", "switch2"} /\ call[c][t].at = "done"
                   /\ s.p = [profilePage[c].p EXCEPT !.notify = call[c][t].val]
    PROVE  ProfileInv'
<1>1. P!Idle.at = "idle" /\ "at" \in DOMAIN P!Idle  BY DEF P!Idle
<1>2. /\ DOMAIN call' = Client /\ DOMAIN call'[c] = P!Slot
      /\ \A d \in Client \ {c} : call'[d] = call[d]
      /\ call'[c][t] = P!Idle
      /\ \A x \in P!Slot \ {t} : call'[c][x] = call[c][x]
      /\ \A x \in P!Slot : "at" \in DOMAIN call'[c][x]
      /\ \A x \in P!Slot : call'[c][x].at # "idle" => "val" \in DOMAIN call'[c][x]
      /\ \A x \in P!Reads : call'[c][x].at = "done" => IsCopy(call'[c][x].val)
  BY <1>1, OneRequest
<1>3. /\ DOMAIN profilePage' = Client /\ profilePage'[c] = s
      /\ \A d \in Client \ {c} : profilePage'[d] = profilePage[d]
  BY DEF ProfileInv, ProfileType
<1>5. \A x \in P!Slot : call'[c][x] = IF t = x THEN P!Idle ELSE call[c][x]
  BY <1>2
<1>6. Held(c)'
  BY <1>1, <1>3, <1>5 DEF ProfileInv, Held, P!Slot, P!Reads
<1>4. ASSUME ~beside'[c] PROVE Uncrossed(c)'
  <2>1. ~beside[c] /\ Uncrossed(c)  BY <1>4 DEF ProfileInv
  <2>2. /\ \A x \in P!Reads : call'[c][x] = IF t = x THEN P!Idle ELSE call[c][x]
        /\ call'[c]["put"] = IF t = "put" THEN P!Idle ELSE call[c]["put"]
        /\ \A x \in {"switch1", "switch2"} :
              call'[c][x] = IF t = x THEN P!Idle ELSE call[c][x]
    BY <1>5 DEF P!Slot
  <2>3. IsCopy(profilePage[c].p)  BY DEF ProfileInv, ProfileType
  <2>7. P!profile' = P!profile  BY DEF P!profile
  <2>8. \A x \in P!Reads \cup {"switch1", "switch2"} :
            call'[c][x].at = "done" => call'[c][x] = call[c][x]
    BY <1>1, <2>2
  <2>9. /\ \A x \in P!Reads : call'[c][x].at = "done" => call'[c][x].val = P!profile
        /\ \A x \in {"switch1", "switch2"} :
              call'[c][x].at = "done" => call'[c][x].val = user.notify
    BY <2>1, <2>8 DEF Uncrossed
  <2>4. CASE s.p = profilePage[c].p /\ t \notin P!Reads
              /\ (t = "put" => call[c]["put"].at # "done")
              /\ (t \in {"switch1", "switch2"} => call[c][t].at # "done")
    <3>1. \A x \in P!Reads : call'[c][x] = call[c][x]  BY <2>2, <2>4
    <3> QED BY <1>1, <1>3, <2>1, <2>2, <2>4, <2>7, <2>9, <3>1 DEF Uncrossed
  <2>5. CASE t \in P!Reads /\ call[c][t].at = "done" /\ s.p = call[c][t].val
    <3>1. s.p = P!profile  BY <2>1, <2>5 DEF Uncrossed
    <3>2. s.p.links = user.links /\ s.p.wallet = user.wallet /\ s.p.notify = user.notify
      BY <3>1 DEF P!profile
    <3> QED BY <1>3, <2>7, <2>9, <3>2 DEF Uncrossed
  <2>6. CASE t \in {"switch1", "switch2"} /\ call[c][t].at = "done"
              /\ s.p = [profilePage[c].p EXCEPT !.notify = call[c][t].val]
    <3>1. /\ s.p.links = profilePage[c].p.links /\ s.p.wallet = profilePage[c].p.wallet
          /\ s.p.here = profilePage[c].p.here /\ s.p.notify = call[c][t].val
      BY <2>3, <2>6 DEF IsCopy
    <3>2. call[c][t].val = user.notify /\ t \notin P!Reads /\ t # "put"
      BY <2>1, <2>6 DEF Uncrossed, P!Reads
    <3>3. (\A x \in P!Reads : call'[c][x] = call[c][x]) /\ call'[c]["put"] = call[c]["put"]
      BY <2>2, <3>2
    <3> QED BY <1>3, <2>1, <2>7, <2>9, <3>1, <3>2, <3>3 DEF Uncrossed
  <2> QED BY <1>4, <2>4, <2>5, <2>6
<1> QED BY <1>2, <1>3, <1>4, <1>6, AppStep DEF ProfileInv, ProfileType

LEMMA Answered ==
    ASSUME ProfileInv, NEW c \in Client,
           P!NotSaved(c) \/ P!Loaded(c) \/ P!Switched(c) \/ P!Lost(c)
    PROVE  ProfileInv'
<1>0. /\ DOMAIN profilePage = Client /\ DOMAIN profilePage[c] = ScreenFields
      /\ IsCopy(profilePage[c].p) /\ DOMAIN beside = Client \cup {"wallet"}
      /\ P!Slot = {"load", "reload", "put", "switch1", "switch2"} /\ P!Reads = {"load", "reload"}
      /\ Held(c)
  BY DEF ProfileInv, ProfileType, P!Slot, P!Reads
<1>1. CASE P!NotSaved(c)
  <2> DEFINE s == [profilePage[c] EXCEPT !.busy = FALSE]
  <2>1. /\ call' = [call EXCEPT ![c]["put"] = P!Idle] /\ user' = user /\ beside' = beside
        /\ profilePage' = [profilePage EXCEPT ![c] = s] /\ call[c]["put"].at = "refused"
    BY <1>1 DEF P!NotSaved, P!Set, P!history
  <2>2. DOMAIN s = ScreenFields /\ s.p = profilePage[c].p
    BY <1>0 DEF ScreenFields
  <2> HIDE DEF s
  <2>3. call[c]["reload"].at = "idle"  BY <1>0, <2>1 DEF Held
  <2> QED BY <1>0, <2>1, <2>2, <2>3, Idles
<1>2. CASE P!Loaded(c)
  <2>1. PICK t \in P!Reads :
          /\ call[c][t].at = "done" /\ call' = [call EXCEPT ![c][t] = P!Idle]
          /\ P!Set(c, [P!loaded(c, call[c][t].val) EXCEPT !.busy = @ /\ t = "load"])
          /\ user' = user /\ beside' = beside
    BY <1>2 DEF P!Loaded, P!history
  <2> DEFINE s == [P!loaded(c, call[c][t].val) EXCEPT !.busy = @ /\ t = "load"]
  <2>2. /\ DOMAIN s = ScreenFields /\ s.p = call[c][t].val
        /\ t = "load" => s.busy = (profilePage[c].busy /\ TRUE)
    BY <1>0 DEF ScreenFields, P!loaded, P!loadedWeb, P!loadedMini
  <2>4. profilePage' = [profilePage EXCEPT ![c] = s]  BY <2>1 DEF P!Set
  <2> HIDE DEF s
  <2>3. IsCopy(s.p)  BY <2>1, <2>2 DEF ProfileInv, ProfileType
  <2>5. \A x \in {"put", "reload"} \ {t} :
            call[c][x].at # "idle" => s.busy = profilePage[c].busy
    <3>1. CASE t = "load"
      <4>1. \A x \in {"put", "reload"} : call[c][x].at # "idle" => profilePage[c].busy
        BY <1>0 DEF Held
      <4> QED BY <2>2, <3>1, <4>1
    <3>2. CASE t = "reload"  BY <1>0, <2>1, <3>2 DEF Held
    <3> QED BY <1>0, <3>1, <3>2
  <2>6. t \in P!Slot  BY <1>0
  <2> QED BY <1>0, <2>1, <2>2, <2>3, <2>4, <2>5, <2>6, Idles
<1>3. CASE P!Switched(c)
  <2>1. PICK t \in {"switch1", "switch2"} :
          /\ call[c][t].at = "done"
          /\ profilePage' = [profilePage EXCEPT ![c] =
                [profilePage[c] EXCEPT !.p = [profilePage[c].p EXCEPT !.notify = call[c][t].val]]]
          /\ call' = [call EXCEPT ![c][t] = P!Idle]
          /\ user' = user /\ beside' = beside
    BY <1>3 DEF P!Switched, P!Set, P!history
  <2> DEFINE q == [profilePage[c].p EXCEPT !.notify = call[c][t].val]
             s == [profilePage[c] EXCEPT !.p = q]
  <2>2. IsCopy(q)  BY <1>0 DEF IsCopy
  <2>3. DOMAIN s = ScreenFields /\ s.p = q /\ s.busy = profilePage[c].busy
    BY <1>0 DEF ScreenFields
  <2>4. profilePage' = [profilePage EXCEPT ![c] = s]  BY <2>1
  <2>5. q = [profilePage[c].p EXCEPT !.notify = call[c][t].val]  OBVIOUS
  <2> HIDE DEF s, q
  <2>6. IsCopy(s.p) /\ s.p = [profilePage[c].p EXCEPT !.notify = call[c][t].val]
    BY <2>2, <2>3, <2>5
  <2>8. t \in P!Slot  BY <1>0
  <2>10. DOMAIN beside' = DOMAIN beside /\ \A d \in Client : beside[d] => beside'[d]
    BY <2>1
  <2> QED BY <2>1, <2>3, <2>4, <2>6, <2>8, <2>10, Idles
<1>4. CASE P!Lost(c)
  <2>1. PICK t \in P!Slot :
          /\ call' = [call EXCEPT ![c][t] = P!Idle] /\ call[c][t].at \in {"sent", "done"}
          /\ P!Set(c, [profilePage[c] EXCEPT !.error = @ \/ t \in P!Reads,
                                             !.busy = @ /\ t \notin {"reload", "put"}])
          /\ beside' = [beside EXCEPT ![c] = TRUE] /\ user' = user
    BY <1>4 DEF P!Lost
  <2> DEFINE s == [profilePage[c] EXCEPT !.error = @ \/ t \in P!Reads,
                                         !.busy = @ /\ t \notin {"reload", "put"}]
  <2>2. /\ DOMAIN s = ScreenFields /\ s.p = profilePage[c].p
        /\ s.busy = (profilePage[c].busy /\ t \notin {"reload", "put"})
    BY <1>0 DEF ScreenFields
  <2>3. profilePage' = [profilePage EXCEPT ![c] = s]  BY <2>1 DEF P!Set
  <2> HIDE DEF s
  <2>4. /\ DOMAIN beside' = DOMAIN beside /\ beside'[c]
        /\ \A d \in Client : beside[d] => beside'[d]
    BY <1>0, <2>1
  <2>5. \A x \in {"put", "reload"} \ {t} :
            call[c][x].at # "idle" => s.busy = profilePage[c].busy
    <3>1. CASE t \in {"reload", "put"}  BY <1>0, <2>1, <3>1 DEF Held
    <3>2. CASE t \notin {"reload", "put"}
      <4>1. \A x \in {"put", "reload"} : call[c][x].at # "idle" => profilePage[c].busy
        BY <1>0 DEF Held
      <4> QED BY <2>2, <3>2, <4>1
    <3> QED BY <3>1, <3>2
  <2> QED BY <1>0, <2>1, <2>2, <2>3, <2>4, <2>5, Idles
<1> QED BY <1>1, <1>2, <1>3, <1>4

\* The screen reads the profile, for the first time, again, or after a save.
LEMMA Rereads ==
    ASSUME ProfileInv, NEW c \in Client, P!Load(c) \/ P!Saved(c)
    PROVE  ProfileInv'
<1> DEFINE r == [at |-> "sent", what |-> "load", val |-> P!Nothing]
<1>0. DOMAIN profilePage = Client /\ DOMAIN profilePage[c] = ScreenFields
      /\ IsCopy(profilePage[c].p) /\ DOMAIN call = Client /\ DOMAIN call[c] = P!Slot
      /\ P!Slot = {"load", "reload", "put", "switch1", "switch2"} /\ P!Reads = {"load", "reload"}
      /\ Held(c) /\ (~beside[c] => Uncrossed(c))
  BY DEF ProfileInv, ProfileType, P!Slot, P!Reads
<1>1. /\ user' = user /\ beside' = beside
      /\ DOMAIN call' = Client /\ DOMAIN call'[c] = P!Slot
      /\ \A d \in Client \ {c} : call'[d] = call[d]
      /\ \A s \in {"switch1", "switch2"} : call'[c][s] = call[c][s]
      /\ \/ /\ call'[c]["load"] = r /\ call'[c]["put"] = call[c]["put"]
            /\ call'[c]["reload"] = call[c]["reload"]
         \/ /\ call'[c]["reload"] = r /\ call'[c]["put"] = P!Idle
            /\ call'[c]["load"] = call[c]["load"] /\ call[c]["put"].at = "done"
  <2>1. CASE P!Load(c)
    BY <1>0, <2>1 DEF P!Load, P!Asks, P!history
  <2>2. CASE P!Saved(c)
    BY <1>0, <2>2 DEF P!Saved, P!history
  <2> QED BY <2>1, <2>2
<1>2. PICK s : /\ profilePage' = [profilePage EXCEPT ![c] = s]
               /\ DOMAIN s = ScreenFields /\ s.p = profilePage[c].p
               /\ s.busy = profilePage[c].busy
  <2>1. CASE P!Load(c)
    <3> DEFINE t == [profilePage[c] EXCEPT !.error = FALSE]
    <3>1. DOMAIN t = ScreenFields /\ t.p = profilePage[c].p /\ t.busy = profilePage[c].busy
      BY <1>0 DEF ScreenFields
    <3>2. profilePage' = [profilePage EXCEPT ![c] = t]  BY <2>1 DEF P!Load, P!Set
    <3> HIDE DEF t
    <3> QED BY <3>1, <3>2
  <2>2. CASE P!Saved(c)
    <3> DEFINE t == IF call[c]["put"].what = "links"
                    THEN [profilePage[c] EXCEPT !.editing = FALSE, !.error = FALSE]
                    ELSE [profilePage[c] EXCEPT !.editingWallet = FALSE, !.error = FALSE]
    <3>1. DOMAIN t = ScreenFields /\ t.p = profilePage[c].p /\ t.busy = profilePage[c].busy
      BY <1>0 DEF ScreenFields
    <3>2. profilePage' = [profilePage EXCEPT ![c] = t]  BY <2>2 DEF P!Saved, P!Set
    <3> HIDE DEF t
    <3> QED BY <3>1, <3>2
  <2> QED BY <2>1, <2>2
<1>3. /\ DOMAIN profilePage' = Client /\ profilePage'[c] = s
      /\ \A d \in Client \ {c} : profilePage'[d] = profilePage[d]
  BY <1>0, <1>2
<1>4. P!Idle.at = "idle" /\ "at" \in DOMAIN P!Idle /\ "at" \in DOMAIN r /\ "val" \in DOMAIN r
      /\ r.at = "sent"
  BY DEF P!Idle
<1> HIDE DEF r
<1>5. /\ \A x \in P!Slot : "at" \in DOMAIN call'[c][x]
      /\ \A x \in P!Slot : call'[c][x].at # "idle" => "val" \in DOMAIN call'[c][x]
      /\ \A x \in P!Reads : call'[c][x].at = "done" => IsCopy(call'[c][x].val)
  BY <1>0, <1>1, <1>4 DEF ProfileInv, ProfileType
<1>7. Held(c)'
  BY <1>0, <1>1, <1>2, <1>3, <1>4 DEF Held
<1>6. ASSUME ~beside'[c] PROVE Uncrossed(c)'
  <2>1. Uncrossed(c)  BY <1>0, <1>1, <1>6
  <2>2. P!profile' = P!profile  BY <1>1 DEF P!profile
  <2>3. \A x \in P!Reads : call'[c][x].at = "done" => call'[c][x].val = P!profile
    BY <1>0, <1>1, <1>4, <2>1 DEF Uncrossed
  <2>4. ~\A x \in P!Reads : call'[c][x].at = "idle"
    BY <1>0, <1>1, <1>4
  <2> QED BY <1>1, <2>1, <2>2, <2>3, <2>4 DEF Uncrossed
<1> QED BY <1>0, <1>1, <1>2, <1>3, <1>4, <1>5, <1>6, <1>7, AppStep DEF ProfileInv, ProfileType

LEMMA ProfileStepKeeps == ProfileInv /\ [Next]_vars => ProfileInv'
<1> SUFFICES ASSUME ProfileInv, [Next]_vars PROVE ProfileInv'  OBVIOUS
<1>1. CASE UNCHANGED profileVars
  BY <1>1 DEF ProfileInv, ProfileType, Held, Uncrossed, P!profile, profileVars
<1>2. CASE P!Next
  <2>1. PICK c \in Client :
            \/ P!Load(c) \/ P!startLinks(c) \/ P!TypeLink(c) \/ P!addLink(c) \/ P!removeLink(c)
            \/ P!saveLinks(c) \/ P!startWallet(c) \/ P!saveWallet(c) \/ P!Cancel(c)
            \/ P!toggleNewOrders(c) \/ P!Read(c) \/ P!updateLinks(c) \/ P!Authorize(c)
            \/ P!updateWallet(c) \/ P!updateNotifications(c) \/ P!Saved(c) \/ P!NotSaved(c)
            \/ P!Loaded(c) \/ P!Switched(c) \/ P!Lost(c)
    BY <1>2 DEF P!Next
  <2> QED BY <2>1, ByHand, HandSends, ServerLooks, Stores, Switches, Answered, Rereads
<1> QED BY <1>1, <1>2 DEF Next, CatalogStep, WorkStep, ProfileStep, BalanceStep, vars, profileVars

\* A quiet profile screen shows what is stored, unless since its last read that was
\* alone a save ran beside another of its requests, a request was lost or the other
\* app saved (Profile.tsx, ProfileView.tsx): for any links, wallets and requests.
THEOREM QuietAlwaysStored == Spec => []QuietShowsStored
<1>1. ProfileInv => QuietShowsStored
  <2> SUFFICES ASSUME ProfileInv, NEW c \in Client, P!Shows(c), ~beside[c],
                      \A s \in P!Slot : call[c][s] = P!Idle
               PROVE  profilePage[c].p = P!profile
    BY DEF QuietShowsStored, P!QuietShowsStored
  <2>1. /\ \A s \in {"put", "switch1", "switch2"} : call[c][s].at = "idle"
        /\ \A s \in P!Reads : call[c][s].at = "idle"
    BY DEF P!Slot, P!Idle
  <2>2. Uncrossed(c) /\ profilePage[c].p.here /\ IsCopy(profilePage[c].p)
    BY DEF ProfileInv, ProfileType, P!Shows
  <2>3. /\ profilePage[c].p.links = user.links /\ profilePage[c].p.wallet = user.wallet
        /\ profilePage[c].p.notify = user.notify
    BY <2>1, <2>2 DEF Uncrossed
  <2> QED BY <2>2, <2>3 DEF IsCopy, P!profile
<1> QED BY <1>1, ProfileInit, ProfileStepKeeps, PTL DEF Spec


-----------------------------------------------------------------------------
(* Work on an order *)

RowFields == {"status", "views", "payout", "agreed", "accept"}

\* What a video on review was agreed to for.
IsAgreed(r) ==
    r.agreed > 0 /\ r.status = "SUBMITTED" =>
        r.accept > 0 /\ r.agreed >= r.accept /\ r.payout = r.agreed

RowsInv ==
    /\ \E S : rows \in Seq(S)
    /\ \A i \in DOMAIN rows : DOMAIN rows[i] = RowFields /\ IsAgreed(rows[i])

\* A request to send a video carries the sum agreed to, or none; an answer that asks
\* for a yes names a sum.
IsMessage(c) ==
    /\ "kind" \in DOMAIN c
    /\ c.kind = "send" =>
        /\ "accept" \in DOMAIN c /\ c.accept \in Nat
        /\ W!Served(c) /\ c.answer = "over" => c.payout \in Int

\* The page that submits a video holds the sum it asks for.
IsPage(p) ==
    /\ "name" \in DOMAIN p
    /\ p.name = "submit" => "over" \in DOMAIN p /\ p.over \in Int

WorkInv ==
    /\ RowsInv
    /\ DOMAIN order = {"status", "held", "counts"} /\ order.held \in Int
    /\ IsPage(page)
    /\ \A c \in net : IsMessage(c)

LEMMA WorkInit == Init => WorkInv
<1> SUFFICES ASSUME W!Init PROVE WorkInv  BY DEF Init
<1>1. rows = <<>> /\ page = W!OrderPage /\ net = {W!Loading("order")}  BY DEF W!Init
<1>2. RowsInv
  <2>1. <<>> \in Seq({}) /\ DOMAIN <<>> = {}  OBVIOUS
  <2> QED BY <1>1, <2>1 DEF RowsInv
<1>3. DOMAIN order = {"status", "held", "counts"} /\ order.held \in Int  BY DEF W!Init
<1>4. IsPage(page)  BY <1>1 DEF IsPage, W!OrderPage
<1>5. \A c \in net : IsMessage(c)  BY <1>1 DEF IsMessage, W!Loading
<1> QED BY <1>2, <1>3, <1>4, <1>5 DEF WorkInv

\* Each row has a number, and what the rows hold is one.
LEMMA RowNumbers ==
    ASSUME RowsInv
    PROVE  /\ Len(rows) \in Nat /\ DOMAIN rows = 1 .. Len(rows)
           /\ rows = [i \in 1 .. Len(rows) |-> rows[i]]
           /\ \A statuses : W!Held(statuses) \in Nat
<1>1. PICK S : rows \in Seq(S)  BY DEF RowsInv
<1>2. /\ Len(rows) \in Nat /\ DOMAIN rows = 1 .. Len(rows)
      /\ rows = [i \in 1 .. Len(rows) |-> rows[i]]
  BY <1>1
<1>3. ASSUME NEW statuses PROVE W!Held(statuses) \in Nat
  <2> DEFINE n == Len(rows)
             held == {part \in (DOMAIN rows) \X (1 .. Pool) :
                LET row == rows[part[1]] IN row.status \in statuses /\ part[2] <= row.payout}
  <2>1. n \in Nat /\ DOMAIN rows = 1 .. n /\ Pool \in Nat
    BY <1>2, CreatorAssumption DEF W!WorkAssumption
  <2> HIDE DEF n
  <2>2. IsFiniteSet(1 .. n) /\ IsFiniteSet(1 .. Pool)  BY <2>1, FS_Interval
  <2>3. IsFiniteSet((1 .. n) \X (1 .. Pool))  BY <2>2, FS_Product
  <2>4. IsFiniteSet(held)  BY <2>1, <2>3, FS_Subset
  <2>5. W!Held(statuses) = Cardinality(held)  BY DEF W!Held, W!Cardinality, Cardinality
  <2> QED BY <2>4, <2>5, FS_CardinalityType
<1> QED BY <1>2, <1>3

LEMMA FreeType == ASSUME WorkInv PROVE W!free \in Int
<1>1. Pool \in Nat /\ order.held \in Int /\ W!Held(W!HoldsMoney) \in Nat
  BY RowNumbers, CreatorAssumption DEF WorkInv, W!WorkAssumption
<1> QED BY <1>1 DEF W!free

-----------------------------------------------------------------------------
(* Rows *)

LEMMA SlotTaken == ASSUME RowsInv, rows' = W!Claimed PROVE RowsInv'
<1> DEFINE new == [status |-> "IN_PROGRESS", views |-> 0, payout |-> 0, agreed |-> 0,
                   accept |-> 0]
<1>1. DOMAIN new = RowFields /\ IsAgreed(new)  BY DEF RowFields, IsAgreed
<1>2. PICK S : rows \in Seq(S)  BY DEF RowsInv
<1>3. rows' = Append(rows, new)  BY DEF W!Claimed
<1> HIDE DEF new
<1>4. rows \in Seq(S \cup {new})
  <2>1. DOMAIN rows = 1 .. Len(rows) /\ Len(rows) \in Nat /\ \A i \in 1 .. Len(rows) : rows[i] \in S
    BY <1>2
  <2> QED BY <1>2, <2>1
<1>5. /\ rows' \in Seq(S \cup {new}) /\ Len(rows') = Len(rows) + 1
      /\ \A i \in 1 .. Len(rows) : rows'[i] = rows[i]
      /\ rows'[Len(rows) + 1] = new
  BY <1>3, <1>4, AppendProperties
<1>6. DOMAIN rows' = 1 .. Len(rows) + 1 /\ Len(rows) \in Nat  BY <1>4, <1>5
<1>7. ASSUME NEW i \in DOMAIN rows' PROVE DOMAIN rows'[i] = RowFields /\ IsAgreed(rows'[i])
  <2>1. CASE i = Len(rows) + 1  BY <1>1, <1>5, <2>1
  <2>2. CASE i # Len(rows) + 1
    <3>1. i \in 1 .. Len(rows)  BY <1>6, <2>2
    <3>2. DOMAIN rows = 1 .. Len(rows)  BY <1>2
    <3> QED BY <1>5, <3>1, <3>2 DEF RowsInv
  <2> QED BY <2>1, <2>2
<1> QED BY <1>5, <1>7 DEF RowsInv, IsAgreed

\* One row changes.
LEMMA RowChanged ==
    ASSUME RowsInv, NEW i \in DOMAIN rows, NEW r, rows' = [rows EXCEPT ![i] = r],
           DOMAIN r = RowFields, IsAgreed(r)
    PROVE  RowsInv'
<1>1. PICK S : rows \in Seq(S)  BY DEF RowsInv
<1>2. /\ Len(rows) \in Nat /\ DOMAIN rows = 1 .. Len(rows)
      /\ \A j \in DOMAIN rows : rows[j] \in S
      /\ rows = [j \in 1 .. Len(rows) |-> rows[j]]
  BY <1>1
<1>3. rows' = [j \in 1 .. Len(rows) |-> IF j = i THEN r ELSE rows[j]]  BY <1>2
<1>4. rows' \in Seq(S \cup {r})  BY <1>2, <1>3
<1>5. \A j \in DOMAIN rows' : DOMAIN rows'[j] = RowFields /\ IsAgreed(rows'[j])
  BY <1>2, <1>3 DEF RowsInv
<1> QED BY <1>4, <1>5 DEF RowsInv, IsAgreed

\* Whoever is asked has said yes to no more than there is.
LEMMA YesToASum ==
    ASSUME NEW over, NEW free \in Int, NEW accept \in Nat,
           ~(over /\ (accept = 0 \/ accept > free))
    PROVE  LET sum == IF over THEN free ELSE minViews
               limit == IF over THEN free ELSE 0
           IN  limit > 0 => accept > 0 /\ limit >= accept /\ sum = limit
<1>1. CASE over
  <2>1. accept # 0 /\ ~(accept > free)  BY <1>1
  <2>2. accept > 0 /\ free >= accept  BY <2>1
  <2> QED BY <1>1, <2>2
<1>2. CASE ~over
  <2>1. ~(0 > 0)  OBVIOUS
  <2> QED BY <1>2, <2>1
<1> QED BY <1>1, <1>2

\* A video is taken for less than it may cost only with a yes to a sum that is there.
LEMMA VideoTaken ==
    ASSUME WorkInv, NEW i, NEW views, NEW accept \in Nat,
           W!submitRefused(i, views, accept) = "", rows' = W!Submitted(i, views, accept)
    PROVE  RowsInv'
<1> DEFINE over == W!counted(views) > W!free
           sum == IF over THEN W!free ELSE minViews
           limit == IF over THEN W!free ELSE 0
           n == W!counted(views)
<1>1. ~W!overBudget(views, accept)  BY DEF W!submitRefused
<1>2. W!free \in Int  BY FreeType
<1>3. limit > 0 => accept > 0 /\ limit >= accept /\ sum = limit
  BY <1>1, <1>2, YesToASum DEF W!overBudget
<1>4. rows' = [rows EXCEPT ![i].status = "SUBMITTED", ![i].accept = accept, ![i].views = n,
                           ![i].payout = sum, ![i].agreed = limit]
  BY DEF W!Submitted
<1> HIDE DEF over, sum, limit, n
<1> DEFINE r == [rows[i] EXCEPT !.status = "SUBMITTED", !.accept = accept, !.views = n,
                                !.payout = sum, !.agreed = limit]
<1>5. rows' = [rows EXCEPT ![i] = r]  BY <1>4 DEF RowsInv, WorkInv
<1>6. CASE i \notin DOMAIN rows
  <2>1. rows' = rows
    <3>1. rows = [j \in 1 .. Len(rows) |-> rows[j]] /\ DOMAIN rows = 1 .. Len(rows)
      BY RowNumbers DEF WorkInv
    <3> HIDE DEF r
    <3>2. rows' = [j \in 1 .. Len(rows) |-> IF j = i THEN r ELSE rows[j]]  BY <1>5, <3>1
    <3> QED BY <1>6, <3>1, <3>2
  <2> QED BY <2>1 DEF WorkInv, RowsInv, IsAgreed
<1>7. CASE i \in DOMAIN rows
  <2>1. DOMAIN rows[i] = RowFields  BY <1>7 DEF WorkInv, RowsInv
  <2>2. /\ DOMAIN r = RowFields /\ r.agreed = limit /\ r.accept = accept /\ r.payout = sum
    BY <1>7, <2>1 DEF RowFields
  <2>3. IsAgreed(r)  BY <1>3, <2>2 DEF IsAgreed
  <2> HIDE DEF r
  <2> QED BY <1>5, <1>7, <2>2, <2>3, RowChanged DEF WorkInv
<1> QED BY <1>6, <1>7

LEMMA OthersRows ==
    ASSUME WorkInv, NEW i \in DOMAIN rows, W!Decide(i) \/ W!SlotExpires(i)
    PROVE  RowsInv'
<1>1. DOMAIN rows[i] = RowFields  BY DEF WorkInv, RowsInv
<1>2. ASSUME NEW payout, W!Decided(i, payout)
      PROVE  RowsInv'
  <2> DEFINE status == IF payout > 0 THEN "MODERATOR_APPROVED" ELSE "MODERATOR_REJECTED"
             r == [rows[i] EXCEPT !.status = status, !.payout = payout]
  <2>1. rows' = [rows EXCEPT ![i] = r]
    <3>1. rows' = [rows EXCEPT ![i].status = status, ![i].payout = payout]
      BY <1>2 DEF W!Decided
    <3> HIDE DEF status
    <3> QED BY <3>1 DEF WorkInv, RowsInv
  <2>2. status # "SUBMITTED"  OBVIOUS
  <2> HIDE DEF status
  <2>3. DOMAIN r = RowFields /\ r.status = status  BY <1>1 DEF RowFields
  <2>4. IsAgreed(r)  BY <2>2, <2>3 DEF IsAgreed
  <2> HIDE DEF r
  <2> QED BY <2>1, <2>3, <2>4, RowChanged DEF WorkInv
<1>3. CASE W!SlotExpires(i)
  <2> DEFINE r == [rows[i] EXCEPT !.status = "SLOT_EXPIRED"]
  <2>1. rows' = [rows EXCEPT ![i] = r]  BY <1>3 DEF W!SlotExpires, WorkInv, RowsInv
  <2>2. DOMAIN r = RowFields /\ r.status = "SLOT_EXPIRED"  BY <1>1 DEF RowFields
  <2>3. IsAgreed(r)  BY <2>2 DEF IsAgreed
  <2> HIDE DEF r
  <2> QED BY <2>1, <2>2, <2>3, RowChanged DEF WorkInv
<1> QED BY <1>2, <1>3 DEF W!Decide

LEMMA RemovedRows == ASSUME WorkInv, W!OrderRemoved PROVE RowsInv'
<1> DEFINE after(r) == CASE r.status = "IN_PROGRESS" -> [r EXCEPT !.status = "SLOT_EXPIRED"]
                         [] r.status = "SUBMITTED" ->
                              [r EXCEPT !.status = "MODERATOR_REJECTED", !.payout = 0]
                         [] OTHER -> r
<1>1. rows' = [i \in DOMAIN rows |-> after(rows[i])]  BY DEF W!OrderRemoved
<1>2. ASSUME NEW r, DOMAIN r = RowFields, IsAgreed(r)
      PROVE  DOMAIN after(r) = RowFields /\ IsAgreed(after(r))
  <2>1. CASE r.status = "IN_PROGRESS"
    <3>1. after(r) = [r EXCEPT !.status = "SLOT_EXPIRED"]  BY <2>1
    <3>2. DOMAIN after(r) = RowFields /\ after(r).status = "SLOT_EXPIRED"
      BY <1>2, <3>1 DEF RowFields
    <3> QED BY <3>2 DEF IsAgreed
  <2>2. CASE r.status = "SUBMITTED"
    <3>1. after(r) = [r EXCEPT !.status = "MODERATOR_REJECTED", !.payout = 0]  BY <2>2
    <3>2. DOMAIN after(r) = RowFields /\ after(r).status = "MODERATOR_REJECTED"
      BY <1>2, <3>1 DEF RowFields
    <3> QED BY <3>2 DEF IsAgreed
  <2>3. CASE r.status \notin {"IN_PROGRESS", "SUBMITTED"}
    <3>1. after(r) = r  BY <2>3
    <3> QED BY <1>2, <3>1
  <2> QED BY <2>1, <2>2, <2>3
<1> HIDE DEF after
<1>3. PICK S : rows \in Seq(S)  BY DEF WorkInv, RowsInv
<1>4. Len(rows) \in Nat /\ DOMAIN rows = 1 .. Len(rows)  BY <1>3
<1>5. rows' \in Seq({after(rows[i]) : i \in DOMAIN rows})  BY <1>1, <1>4
<1>6. \A i \in DOMAIN rows' : DOMAIN rows'[i] = RowFields /\ IsAgreed(rows'[i])
  BY <1>1, <1>2 DEF WorkInv, RowsInv
<1> QED BY <1>5, <1>6 DEF RowsInv, IsAgreed

-----------------------------------------------------------------------------
(* Messages and pages *)

\* What becomes of a message or a page but for what it says of the sum is of no matter.
LEMMA MessageKept ==
    ASSUME NEW c, IsMessage(c)
    PROVE  /\ IsMessage(W!Old(c)) /\ IsMessage([c EXCEPT !.heard = FALSE])
           /\ IsMessage(W!And(c, [answer |-> IF W!IsWrite(c) THEN "lost" ELSE None]))
<1>1. IsMessage(W!Old(c)) /\ IsMessage([c EXCEPT !.heard = FALSE])
  BY DEF IsMessage, W!Old, W!Served
<1>2. IsMessage(W!And(c, [answer |-> IF W!IsWrite(c) THEN "lost" ELSE None]))
  <2> DEFINE a == IF W!IsWrite(c) THEN "lost" ELSE None
             d == W!And(c, [answer |-> a])
  <2>1. c.kind = "send" => a = "lost"  BY DEF W!IsWrite
  <2> HIDE DEF a
  <2>2. /\ DOMAIN d = DOMAIN c \cup {"answer"} /\ d.answer = a
        /\ \A f \in DOMAIN c \ {"answer"} : d[f] = c[f]
    BY DEF W!And
  <2> HIDE DEF d
  <2>3. d.kind = c.kind /\ "kind" \in DOMAIN d  BY <2>2 DEF IsMessage
  <2>4. d.kind = "send" => "accept" \in DOMAIN d /\ d.accept \in Nat /\ d.answer # "over"
    BY <2>1, <2>2, <2>3 DEF IsMessage
  <2>5. IsMessage(d)  BY <2>3, <2>4 DEF IsMessage
  <2> QED BY <2>5 DEF a, d
<1> QED BY <1>1, <1>2

LEMMA MessageAnswered ==
    ASSUME WorkInv, NEW c, IsMessage(c), NEW why
    PROVE  IsMessage(W!With(c, why))
<1> DEFINE sum == IF why = "over" THEN W!free ELSE 0
           d == W!And(c, [answer |-> why, payout |-> sum])
<1>1. sum \in Int  BY FreeType
<1> HIDE DEF sum
<1>2. /\ DOMAIN d = DOMAIN c \cup {"answer", "payout"} /\ d.payout = sum
      /\ \A f \in DOMAIN c \ {"answer", "payout"} : d[f] = c[f]
  BY DEF W!And
<1> HIDE DEF d
<1>3. IsMessage(d)  BY <1>1, <1>2 DEF IsMessage
<1> QED BY <1>3 DEF W!With, d, sum

LEMMA PageKept == ASSUME NEW p, IsPage(p) PROVE IsPage(W!Old(p))
BY DEF IsPage, W!Old

LEMMA LoadingIs == ASSUME NEW kind \in {"order", "poll", "list"} PROVE IsMessage(W!Loading(kind))
BY DEF IsMessage, W!Loading

\* What is left of WorkInv where rows and order stay.
LEMMA OnScreen ==
    ASSUME WorkInv, UNCHANGED <<order, rows>>, IsPage(page'), \A c \in net' : IsMessage(c)
    PROVE  WorkInv'
BY DEF WorkInv, RowsInv, IsAgreed, IsPage, IsMessage, W!Served

LEMMA PageOpened ==
    ASSUME WorkInv, NEW p, IsPage(p), NEW kind \in {"order", "list"}, W!Kind(p.name) = kind,
           W!Open(p)
    PROVE  WorkInv'
<1>1. /\ page' = p /\ UNCHANGED <<order, rows>>
      /\ \A c \in net' : \/ \E d \in net : c = [d EXCEPT !.heard = FALSE]
                         \/ c = W!Loading(kind)
  BY DEF W!Open
<1>2. \A c \in net' : IsMessage(c)  BY <1>1, MessageKept, LoadingIs DEF WorkInv
<1> QED BY <1>1, <1>2, OnScreen

-----------------------------------------------------------------------------
(* Steps of the work on an order *)

\* What others do makes the screen and the answers old, no more.
LEMMA OthersDid ==
    ASSUME WorkInv, W!Outside, RowsInv', DOMAIN order' = DOMAIN order, order'.held \in Int
    PROVE  WorkInv'
<1>1. page' = W!Old(page) /\ net' = {W!Old(c) : c \in net}  BY DEF W!Outside
<1>2. IsPage(page')  BY <1>1, PageKept DEF WorkInv
<1>3. \A c \in net' : IsMessage(c)  BY <1>1, MessageKept DEF WorkInv
<1> QED BY <1>2, <1>3 DEF WorkInv, IsPage, IsMessage, W!Served

LEMMA OthersWork == ASSUME WorkInv, W!Others PROVE WorkInv'
<1>1. DOMAIN order = {"status", "held", "counts"} /\ order.held \in Int  BY DEF WorkInv
<1>2. ASSUME NEW n \in 0 .. Pool, W!OthersHold(n) PROVE WorkInv'
  <2>1. DOMAIN order' = DOMAIN order /\ order'.held \in Int
    BY <1>1, <1>2 DEF W!OthersHold
  <2>2. RowsInv'  BY <1>2 DEF W!OthersHold, WorkInv, RowsInv, IsAgreed
  <2> QED BY <1>2, <2>1, <2>2, OthersDid DEF W!OthersHold
<1>3. ASSUME NEW s, W!OrderMoves(s) PROVE WorkInv'
  <2>1. DOMAIN order' = DOMAIN order /\ order'.held \in Int
    BY <1>1, <1>3 DEF W!OrderMoves
  <2>2. RowsInv'  BY <1>3 DEF W!OrderMoves, WorkInv, RowsInv, IsAgreed
  <2> QED BY <1>3, <2>1, <2>2, OthersDid DEF W!OrderMoves
<1>4. CASE W!OrderRemoved
  <2>1. DOMAIN order' = DOMAIN order /\ order'.held \in Int
    <3> DEFINE o == [order EXCEPT !.status = "REJECTED"]
    <3>1. order' = [o EXCEPT !.held = 0]  BY <1>4 DEF W!OrderRemoved
    <3>2. DOMAIN o = DOMAIN order  OBVIOUS
    <3> HIDE DEF o
    <3> QED BY <1>1, <3>1, <3>2
  <2> QED BY <1>4, <2>1, RemovedRows, OthersDid DEF W!OrderRemoved
<1>5. CASE W!Elsewhere
  <2>1. RowsInv'
    <3>1. CASE rows' = W!Claimed  BY <3>1, SlotTaken DEF WorkInv
    <3>2. CASE \E i \in W!inProgress, views \in Views :
                  W!submitRefused(i, views, 0) = "" /\ rows' = W!Submitted(i, views, 0)
      <4>1. PICK i \in W!inProgress, views \in Views :
                  W!submitRefused(i, views, 0) = "" /\ rows' = W!Submitted(i, views, 0)
        BY <3>2
      <4>2. i \in DOMAIN rows  BY DEF W!inProgress
      <4> QED BY <4>1, <4>2, VideoTaken
    <3> QED BY <1>5, <3>1, <3>2 DEF W!Elsewhere
  <2> QED BY <1>1, <1>5, <2>1, OthersDid DEF W!Elsewhere
<1>6. ASSUME NEW i \in DOMAIN rows, W!Decide(i) \/ W!SlotExpires(i) PROVE WorkInv'
  <2>1. W!Outside /\ (order' = order \/ order' = [order EXCEPT !.status = "CLOSED"])
    BY <1>6 DEF W!Decide, W!Decided, W!SlotExpires
  <2>2. DOMAIN order' = DOMAIN order /\ order'.held \in Int  BY <1>1, <2>1
  <2> QED BY <1>6, <2>1, <2>2, OthersRows, OthersDid
<1> QED BY <1>2, <1>3, <1>4, <1>5, <1>6 DEF W!Others

\* The server answers a write.
LEMMA WriteAnswered ==
    ASSUME WorkInv, NEW c \in net, NEW why, W!Answer(c, why), RowsInv'
    PROVE  WorkInv'
<1> DEFINE answered == IF c.heard THEN {W!With(c, why)} ELSE {}
<1>1. /\ order' = order /\ (page' = page \/ page' = W!Old(page))
      /\ \/ net' = (net \ {c}) \cup answered
         \/ net' = {W!Old(d) : d \in net \ {c}} \cup answered
  BY DEF W!Answer
<1>2. \A d \in answered : IsMessage(d)  BY MessageAnswered DEF WorkInv
<1> HIDE DEF answered
<1>3. IsPage(page')  BY <1>1, PageKept DEF WorkInv
<1>4. \A d \in net' : IsMessage(d)  BY <1>1, <1>2, MessageKept DEF WorkInv
<1> QED BY <1>1, <1>3, <1>4 DEF WorkInv, IsPage, IsMessage, W!Served

LEMMA ServerWork ==
    ASSUME WorkInv, NEW c \in net, W!claim(c) \/ W!submitVideo(c)
    PROVE  WorkInv'
<1>1. CASE W!claim(c)
  <2>1. rows' = W!Claimed \/ rows' = rows  BY <1>1 DEF W!claim
  <2>2. RowsInv'
    <3>1. CASE rows' = rows  BY <3>1 DEF WorkInv, RowsInv, IsAgreed
    <3> QED BY <2>1, <3>1, SlotTaken DEF WorkInv
  <2> QED BY <1>1, <2>2, WriteAnswered DEF W!claim
<1>2. CASE W!submitVideo(c)
  <2> DEFINE why == W!submitRefused(c.id, c.views, c.accept)
  <2>1. /\ c.kind = "send" /\ W!Answer(c, why)
        /\ rows' = IF why = "" THEN W!Submitted(c.id, c.views, c.accept) ELSE rows
    BY <1>2 DEF W!submitVideo
  <2>2. c.accept \in Nat  BY <2>1 DEF WorkInv, IsMessage
  <2>3. RowsInv'
    <3>1. CASE why = ""  BY <2>1, <2>2, <3>1, VideoTaken
    <3>2. CASE why # ""
      <4>1. rows' = rows  BY <2>1, <3>2
      <4> QED BY <4>1 DEF WorkInv, RowsInv, IsAgreed
    <3> QED BY <3>1, <3>2
  <2> HIDE DEF why
  <2> QED BY <2>1, <2>3, WriteAnswered
<1> QED BY <1>1, <1>2

\* What leaves the requests but for some that are answered.
LEMMA Heard ==
    ASSUME WorkInv, UNCHANGED <<order, rows>>, net' \subseteq net, IsPage(page')
    PROVE  WorkInv'
BY OnScreen DEF WorkInv

LEMMA NetworkWork == ASSUME WorkInv, W!Network PROVE WorkInv'
<1>1. PICK c \in net :
        \/ W!claim(c) \/ W!submitVideo(c) \/ W!Lose(c)
        \/ W!Loaded(c) \/ W!ClaimAnswered(c) \/ W!ListLoaded(c) \/ W!Resubmitted(c)
        \/ W!SlotLoaded(c) \/ W!SendAnswered(c)
  BY DEF W!Network
<1>2. IsMessage(c) /\ IsPage(page)  BY DEF WorkInv
<1>3. CASE W!Lose(c)
  <2>1. /\ UNCHANGED <<order, rows, page>>
        /\ \A d \in net' : d \in net
                 \/ d = W!And(c, [answer |-> IF W!IsWrite(c) THEN "lost" ELSE None])
    BY <1>3 DEF W!Lose
  <2>2. \A d \in net' : IsMessage(d)  BY <1>2, <2>1, MessageKept DEF WorkInv
  <2> QED BY <1>2, <2>1, <2>2, OnScreen
<1>4. CASE W!Loaded(c) \/ W!ClaimAnswered(c) \/ W!ListLoaded(c)
  <2>1. /\ UNCHANGED <<order, rows>> /\ net' \subseteq net /\ page.name \in {"order", "list"}
    BY <1>4 DEF W!Loaded, W!ClaimAnswered, W!ListLoaded, W!Still
  <2>2. "name" \in DOMAIN page' /\ page'.name = page.name
    BY <1>2, <1>4 DEF W!Loaded, W!ClaimAnswered, W!ListLoaded, IsPage
  <2>3. IsPage(page')  BY <2>1, <2>2 DEF IsPage
  <2> QED BY <2>1, <2>3, Heard
<1>5. CASE W!Resubmitted(c)
  <2>1. CASE c.answer = ""
    <3> DEFINE p == W!SubmitVideo(Len(rows))
    <3>1. IsPage(p) /\ W!Kind(p.name) = "list"
      BY DEF IsPage, W!SubmitVideo, W!Kind
    <3>2. W!Open(p)  BY <1>5, <2>1 DEF W!Resubmitted
    <3> HIDE DEF p
    <3> QED BY <3>1, <3>2, PageOpened
  <2>2. CASE c.answer # ""
    <3>1. /\ UNCHANGED <<order, rows>> /\ net' \subseteq net /\ page.name = "list"
          /\ page' = [page EXCEPT !.resubmitting = FALSE]
      BY <1>5, <2>2 DEF W!Resubmitted, W!Still
    <3>2. IsPage(page')  BY <1>2, <3>1 DEF IsPage
    <3> QED BY <3>1, <3>2, Heard
  <2> QED BY <2>1, <2>2
<1>6. CASE W!SlotLoaded(c)
  <2>1. /\ UNCHANGED <<order, rows>> /\ net' \subseteq net
    BY <1>6 DEF W!SlotLoaded, W!Still
  <2>2. IsPage(page')
    <3> DEFINE slot == [fundPaused |-> c.answer.rows[page.id].fundPaused]
               fresh == c.fresh
    <3>1. \/ page' = [page EXCEPT !.loadError = TRUE]
          \/ page' = [page EXCEPT !.alreadySent = TRUE]
          \/ page' = [page EXCEPT !.copy = slot, !.fresh = fresh]
      BY <1>6, Zenon DEF W!SlotLoaded
    <3> HIDE DEF slot, fresh
    <3> QED BY <1>2, <3>1 DEF IsPage
  <2> QED BY <2>1, <2>2, Heard
<1>7. CASE W!SendAnswered(c)
  <2>1. /\ UNCHANGED <<order, rows>> /\ net' \subseteq net /\ W!Served(c)
        /\ c.kind = "send" /\ page.name = "submit"
    BY <1>7 DEF W!SendAnswered, W!Still
  <2>2. IsPage(page')
    <3>1. CASE c.answer = ""
      <4>1. page' = [page EXCEPT !.sending = FALSE, !.sent = TRUE]
        BY <1>7, <3>1 DEF W!SendAnswered
      <4> QED BY <1>2, <4>1 DEF IsPage
    <3>2. CASE c.answer = "over"
      <4> DEFINE sum == c.payout
      <4>1. page' = [page EXCEPT !.sending = FALSE, !.over = sum]
        BY <1>7, <3>2 DEF W!SendAnswered
      <4>2. sum \in Int  BY <1>2, <2>1, <3>2 DEF IsMessage
      <4> HIDE DEF sum
      <4> QED BY <1>2, <4>1, <4>2 DEF IsPage
    <3>3. CASE c.answer \notin {"", "over"}
      <4>1. page' = [page EXCEPT !.sending = FALSE, !.over = 0]
        BY <1>7, <3>3 DEF W!SendAnswered
      <4> QED BY <1>2, <4>1 DEF IsPage
    <3> QED BY <3>1, <3>2, <3>3
  <2> QED BY <2>1, <2>2, Heard
<1> QED BY <1>1, <1>3, <1>4, <1>5, <1>6, <1>7, ServerWork

\* A request is sent.
LEMMA Asked ==
    ASSUME WorkInv, UNCHANGED <<order, rows>>, NEW c, IsMessage(c), net' = net \cup {c},
           IsPage(page')
    PROVE  WorkInv'
BY OnScreen DEF WorkInv

LEMMA Sends ==
    ASSUME WorkInv, NEW accept \in Nat, W!Sending(accept)
    PROVE  WorkInv'
<1> DEFINE c == [kind |-> "send", id |-> page.id, views |-> page.views, accept |-> accept,
                 fresh |-> page.fresh, heard |-> TRUE]
<1>1. /\ UNCHANGED <<order, rows>> /\ net' = net \cup {c}
      /\ page' = [page EXCEPT !.sending = TRUE]
  BY DEF W!Sending, W!Ask, W!Still
<1>2. IsMessage(c)  BY DEF IsMessage, W!Served
<1> HIDE DEF c
<1>3. IsPage(page')  BY <1>1 DEF WorkInv, IsPage
<1> QED BY <1>1, <1>2, <1>3, Asked

LEMMA PersonWork == ASSUME WorkInv, W!Person PROVE WorkInv'
<1>1. IsPage(page)  BY DEF WorkInv
<1>2. CASE W!Poll
  <2>1. UNCHANGED <<order, rows, page>> /\ net' = net \cup {W!Loading("poll")}
    BY <1>2 DEF W!Poll, W!Ask, W!Still
  <2> QED BY <1>1, <2>1, LoadingIs, Asked
<1>3. CASE W!PressClaim \/ \E i \in 1 .. MaxRows : W!resubmit(i)
  <2>1. PICK kind \in {"claim", "resubmit"} :
              net' = net \cup {[kind |-> kind, fresh |-> page.fresh, heard |-> TRUE]}
    BY <1>3 DEF W!PressClaim, W!resubmit, W!Ask
  <2>2. IsMessage([kind |-> kind, fresh |-> page.fresh, heard |-> TRUE])
    BY DEF IsMessage
  <2>3. /\ UNCHANGED <<order, rows>>
        /\ page' = [page EXCEPT !.claiming = TRUE] \/ page' = [page EXCEPT !.resubmitting = TRUE]
    BY <1>3 DEF W!PressClaim, W!resubmit, W!Still
  <2>4. IsPage(page')  BY <1>1, <2>3 DEF IsPage
  <2> QED BY <2>1, <2>2, <2>3, <2>4, Asked
<1>4. CASE W!Retry
  <2>1. /\ UNCHANGED <<order, rows>> /\ net' = net \cup {W!Loading(W!Kind(page.name))}
        /\ page' = [page EXCEPT !.loadError = FALSE] \/ page' = [page EXCEPT !.error = FALSE]
    BY <1>4 DEF W!Retry, W!Ask, W!Still
  <2>2. IsPage(page')  BY <1>1, <2>1 DEF IsPage
  <2>3. IsMessage(W!Loading(W!Kind(page.name)))  BY LoadingIs DEF W!Kind
  <2> QED BY <2>1, <2>2, <2>3, Asked
<1>5. CASE W!Leave
  <2>1. IsPage(W!OrderPage) /\ W!Kind(W!OrderPage.name) = "order"
    BY DEF IsPage, W!OrderPage, W!Kind
  <2>2. IsPage(W!Submissions) /\ W!Kind(W!Submissions.name) = "list"
    BY DEF IsPage, W!Submissions, W!Kind
  <2> QED BY <1>5, <2>1, <2>2, PageOpened DEF W!Leave
<1>6. ASSUME NEW i, W!PressSend(i) PROVE WorkInv'
  <2>1. IsPage(W!SubmitVideo(i)) /\ W!Kind(W!SubmitVideo(i).name) = "list"
    BY DEF IsPage, W!SubmitVideo, W!Kind
  <2> QED BY <1>6, <2>1, PageOpened DEF W!PressSend
<1>7. CASE W!Type
  <2>1. /\ UNCHANGED <<order, rows>> /\ net' = net
        /\ \E v \in Views : page' = [page EXCEPT !.views = v]
    BY <1>7 DEF W!Type, W!Still
  <2>2. IsPage(page')  BY <1>1, <2>1 DEF IsPage
  <2> QED BY <2>1, <2>2, Heard
<1>8. CASE W!PressSubmit  BY <1>8, Sends DEF W!PressSubmit
<1>9. CASE W!Agree
  <2>1. page.over \in Int /\ page.over > 0  BY <1>1, <1>9 DEF W!Agree, W!Filling, IsPage
  <2>2. page.over \in Nat  BY <2>1
  <2> QED BY <1>9, <2>2, Sends DEF W!Agree
<1>10. CASE W!Cancel
  <2>1. UNCHANGED <<order, rows>> /\ net' = net /\ page' = [page EXCEPT !.over = 0]
    BY <1>10 DEF W!Cancel, W!Still
  <2>2. IsPage(page')  BY <1>1, <2>1 DEF IsPage
  <2> QED BY <2>1, <2>2, Heard
<1> QED BY <1>2, <1>3, <1>4, <1>5, <1>6, <1>7, <1>8, <1>9, <1>10 DEF W!Person

LEMMA WorkStepKeeps == WorkInv /\ [Next]_vars => WorkInv'
<1> SUFFICES ASSUME WorkInv, [Next]_vars PROVE WorkInv'  OBVIOUS
<1>1. CASE W!Next  BY <1>1, OthersWork, NetworkWork, PersonWork DEF W!Next
<1>2. CASE UNCHANGED workVars
  BY <1>2, Heard DEF workVars, WorkInv
<1> QED BY <1>1, <1>2 DEF Next, CatalogStep, WorkStep, ProfileStep, BalanceStep, vars

\* However the fund moves between the question and the answer, a video whose pay is
\* limited to what is left was sent with a yes to a sum, and no less is kept for it
\* (attachVideo, OVER_BUDGET, SubmitVideoView).
THEOREM AlwaysAgreedAsShown == Spec => []AgreedAsShown
<1>1. WorkInv => AgreedAsShown
  BY DEF WorkInv, RowsInv, IsAgreed, AgreedAsShown, W!AgreedAsShown
<1> QED BY WorkInit, WorkStepKeeps, <1>1, PTL DEF Spec


-----------------------------------------------------------------------------
(* The balance *)

PageFields == {"balance", "amount", "busy", "error", "sent", "loadError", "loading"}
Parts == {"wallet", "earned", "held", "sums", "history"}

\* What the page shows of a balance that is read as it is stored.
Stored == [available |-> B!availableMinor(B!Part.earned, B!Part.held, B!Part.sums),
           requested |-> B!Part.sums.requested, wallet |-> B!Part.wallet,
           history |-> B!Part.history]

PayoutsType ==
    /\ \E S : payouts \in Seq(S)
    /\ \A i \in DOMAIN payouts :
            /\ DOMAIN payouts[i] = {"amount", "status"} /\ payouts[i].amount \in Nat

AccrualType == accrual \in [Sub -> {"HELD", "RELEASED", "CANCELLED"}]

\* Sums are numbers of cents, on their way and on the page.
ReadingType ==
    /\ DOMAIN reading = Parts
    /\ reading.earned \in Nat \cup {None} /\ reading.held \in Nat \cup {None}
    /\ reading.sums # None => reading.sums.paid \in Nat /\ reading.sums.requested \in Nat

BalancePageType ==
    /\ DOMAIN balancePage = PageFields /\ balancePage.amount \in Nat
    /\ sending # B!Nothing => DOMAIN sending = {"at", "amount"} /\ sending.amount \in Nat

\* The page is read, or holds what it read, or waits for an answer.
BalanceFlow ==
    /\ balancePage.loadError => ~balancePage.loading
    /\ balancePage.loadError => balancePage.balance = None \/ balancePage.sent
    /\ ~balancePage.loading => \A part \in Parts : reading[part] = None
    /\ balancePage.loading => balancePage.balance = None \/ balancePage.sent
    /\ sending # B!Nothing => ~balancePage.loading /\ ~balancePage.loadError

\* As long as nothing changed, what is read and what is shown is what is stored.
ReadTrue == ~moved => \A part \in Parts : reading[part] \in {None, B!Part[part]}
ShownTrue ==
    ~moved /\ balancePage.balance # None /\ ~balancePage.loading /\ ~balancePage.loadError
        /\ ~balancePage.sent => balancePage.balance = Stored

BalanceInv ==
    /\ PayoutsType /\ AccrualType /\ ReadingType /\ BalancePageType
    /\ BalanceFlow /\ ReadTrue /\ ShownTrue

-----------------------------------------------------------------------------
(* Sums of cents *)

LEMMA CentsOfOne ==
    ASSUME NEW x, NEW n \in Nat
    PROVE  IsFiniteSet({x} \X (1 .. n))
<1>1. IsFiniteSet({x})  BY FS_Singleton
<1>2. IsFiniteSet(1 .. n)  BY FS_Interval
<1> QED BY <1>1, <1>2, FS_Product

LEMMA CentsAreMany ==
    ASSUME NEW S, IsFiniteSet(S), NEW cents, \A x \in S : cents[x] \in Nat
    PROVE  Cardinality(UNION {{x} \X (1 .. cents[x]) : x \in S}) \in Nat
<1> DEFINE own(x) == {x} \X (1 .. cents[x])
           parts == {own(x) : x \in S}
           f == [x \in S |-> own(x)]
<1>1. f \in Surjection(S, parts)  BY DEF Surjection
<1>2. IsFiniteSet(parts)
  <2> HIDE DEF f, parts
  <2> QED BY <1>1, FS_Surjection
<1>3. \A T \in parts : IsFiniteSet(T)
  <2> SUFFICES ASSUME NEW x \in S PROVE IsFiniteSet(own(x))  OBVIOUS
  <2>1. cents[x] \in Nat  OBVIOUS
  <2> QED BY <2>1, CentsOfOne
<1>4. IsFiniteSet(UNION parts)
  <2> HIDE DEF parts
  <2> QED BY <1>2, <1>3, FS_UNION
<1> QED BY <1>4, FS_CardinalityType

LEMMA AccruedType == ASSUME NEW statuses PROVE B!Accrued(statuses) \in Nat
<1> DEFINE S == {v \in Sub : accrual[v] \in statuses}
<1>1. IsFiniteSet(Sub) /\ Earns \in [Sub -> Nat]
  BY CreatorAssumption DEF B!BalanceAssumption, B!IsFiniteSet, IsFiniteSet
<1>2. IsFiniteSet(S) /\ \A x \in S : Earns[x] \in Nat  BY <1>1, FS_Subset
<1>3. B!Accrued(statuses) = Cardinality(UNION {{x} \X (1 .. Earns[x]) : x \in S})
  BY DEF B!Accrued, B!Cardinality, Cardinality
<1> HIDE DEF S
<1> QED BY <1>2, <1>3, CentsAreMany

LEMMA AmountType == ASSUME PayoutsType, NEW statuses PROVE B!Amount(statuses) \in Nat
<1> DEFINE S == {i \in DOMAIN payouts : payouts[i].status \in statuses}
           cents == [i \in DOMAIN payouts |-> payouts[i].amount]
<1>1. IsFiniteSet(DOMAIN payouts)
  <2>1. Len(payouts) \in Nat /\ DOMAIN payouts = 1 .. Len(payouts)  BY DEF PayoutsType
  <2> QED BY <2>1, FS_Interval
<1>2. IsFiniteSet(S) /\ \A x \in S : cents[x] \in Nat  BY <1>1, FS_Subset DEF PayoutsType
<1>3. B!Amount(statuses) = Cardinality(UNION {{x} \X (1 .. payouts[x].amount) : x \in S})
  BY DEF B!Amount, B!Cardinality, Cardinality
<1>4. \A x \in S : payouts[x].amount = cents[x]  OBVIOUS
<1> HIDE DEF S, cents
<1>5. UNION {{x} \X (1 .. payouts[x].amount) : x \in S}
         = UNION {{x} \X (1 .. cents[x]) : x \in S}
  BY <1>4
<1> QED BY <1>2, <1>3, <1>5, CentsAreMany

\* What there is to withdraw is a number of cents.
LEMMA AvailableType ==
    ASSUME NEW earned \in Nat, NEW held \in Nat, NEW sums, sums.paid \in Nat, sums.requested \in Nat
    PROVE  B!availableMinor(earned, held, sums) \in Nat
BY DEF B!availableMinor, B!Above

LEMMA WholeType == ASSUME NEW cents \in Nat PROVE B!whole(cents) \in Nat
<1>1. CENTS \in Nat \ {0}  BY CreatorAssumption DEF B!BalanceAssumption
<1>2. cents \div CENTS \in Nat  BY <1>1
<1> DEFINE n == cents \div CENTS
<1>3. n * CENTS \in Nat
  <2> HIDE DEF n
  <2>1. n \in Nat  BY <1>2 DEF n
  <2> QED BY <1>1, <2>1
<1> QED BY <1>3 DEF B!whole

LEMMA PartType ==
    ASSUME PayoutsType
    PROVE  /\ B!Part.earned \in Nat /\ B!Part.held \in Nat
           /\ B!Part.sums.paid \in Nat /\ B!Part.sums.requested \in Nat
           /\ DOMAIN B!Part = Parts
           /\ B!Part.sums.requested = B!Amount({"REQUESTED"}) /\ B!Part.wallet = wallet
           /\ B!Part.history = payouts
BY AccruedType, AmountType DEF B!Part, Parts

\* Whole amounts up to what there is are those up to its whole part.
LEMMA WholeUpTo ==
    ASSUME NEW cents \in Nat, NEW all \in Nat, cents % CENTS = 0
    PROVE  cents <= all <=> cents <= B!whole(all)
<1>1. CENTS \in Nat \ {0}  BY CreatorAssumption DEF B!BalanceAssumption
<1> DEFINE n == cents \div CENTS
           m == all \div CENTS
           rest == all % CENTS
<1>2. n \in Nat /\ cents = n * CENTS  BY <1>1
<1>3. m \in Nat /\ rest \in Nat /\ rest < CENTS /\ all = m * CENTS + rest  BY <1>1
<1> HIDE DEF n, m, rest
<1>4. n <= m => n * CENTS <= m * CENTS  BY <1>1, <1>2, <1>3
<1>5. n >= m + 1 => n * CENTS >= m * CENTS + CENTS
  <2>1. n >= m + 1 => n * CENTS >= (m + 1) * CENTS  BY <1>1, <1>2, <1>3
  <2>2. (m + 1) * CENTS = m * CENTS + CENTS  BY <1>1, <1>3
  <2> QED BY <1>1, <1>2, <1>3, <2>1, <2>2
<1>6. n <= m \/ n >= m + 1  BY <1>2, <1>3
<1>7. B!whole(all) = m * CENTS  BY DEF B!whole, m
<1> QED BY <1>1, <1>2, <1>3, <1>4, <1>5, <1>6, <1>7

-----------------------------------------------------------------------------
(* Steps of the balance *)

LEMMA BalanceInit == Init => BalanceInv
<1> SUFFICES ASSUME B!Init PROVE BalanceInv  BY DEF Init
<1>1. PayoutsType
  <2>1. payouts = <<>> /\ <<>> \in Seq({}) /\ DOMAIN <<>> = {}  BY DEF B!Init
  <2> QED BY <2>1 DEF PayoutsType
<1>2. AccrualType  BY DEF B!Init, AccrualType
<1>3. DOMAIN B!Part = Parts  BY <1>1, PartType
<1>4. DOMAIN reading = Parts /\ \A part \in Parts : reading[part] = None
  BY <1>3 DEF B!Init, B!NoReading
<1>5. ReadingType /\ ReadTrue  BY <1>4 DEF ReadingType, ReadTrue, Parts
<1>6. balancePage = B!Blank /\ sending = B!Nothing  BY DEF B!Init
<1>7. BalancePageType  BY <1>6 DEF BalancePageType, B!Blank, PageFields
<1>8. BalanceFlow /\ ShownTrue  BY <1>4, <1>6 DEF BalanceFlow, ShownTrue, B!Blank
<1> QED BY <1>1, <1>2, <1>5, <1>7, <1>8 DEF BalanceInv

\* What is read or shown is of no matter once something changed.
LEMMA Moved ==
    ASSUME BalanceInv, moved', PayoutsType', AccrualType',
           UNCHANGED <<reading, balancePage>>, BalancePageType',
           sending' # B!Nothing => sending # B!Nothing
    PROVE  BalanceInv'
BY DEF BalanceInv, ReadingType, BalanceFlow, ReadTrue, ShownTrue

LEMMA OthersMove ==
    ASSUME BalanceInv,
           \/ \E v \in Sub : B!Settle(v)
           \/ \E i \in DOMAIN payouts : B!transitionStatus(i)
           \/ B!updateWallet
    PROVE  BalanceInv'
<1>1. /\ moved' /\ UNCHANGED <<reading, balancePage, sending>>
      /\ payouts' = payouts \/ accrual' = accrual
  BY DEF B!Settle, B!transitionStatus, B!updateWallet, B!Move
<1>2. PayoutsType'
  <2>1. CASE payouts' = payouts  BY <2>1 DEF BalanceInv, PayoutsType
  <2>2. CASE payouts' # payouts
    <3>1. PICK i \in DOMAIN payouts, end \in {"PAID", "REJECTED"} :
            payouts' = [payouts EXCEPT ![i].status = end]
      BY <2>2 DEF B!Settle, B!transitionStatus, B!updateWallet
    <3> DEFINE p == [payouts[i] EXCEPT !.status = end]
    <3>2. PICK S : payouts \in Seq(S)  BY DEF BalanceInv, PayoutsType
    <3>3. /\ Len(payouts) \in Nat /\ DOMAIN payouts = 1 .. Len(payouts)
          /\ \A j \in DOMAIN payouts : payouts[j] \in S
          /\ payouts = [j \in 1 .. Len(payouts) |-> payouts[j]]
      BY <3>2
    <3>4. payouts' = [payouts EXCEPT ![i] = p]  BY <3>1
    <3>5. DOMAIN p = {"amount", "status"} /\ p.amount \in Nat
      BY DEF BalanceInv, PayoutsType
    <3> HIDE DEF p
    <3>6. payouts' = [j \in 1 .. Len(payouts) |-> IF j = i THEN p ELSE payouts[j]]
      BY <3>3, <3>4
    <3>7. payouts' \in Seq(S \cup {p})  BY <3>3, <3>6
    <3>8. \A j \in DOMAIN payouts' :
            DOMAIN payouts'[j] = {"amount", "status"} /\ payouts'[j].amount \in Nat
      BY <3>3, <3>5, <3>6 DEF BalanceInv, PayoutsType
    <3> QED BY <3>7, <3>8 DEF PayoutsType
  <2> QED BY <2>1, <2>2
<1>3. AccrualType'
  BY DEF BalanceInv, AccrualType, B!Settle, B!transitionStatus, B!updateWallet
<1>4. BalancePageType'  BY <1>1 DEF BalanceInv, BalancePageType
<1> QED BY <1>1, <1>2, <1>3, <1>4, Moved

\* The store is as it was, and so is what it answers.
LEMMA SameStore ==
    ASSUME BalanceInv, UNCHANGED <<accrual, payouts, wallet>>
    PROVE  /\ PayoutsType' /\ AccrualType'
           /\ B!Part' = B!Part /\ Stored' = Stored
<1>1. B!Part' = B!Part  BY DEF B!Part, B!Accrued, B!Amount
<1>2. Stored' = Stored  BY <1>1 DEF Stored, B!availableMinor, B!Above
<1> QED BY <1>1, <1>2 DEF BalanceInv, PayoutsType, AccrualType

LEMMA ReadStep ==
    ASSUME BalanceInv, NEW part \in DOMAIN B!Part, B!Read(part)
    PROVE  BalanceInv'
<1>1. /\ reading' = [reading EXCEPT ![part] = B!Part[part]] /\ balancePage.loading
      /\ UNCHANGED <<accrual, payouts, wallet, balancePage, sending, moved>>
  BY DEF B!Read, B!stored
<1>2. /\ part \in Parts /\ B!Part.earned \in Nat /\ B!Part.held \in Nat
      /\ B!Part.sums.paid \in Nat /\ B!Part.sums.requested \in Nat
  BY PartType DEF BalanceInv
<1>3. ReadingType'  BY <1>1, <1>2 DEF BalanceInv, ReadingType, Parts
<1>4. ReadTrue'
  BY <1>1, <1>2, SameStore DEF BalanceInv, ReadTrue, ReadingType
<1>5. BalancePageType' /\ BalanceFlow' /\ ShownTrue'
  BY <1>1, SameStore DEF BalanceInv, BalancePageType, BalanceFlow, ShownTrue
<1> QED BY <1>1, <1>3, <1>4, <1>5, SameStore DEF BalanceInv

\* A page that has read its parts, or has failed to, reads none.
LEMMA NothingRead ==
    ASSUME BalanceInv, UNCHANGED <<accrual, payouts, wallet>>, reading' = B!NoReading
    PROVE  ReadingType' /\ ReadTrue' /\ \A part \in Parts : reading'[part] = None
<1>1. DOMAIN reading' = Parts /\ \A part \in Parts : reading'[part] = None
  BY PartType DEF BalanceInv, B!NoReading
<1> QED BY <1>1 DEF ReadingType, ReadTrue, Parts

LEMMA LoadedStep == ASSUME BalanceInv, B!Loaded PROVE BalanceInv'
<1> DEFINE available == B!availableMinor(reading.earned, reading.held, reading.sums)
           balance == [available |-> available, requested |-> reading.sums.requested,
                       wallet |-> reading.wallet, history |-> reading.history]
           amount == B!whole(available)
<1>1. /\ UNCHANGED <<accrual, payouts, wallet, sending, moved>> /\ reading' = B!NoReading
      /\ balancePage.loading /\ \A part \in Parts : reading[part] # None
      /\ balancePage' = [balancePage EXCEPT !.balance = balance, !.amount = amount,
                                            !.loading = FALSE, !.busy = FALSE]
  BY PartType DEF B!Loaded, B!stored, BalanceInv
<1>2. /\ reading.earned \in Nat /\ reading.held \in Nat
      /\ reading.sums.paid \in Nat /\ reading.sums.requested \in Nat
  BY <1>1 DEF BalanceInv, ReadingType, Parts
<1>3. amount \in Nat  BY <1>2, AvailableType, WholeType
<1>4. ~moved => balance = Stored
  <2>1. ~moved => \A part \in Parts : reading[part] = B!Part[part]
    BY <1>1 DEF BalanceInv, ReadTrue
  <2> QED BY <2>1 DEF Stored, Parts
<1> HIDE DEF balance, amount
<1>5. /\ DOMAIN balancePage' = PageFields /\ balancePage'.amount = amount
      /\ balancePage'.balance = balance /\ ~balancePage'.loading
      /\ balancePage'.loadError = balancePage.loadError
  BY <1>1 DEF BalanceInv, BalancePageType, PageFields
<1>6. BalancePageType'  BY <1>1, <1>3, <1>5 DEF BalanceInv, BalancePageType
<1>7. BalanceFlow'  BY <1>1, <1>5, NothingRead DEF BalanceInv, BalanceFlow
<1>8. ShownTrue'  BY <1>1, <1>4, <1>5, SameStore DEF ShownTrue
<1> QED BY <1>1, <1>6, <1>7, <1>8, NothingRead, SameStore DEF BalanceInv

LEMMA LoadAgain == ASSUME BalanceInv, B!LoadFailed \/ B!Retry \/ B!Open PROVE BalanceInv'
<1>1. UNCHANGED <<accrual, payouts, wallet, sending>>
  BY DEF B!LoadFailed, B!Retry, B!Open, B!stored
<1>2. CASE B!LoadFailed
  <2>1. /\ balancePage.loading /\ moved' = moved /\ reading' = B!NoReading
        /\ balancePage' = [balancePage EXCEPT !.loadError = TRUE, !.loading = FALSE, !.busy = FALSE]
    BY <1>2 DEF B!LoadFailed
  <2>2. /\ DOMAIN balancePage' = PageFields /\ balancePage'.amount = balancePage.amount
        /\ ~balancePage'.loading /\ balancePage'.loadError
    BY <2>1 DEF BalanceInv, BalancePageType, PageFields
  <2>3. BalancePageType' /\ ShownTrue'
    BY <1>1, <2>2 DEF BalanceInv, BalancePageType, ShownTrue
  <2>4. BalanceFlow'  BY <1>1, <2>1, <2>2, NothingRead DEF BalanceInv, BalanceFlow
  <2> QED BY <1>1, <2>1, <2>3, <2>4, NothingRead, SameStore DEF BalanceInv
<1>3. CASE B!Retry
  <2>1. /\ balancePage.loadError /\ reading' = reading
        /\ balancePage' = [balancePage EXCEPT !.loadError = FALSE, !.loading = TRUE]
    BY <1>3 DEF B!Retry
  <2>2. /\ DOMAIN balancePage' = PageFields /\ balancePage'.amount = balancePage.amount
        /\ balancePage'.loading /\ ~balancePage'.loadError
        /\ balancePage'.balance = balancePage.balance /\ balancePage'.sent = balancePage.sent
    BY <2>1 DEF BalanceInv, BalancePageType, PageFields
  <2>3. BalancePageType' /\ ShownTrue'
    BY <1>1, <2>2 DEF BalanceInv, BalancePageType, ShownTrue
  <2>4. BalanceFlow'
    BY <1>1, <2>1, <2>2 DEF BalanceInv, BalanceFlow
  <2>5. ReadTrue' /\ ReadingType'
    BY <1>1, <2>1, SameStore DEF BalanceInv, BalanceFlow, ReadTrue, ReadingType
  <2> QED BY <1>1, <2>3, <2>4, <2>5, SameStore DEF BalanceInv
<1>4. CASE B!Open
  <2>1. balancePage' = B!Blank /\ reading' = B!NoReading /\ sending = B!Nothing
    BY <1>4 DEF B!Open
  <2>2. BalancePageType' /\ ShownTrue'
    BY <1>1, <2>1 DEF BalancePageType, ShownTrue, B!Blank, PageFields
  <2>3. BalanceFlow'  BY <1>1, <2>1, NothingRead DEF BalanceFlow, B!Blank
  <2> QED BY <1>1, <2>1, <2>2, <2>3, NothingRead, SameStore DEF BalanceInv
<1> QED BY <1>2, <1>3, <1>4

LEMMA GrowStaleStep == ASSUME BalanceInv, B!GrowStale PROVE BalanceInv'
<1>1. UNCHANGED <<accrual, payouts, wallet, balancePage, reading, sending, moved>>
  BY DEF B!GrowStale, B!stored
<1> QED BY <1>1, SameStore
        DEF BalanceInv, ReadingType, BalancePageType, BalanceFlow, ReadTrue, ShownTrue

LEMMA TypeAmount == ASSUME BalanceInv, B!Type PROVE BalanceInv'
<1>1. PICK cents \in 0 .. B!Accrued({"HELD", "RELEASED"}) :
        balancePage' = [balancePage EXCEPT !.amount = cents]
  BY DEF B!Type
<1>2. UNCHANGED <<accrual, payouts, wallet, reading, sending, moved>>  BY DEF B!Type, B!stored
<1>3. cents \in Nat  BY AccruedType
<1>4. /\ DOMAIN balancePage' = PageFields /\ balancePage'.amount = cents
      /\ \A field \in PageFields \ {"amount"} : balancePage'[field] = balancePage[field]
  BY <1>1 DEF BalanceInv, BalancePageType, PageFields
<1>5. BalancePageType'  BY <1>2, <1>3, <1>4 DEF BalanceInv, BalancePageType
<1>6. BalanceFlow' /\ ShownTrue'
  BY <1>2, <1>4, SameStore DEF BalanceInv, BalanceFlow, ShownTrue, PageFields
<1> QED BY <1>2, <1>5, <1>6, SameStore DEF BalanceInv, ReadingType, ReadTrue

LEMMA Withdraw == ASSUME BalanceInv, B!withdraw PROVE BalanceInv'
<1>1. /\ balancePage' = [balancePage EXCEPT !.busy = TRUE, !.error = FALSE]
      /\ sending' = [at |-> "sent", amount |-> balancePage.amount]
      /\ UNCHANGED <<accrual, payouts, wallet, reading, moved>>
      /\ ~balancePage.loadError /\ balancePage.balance # None /\ ~balancePage.sent
  BY DEF B!withdraw, B!stored, B!formShown
<1>2. /\ DOMAIN balancePage' = PageFields
      /\ \A field \in PageFields \ {"busy", "error"} : balancePage'[field] = balancePage[field]
  BY <1>1 DEF BalanceInv, BalancePageType, PageFields
<1>3. BalancePageType'  BY <1>1, <1>2 DEF BalanceInv, BalancePageType, PageFields
<1>4. BalanceFlow' /\ ShownTrue'
  BY <1>1, <1>2, SameStore DEF BalanceInv, BalanceFlow, ShownTrue, PageFields
<1> QED BY <1>1, <1>3, <1>4, SameStore DEF BalanceInv, ReadingType, ReadTrue

\* What is asked for is added to the requests, or everything is as it was.
LEMMA RequestPayout == ASSUME BalanceInv, B!requestPayout PROVE BalanceInv'
<1> DEFINE row == [amount |-> sending.amount, status |-> "REQUESTED"]
<1>1. /\ UNCHANGED <<accrual, wallet, balancePage, reading>> /\ sending.at = "sent"
      /\ \/ payouts' = Append(payouts, row) /\ moved' = TRUE
         \/ payouts' = payouts /\ moved' = moved
      /\ \E at : sending' = [sending EXCEPT !.at = at]
  BY DEF B!requestPayout
<1>2. /\ sending # B!Nothing /\ DOMAIN sending' = {"at", "amount"}
      /\ sending'.amount = sending.amount /\ sending.amount \in Nat
  BY <1>1 DEF B!Nothing, BalanceInv, BalancePageType
<1>3. BalancePageType'  BY <1>1, <1>2 DEF BalanceInv, BalancePageType
<1>4. CASE payouts' = payouts /\ moved' = moved
  <2>1. BalanceFlow' /\ ShownTrue'
    BY <1>1, <1>2, <1>4, SameStore DEF BalanceInv, BalanceFlow, ShownTrue
  <2> QED BY <1>1, <1>3, <1>4, <2>1, SameStore DEF BalanceInv, ReadingType, ReadTrue
<1>5. CASE payouts' = Append(payouts, row) /\ moved'
  <2>1. DOMAIN row = {"amount", "status"} /\ row.amount \in Nat  BY <1>2
  <2> HIDE DEF row
  <2>2. PICK S : payouts \in Seq(S)  BY DEF BalanceInv, PayoutsType
  <2>3. /\ payouts' \in Seq(S \cup {row}) /\ Len(payouts) \in Nat
        /\ DOMAIN payouts = 1 .. Len(payouts) /\ DOMAIN payouts' = 1 .. Len(payouts) + 1
    BY <1>5, <2>2
  <2>4. \A i \in DOMAIN payouts' :
            DOMAIN payouts'[i] = {"amount", "status"} /\ payouts'[i].amount \in Nat
    BY <1>5, <2>1, <2>2, <2>3 DEF BalanceInv, PayoutsType
  <2>5. PayoutsType'  BY <2>3, <2>4 DEF PayoutsType
  <2>6. AccrualType'  BY <1>1 DEF BalanceInv, AccrualType
  <2> QED BY <1>1, <1>2, <1>3, <1>5, <2>5, <2>6, Moved
<1> QED BY <1>1, <1>4, <1>5

LEMMA WithdrawalAnswered == ASSUME BalanceInv, B!Sent \/ B!NotSent PROVE BalanceInv'
<1>1. UNCHANGED <<accrual, payouts, wallet, reading>> /\ sending' = B!Nothing
  BY DEF B!Sent, B!NotSent, B!stored
<1>2. sending # B!Nothing  BY DEF B!Sent, B!NotSent, B!Nothing
<1>3. ~balancePage.loading /\ ~balancePage.loadError /\ \A part \in Parts : reading[part] = None
  BY <1>2 DEF BalanceInv, BalanceFlow
<1>4. CASE B!Sent
  <2>1. balancePage' = [balancePage EXCEPT !.sent = TRUE, !.loading = TRUE, !.loadError = FALSE]
    BY <1>4 DEF B!Sent
  <2>2. /\ DOMAIN balancePage' = PageFields /\ balancePage'.amount = balancePage.amount
        /\ balancePage'.sent /\ balancePage'.loading /\ ~balancePage'.loadError
    BY <2>1 DEF BalanceInv, BalancePageType, PageFields
  <2>3. BalancePageType'  BY <1>1, <2>2 DEF BalanceInv, BalancePageType
  <2>4. BalanceFlow' /\ ShownTrue'  BY <1>1, <1>3, <2>2 DEF BalanceFlow, ShownTrue
  <2>5. ReadTrue'  BY <1>1, <1>3 DEF ReadTrue
  <2> QED BY <1>1, <2>3, <2>4, <2>5, SameStore DEF BalanceInv, ReadingType
<1>5. CASE B!NotSent
  <2>1. /\ balancePage' = [balancePage EXCEPT !.error = TRUE, !.busy = FALSE]
        /\ moved' = moved
    BY <1>5 DEF B!NotSent
  <2>2. /\ DOMAIN balancePage' = PageFields
        /\ \A field \in PageFields \ {"busy", "error"} : balancePage'[field] = balancePage[field]
    BY <2>1 DEF BalanceInv, BalancePageType, PageFields
  <2>3. BalancePageType'  BY <1>1, <2>2 DEF BalanceInv, BalancePageType, PageFields
  <2>4. BalanceFlow' /\ ShownTrue'
    BY <1>1, <1>3, <2>1, <2>2, SameStore DEF BalanceInv, BalanceFlow, ShownTrue, PageFields
  <2> QED BY <1>1, <2>1, <2>3, <2>4, SameStore DEF BalanceInv, ReadingType, ReadTrue
<1> QED BY <1>4, <1>5

LEMMA BalanceNext == ASSUME BalanceInv, [B!Next]_(B!vars) PROVE BalanceInv'
<1>1. CASE B!Next
  <2>1. CASE \/ \E v \in Sub : B!Settle(v)
             \/ \E i \in DOMAIN payouts : B!transitionStatus(i)
             \/ B!updateWallet
    BY <2>1, OthersMove
  <2>2. CASE B!GrowStale  BY <2>2, GrowStaleStep
  <2>3. CASE \E part \in DOMAIN B!Part : B!Read(part)  BY <2>3, ReadStep
  <2>4. CASE B!Loaded  BY <2>4, LoadedStep
  <2>5. CASE B!LoadFailed \/ B!Retry \/ B!Open  BY <2>5, LoadAgain
  <2>6. CASE B!Type  BY <2>6, TypeAmount
  <2>7. CASE B!withdraw  BY <2>7, Withdraw
  <2>8. CASE B!requestPayout  BY <2>8, RequestPayout
  <2>9. CASE B!Sent \/ B!NotSent  BY <2>9, WithdrawalAnswered
  <2> QED BY <1>1, <2>1, <2>2, <2>3, <2>4, <2>5, <2>6, <2>7, <2>8, <2>9 DEF B!Next
<1>2. CASE UNCHANGED B!vars
  <2>1. UNCHANGED <<accrual, payouts, wallet, balancePage, reading, sending, moved>>
    BY <1>2 DEF B!vars, B!stored
  <2> QED BY <2>1, SameStore
          DEF BalanceInv, ReadingType, BalancePageType, BalanceFlow, ReadTrue, ShownTrue
<1> QED BY <1>1, <1>2

\* What is offered of a balance that is as it is stored is what is accepted.
LEMMA OffersOfStored == BalanceInv => OffersWhatIsLeft
<1> SUFFICES ASSUME BalanceInv, ~moved, balancePage.balance # None, ~balancePage.loading,
                    ~balancePage.loadError, ~balancePage.sent,
                    NEW cents \in 0 .. B!Part.earned
             PROVE  B!mayWithdraw(cents) <=> B!formShown /\ B!valid(cents)
  BY DEF OffersWhatIsLeft, B!OffersWhatIsLeft
<1> DEFINE all == B!availableMinor(B!Part.earned, B!Part.held, B!Part.sums)
           needed == MIN_PAYOUT * CENTS
<1>1. balancePage.balance = Stored  BY DEF BalanceInv, ShownTrue
<1>2. PayoutsType  BY DEF BalanceInv
<1>3. cents \in Nat /\ all \in Nat
  <2>1. /\ B!Part.earned \in Nat /\ B!Part.held \in Nat
        /\ B!Part.sums.paid \in Nat /\ B!Part.sums.requested \in Nat
    BY <1>2, PartType
  <2>2. all \in Nat  BY <2>1, AvailableType
  <2> HIDE DEF all
  <2>3. cents \in Nat  BY <2>1
  <2> QED BY <2>2, <2>3
<1>4. /\ Stored.available = all /\ Stored.requested = B!Amount({"REQUESTED"})
      /\ Stored.wallet = wallet
  BY <1>2, PartType DEF Stored
<1>5. needed \in Nat /\ B!whole(all) \in Nat
  <2>1. MIN_PAYOUT \in Nat /\ CENTS \in Nat  BY CreatorAssumption DEF B!BalanceAssumption
  <2> QED BY <2>1, <1>3, WholeType
<1> HIDE DEF all, needed
<1>6. cents % CENTS = 0 => (cents <= all <=> cents <= B!whole(all))
  BY <1>3, WholeUpTo
<1>7. B!mayWithdraw(cents)
        <=> /\ cents % CENTS = 0 /\ cents >= needed
            /\ wallet /\ B!Amount({"REQUESTED"}) = 0 /\ cents <= all
  BY DEF B!mayWithdraw, B!parsePayoutAmount, all, needed
<1>8. B!formShown <=> B!Amount({"REQUESTED"}) = 0 /\ wallet /\ all >= needed
  BY <1>1, <1>4 DEF B!formShown, needed
<1>9. B!valid(cents) <=> cents % CENTS = 0 /\ cents >= needed /\ cents <= B!whole(all)
  BY <1>1, <1>4 DEF B!valid, needed
<1>10. cents >= needed /\ cents <= all => all >= needed  BY <1>3, <1>5
<1> QED BY <1>6, <1>7, <1>8, <1>9, <1>10

\* As long as nothing changed since the balance was asked for, the form lets
\* through exactly the amounts the server accepts (BalanceView withdraw,
\* PayoutsService.requestPayout).
THEOREM OffersAlwaysWhatIsLeft == Spec => []OffersWhatIsLeft
<1>1. BalanceInv /\ [Next]_vars => BalanceInv'
  <2> SUFFICES ASSUME BalanceInv, [Next]_vars PROVE BalanceInv'  OBVIOUS
  <2>1. [B!Next]_(B!vars)
    BY DEF Next, CatalogStep, WorkStep, ProfileStep, BalanceStep, vars, balanceVars,
           B!vars, B!stored, B!bounds
  <2> QED BY <2>1, BalanceNext
<1> QED BY BalanceInit, <1>1, OffersOfStored, PTL DEF Spec


-----------------------------------------------------------------------------
(* The catalogue: the newest first *)

Decreasing(s) == \A i, j \in DOMAIN s : i < j => s[i] > s[j]

LEMMA OrdersAre ==
    ASSUME NEW S \in SUBSET Order
    PROVE  IsFiniteSet(S) /\ \A o \in S : o \in Nat /\ o # 0
<1>1. Order \subseteq Nat \ {0} /\ IsFiniteSet(Order)
  BY CreatorAssumption DEF C!CatalogAssumption, C!IsFiniteSet, IsFiniteSet
<1>2. IsFiniteSet(S)  BY <1>1, FS_Subset
<1>3. \A o \in Order : o \in Nat /\ o # 0  BY <1>1
<1> QED BY <1>2, <1>3

\* The rank of an order is how many are newer: each has one of its own.
LEMMA Ranks ==
    ASSUME NEW S \in SUBSET Order
    PROVE  LET n == Cardinality(S)
               rank(o) == Cardinality({newer \in S : newer > o})
           IN /\ n \in Nat
              /\ \A o \in S : rank(o) \in 0 .. n - 1
              /\ \A o, p \in S : o < p => rank(p) < rank(o)
              /\ \A i \in 1 .. n : \E o \in S : rank(o) = i - 1
<1> DEFINE n == Cardinality(S)
           newerThan(o) == {newer \in S : newer > o}
           rank(o) == Cardinality(newerThan(o))
<1>1. IsFiniteSet(S) /\ \A o \in S : o \in Nat  BY OrdersAre
<1>2. n \in Nat  BY <1>1, FS_CardinalityType
<1>3. ASSUME NEW o \in S
      PROVE  IsFiniteSet(newerThan(o)) /\ rank(o) \in 0 .. n - 1
  <2>1. newerThan(o) \in SUBSET S  OBVIOUS
  <2>2. o \notin newerThan(o)  BY <1>1
  <2> HIDE DEF newerThan
  <2>3. /\ IsFiniteSet(newerThan(o)) /\ Cardinality(newerThan(o)) <= n
        /\ Cardinality(newerThan(o)) # n
    BY <1>1, <2>1, <2>2, FS_Subset
  <2>4. Cardinality(newerThan(o)) \in Nat  BY <2>3, FS_CardinalityType
  <2> HIDE DEF n
  <2> QED BY <1>2, <2>3, <2>4
<1>4. ASSUME NEW o \in S, NEW p \in S, o < p
      PROVE  rank(p) < rank(o)
  <2>0. o \in Nat /\ p \in Nat  BY <1>1
  <2>1. newerThan(p) \in SUBSET newerThan(o)
    <3>1. ASSUME NEW newer \in S, newer > p PROVE newer > o
      <4>1. newer \in Nat  BY <1>1
      <4> QED BY <1>4, <2>0, <3>1, <4>1
    <3> QED BY <3>1
  <2>11. p \in newerThan(o) /\ p \notin newerThan(p)  BY <1>4, <2>0
  <2>2. IsFiniteSet(newerThan(o)) /\ IsFiniteSet(newerThan(p))  BY <1>3
  <2> HIDE DEF newerThan
  <2>3. /\ Cardinality(newerThan(p)) <= Cardinality(newerThan(o))
        /\ Cardinality(newerThan(p)) # Cardinality(newerThan(o))
    BY <2>1, <2>11, <2>2, FS_Subset
  <2>4. Cardinality(newerThan(o)) \in Nat /\ Cardinality(newerThan(p)) \in Nat
    BY <2>2, FS_CardinalityType
  <2> QED BY <2>3, <2>4
<1>5. \A i \in 1 .. n : \E o \in S : rank(o) = i - 1
  <2>0. \A o \in S : rank(o) \in 0 .. n - 1  BY <1>3
  <2>00. \A o, p \in S : o < p => rank(p) < rank(o)  BY <1>4
  <2> DEFINE place == [o \in S |-> rank(o) + 1]
  <2> HIDE DEF n, rank, newerThan
  <2>1. place \in [S -> 1 .. n]  BY <1>2, <2>0
  <2>2. \A o, p \in S : place[o] = place[p] => o = p
    <3> SUFFICES ASSUME NEW o \in S, NEW p \in S, place[o] = place[p] PROVE o = p
      OBVIOUS
    <3>1. rank(o) = rank(p) /\ rank(o) \in Int  BY <1>2, <2>0
    <3>2. ~(o < p) /\ ~(p < o)  BY <2>00, <3>1
    <3> QED BY <1>1, <3>2
  <2>3. place \in Injection(S, 1 .. n)  BY <2>1, <2>2 DEF Injection, IsInjective
  <2>4. IsFiniteSet(1 .. n) /\ Cardinality(1 .. n) = n
    <3>1. IsFiniteSet(1 .. n)  BY <1>2, FS_Interval
    <3>2. Cardinality(1 .. n) = IF 1 > n THEN 0 ELSE n - 1 + 1  BY <1>2, FS_Interval
    <3> QED BY <1>2, <3>1, <3>2
  <2>5. Cardinality(S) = Cardinality(1 .. n)  BY <2>4 DEF n
  <2>6. place \in Surjection(S, 1 .. n)
    <3> HIDE DEF place
    <3> QED BY <2>3, <2>4, <2>5, FS_Injection
  <2>7. \A i \in 1 .. n : \E o \in S : place[o] = i  BY <2>6 DEF Surjection
  <2> SUFFICES ASSUME NEW i \in 1 .. n PROVE \E o \in S : rank(o) = i - 1
    OBVIOUS
  <2>8. PICK o \in S : place[o] = i  BY <2>7
  <2>9. rank(o) + 1 = i /\ rank(o) \in Int  BY <1>2, <2>0, <2>8
  <2> QED BY <1>2, <2>9
<1> QED BY <1>2, <1>3, <1>4, <1>5

\* The enumeration has every order of the set once, the newest first.
LEMMA DescendingIs ==
    ASSUME NEW S \in SUBSET Order
    PROVE  LET s == C!Descending(S) IN
           /\ s \in Seq(S) /\ Decreasing(s)
           /\ \A o \in S : \E i \in DOMAIN s : s[i] = o
<1> DEFINE n == Cardinality(S)
           rank(o) == Cardinality({newer \in S : newer > o})
           e(i) == CHOOSE o \in S : rank(o) = i - 1
           s == [i \in 1 .. n |-> e(i)]
<1>1. C!Descending(S) = s  BY DEF C!Descending, C!Cardinality, Cardinality
<1>2. /\ n \in Nat
      /\ \A o \in S : rank(o) \in 0 .. n - 1
      /\ \A o, p \in S : o < p => rank(p) < rank(o)
      /\ \A i \in 1 .. n : \E o \in S : rank(o) = i - 1
  BY Ranks
<1>3. \A o \in S : o \in Nat  BY OrdersAre
<1> HIDE DEF n, rank
<1>4. ASSUME NEW i \in 1 .. n PROVE e(i) \in S /\ rank(e(i)) = i - 1
  <2>1. \E o \in S : rank(o) = i - 1  BY <1>2
  <2> QED BY <2>1
<1> HIDE DEF e
<1>5. s \in [1 .. n -> S]  BY <1>4
<1>6. s \in Seq(S) /\ DOMAIN s = 1 .. n  BY <1>2, <1>5
<1>7. Decreasing(s)
  <2> SUFFICES ASSUME NEW i \in 1 .. n, NEW j \in 1 .. n, i < j PROVE e(i) > e(j)
    BY <1>6 DEF Decreasing
  <2>1. /\ e(i) \in S /\ e(j) \in S /\ e(i) \in Nat /\ e(j) \in Nat
        /\ rank(e(i)) = i - 1 /\ rank(e(j)) = j - 1 /\ i \in Int /\ j \in Int
    BY <1>2, <1>3, <1>4
  <2>2. e(i) # e(j)  BY <2>1
  <2>3. ~(e(i) < e(j))  BY <1>2, <2>1
  <2> QED BY <2>1, <2>2, <2>3
<1>8. ASSUME NEW o \in S PROVE \E i \in DOMAIN s : s[i] = o
  <2>1. rank(o) \in 0 .. n - 1  BY <1>2
  <2> DEFINE i == rank(o) + 1
  <2>2. i \in 1 .. n /\ i - 1 = rank(o)  BY <1>2, <2>1
  <2>3. e(i) \in S /\ rank(e(i)) = rank(o)  BY <1>4, <2>2
  <2>4. ~(e(i) < o) /\ ~(o < e(i))  BY <1>2, <2>1, <2>3
  <2>5. e(i) = o  BY <1>3, <2>3, <2>4
  <2> QED BY <1>6, <2>2, <2>5
<1> QED BY <1>1, <1>6, <1>7, <1>8

-----------------------------------------------------------------------------
(* The catalogue: pages *)

\* An order is on the list, or there is more and it is older than all of the list.
Covers(s, hasMore, o) ==
    \/ \E i \in DOMAIN s : s[i] = o
    \/ hasMore /\ Len(s) > 0 /\ o < s[Len(s)]

LEMMA FirstOf ==
    ASSUME NEW S, NEW s \in Seq(S), NEW n \in Nat, n <= Len(s)
    PROVE  LET t == SubSeq(s, 1, n) IN
           /\ t \in Seq(S) /\ Len(t) = n /\ DOMAIN t = 1 .. n
           /\ \A i \in 1 .. n : i \in DOMAIN s /\ t[i] = s[i]
<1>1. /\ Len(s) \in Nat /\ DOMAIN s = 1 .. Len(s) /\ \A i \in 1 .. Len(s) : s[i] \in S
  OBVIOUS
<1>2. \A i \in 1 .. n : i \in 1 .. Len(s)  BY <1>1
<1> DEFINE t == SubSeq(s, 1, n)
<1>3. 1 \in 1 .. Len(s) + 1 /\ n \in 1 - 1 .. Len(s)  BY <1>1
<1>4. t \in Seq(S) /\ Len(t) = n - 1 + 1 /\ \A i \in 1 .. n - 1 + 1 : t[i] = s[1 + i - 1]
  BY <1>3, SubSeqProperties
<1> HIDE DEF t
<1>5. /\ t \in Seq(S) /\ DOMAIN t = 1 .. n /\ Len(t) = n
      /\ \A i \in 1 .. n : t[i] = s[i]
  BY <1>4
<1> QED BY <1>1, <1>2, <1>5 DEF t

\* A page has the newest orders of those asked for, and covers all of them.
LEMMA PageCovers ==
    ASSUME NEW f, NEW after, open \subseteq Order
    PROVE  LET p == C!listOpen(f, after)
               S == C!After(after, f)
           IN /\ p.items \in Seq(Order) /\ Decreasing(p.items)
              /\ \A i \in DOMAIN p.items : p.items[i] \in S
              /\ \A o \in S : Covers(p.items, p.hasMore, o)
<1> DEFINE S == C!After(after, f)
           all == C!Descending(S)
           n == IF Len(all) < PAGE_SIZE THEN Len(all) ELSE PAGE_SIZE
           items == SubSeq(all, 1, n)
           p == C!listOpen(f, after)
<1>1. S \in SUBSET Order  BY DEF C!After, C!openWhere
<1>2. p.items = items /\ p.hasMore = (Len(all) > PAGE_SIZE)  BY DEF C!listOpen
<1>3. PAGE_SIZE \in Nat /\ PAGE_SIZE > 0
  <2>1. PAGE_SIZE \in Nat \ {0}  BY CreatorAssumption DEF C!CatalogAssumption
  <2> QED BY <2>1
<1> HIDE DEF S, p
<1>4. /\ all \in Seq(S) /\ Decreasing(all)
      /\ \A o \in S : \E i \in DOMAIN all : all[i] = o
  BY <1>1, DescendingIs
<1> HIDE DEF all
<1>5. /\ Len(all) \in Nat /\ DOMAIN all = 1 .. Len(all) /\ \A i \in DOMAIN all : all[i] \in S
  BY <1>4
<1>55. Len(all) \in Nat  BY <1>5
<1>6. n \in Nat /\ n <= Len(all) /\ (n # Len(all) => n = PAGE_SIZE /\ Len(all) > PAGE_SIZE)
  <2>1. CASE Len(all) < PAGE_SIZE  BY <1>55, <2>1
  <2>2. CASE ~(Len(all) < PAGE_SIZE)
    <3>1. n = PAGE_SIZE  BY <2>2
    <3> HIDE DEF n
    <3> QED BY <1>3, <1>55, <2>2, <3>1
  <2> QED BY <2>1, <2>2
<1> HIDE DEF n
<1>7. /\ items \in Seq(S) /\ Len(items) = n /\ DOMAIN items = 1 .. n
      /\ \A i \in 1 .. n : i \in DOMAIN all /\ items[i] = all[i]
  BY <1>4, <1>6, FirstOf
<1> HIDE DEF items
<1>8. items \in Seq(Order)  BY <1>1, <1>7
<1>9. Decreasing(items)  BY <1>4, <1>7 DEF Decreasing
<1>10. \A i \in DOMAIN items : items[i] \in S  BY <1>7
<1>11. ASSUME NEW o \in S PROVE Covers(items, Len(all) > PAGE_SIZE, o)
  <2>1. PICK i \in 1 .. Len(all) : all[i] = o  BY <1>4, <1>5
  <2>2. CASE i <= n
    <3>1. i \in DOMAIN items /\ items[i] = o  BY <1>6, <1>7, <2>1, <2>2
    <3> QED BY <3>1 DEF Covers
  <2>3. CASE ~(i <= n)
    <3>1. n < i /\ n # Len(all)  BY <1>55, <1>6, <2>1, <2>3
    <3>11. n = PAGE_SIZE /\ Len(all) > PAGE_SIZE /\ n \in 1 .. Len(all)
      BY <1>3, <1>55, <1>6, <3>1
    <3>0. n \in DOMAIN items  BY <1>7, <3>11
    <3>2. all[n] > all[i] /\ items[n] = all[n]
      BY <1>4, <1>5, <1>7, <2>1, <3>0, <3>1, <3>11 DEF Decreasing
    <3>3. all[n] \in Nat /\ all[i] \in Nat  BY <1>1, <1>5, <2>1, <3>11, OrdersAre
    <3>4. o < items[Len(items)]  BY <1>7, <2>1, <3>2, <3>3
    <3> QED BY <1>7, <3>11, <3>4 DEF Covers
  <2> QED BY <2>2, <2>3
<1> QED BY <1>2, <1>7, <1>8, <1>9, <1>10, <1>11 DEF S, p

-----------------------------------------------------------------------------
(* The catalogue: what is asked, answered and shown *)

ListFields == {"filter", "orders", "hasMore", "loading", "error", "facets",
               "lastRequest", "since", "notifyOn"}
AskedFields == {"id", "filter", "reset", "shown", "after"}
AnswerFields == {"items", "hasMore", "at", "facets"}

\* Orders of one filter, the newest first.
IsListOf(s, f) == Decreasing(s) /\ \A i \in DOMAIN s : C!Suits(s[i], f)

\* Where the next page goes on.
EndOf(s) == IF Len(s) = 0 THEN 0 ELSE s[Len(s)]

CatalogType ==
    /\ open \subseteq Order
    /\ changes \in Nat /\ changedAt \in [Order -> Nat] /\ \A o \in Order : changedAt[o] <= changes
    /\ faults \in Nat
    /\ DOMAIN list = ListFields
    /\ list.lastRequest \in Nat /\ list.orders \in Seq(Order)
    /\ list.since \in Nat /\ list.since <= changes

IsCall(c) ==
    /\ DOMAIN c = AskedFields \/ DOMAIN c = AskedFields \cup AnswerFields
    /\ c.id \in Nat /\ c.id <= list.lastRequest
    /\ c.shown \in Seq(Order) /\ c.after \in Nat /\ (c.reset => c.after = 0)

\* An answer has orders that suit and are older than those shown, and covers all
\* that stay open since.
IsAnswer(c) ==
    /\ c.items \in Seq(Order) /\ IsListOf(c.items, c.filter)
    /\ c.at \in Nat /\ c.at <= changes
    /\ c.after # 0 => \A i \in DOMAIN c.items : c.items[i] < c.after
    /\ \A o \in open :
         C!Suits(o, c.filter) /\ changedAt[o] <= c.at /\ (c.after = 0 \/ o < c.after)
            => Covers(c.items, c.hasMore, o)

\* The last request is for the chosen filters, and goes on where the list ends.
IsForList(c) ==
    /\ list.loading /\ c.filter = list.filter
    /\ ~c.reset => /\ c.shown = list.orders /\ c.after = EndOf(list.orders)
                   /\ C!Answered(c) => list.since <= c.at

CallsInv ==
    /\ \A c \in calls : IsCall(c) /\ (C!Answered(c) => IsAnswer(c))
    /\ \A c, d \in calls : c.id = d.id => c = d
    /\ \A c \in calls : c.id = list.lastRequest => IsForList(c)

\* The list is of the chosen filters, unless it is to be replaced.
IsShown ==
    /\ IsListOf(list.orders, list.filter)
    /\ \A o \in open : C!Suits(o, list.filter) /\ changedAt[o] <= list.since
                          => Covers(list.orders, list.hasMore, o)
Replaced == \E c \in calls : c.id = list.lastRequest /\ c.reset

CatalogInv ==
    /\ CatalogType /\ CallsInv
    /\ faults = 0 /\ ~Replaced => IsShown

-----------------------------------------------------------------------------
(* Steps of the catalogue *)

LEMMA CatalogInit == Init => CatalogInv
<1> SUFFICES ASSUME C!Init PROVE CatalogInv  BY DEF Init
<1>1. PICK p \in VideoPlatform \cup {All} :
        LET l == C!Opened(p)
        IN /\ list = [l EXCEPT !.lastRequest = 1, !.loading = TRUE]
           /\ calls = {C!Requested(l.filter, TRUE, l)}
  BY DEF C!Init
<1> DEFINE l == C!Opened(p)
           c == C!Requested(l.filter, TRUE, l)
<1>2. /\ DOMAIN list = ListFields /\ list.lastRequest = 1 /\ list.loading
      /\ list.orders = <<>> /\ list.since = 0 /\ list.filter = l.filter
  BY <1>1 DEF C!Opened, ListFields
<1>3. calls = {c}  BY <1>1
<1>4. /\ DOMAIN c = AskedFields /\ c.id = 1 /\ c.filter = l.filter /\ c.reset
      /\ c.shown = <<>> /\ c.after = 0
  BY DEF C!Requested, C!Opened, AskedFields
<1>5. ~C!Answered(c)  BY <1>4 DEF C!Answered, AskedFields
<1> HIDE DEF l, c
<1>6. CatalogType
  <2>1. /\ open \subseteq Order /\ changes = 0 /\ faults = 0
        /\ changedAt = [o \in Order |-> 0]
    BY DEF C!Init
  <2>2. changedAt \in [Order -> Nat] /\ \A o \in Order : changedAt[o] <= changes
    BY <2>1
  <2>3. <<>> \in Seq(Order)  OBVIOUS
  <2> QED BY <1>2, <2>1, <2>2, <2>3 DEF CatalogType
<1>7. IsCall(c) /\ IsForList(c)  BY <1>2, <1>4 DEF IsCall, IsForList
<1>8. CallsInv  BY <1>3, <1>5, <1>7 DEF CallsInv
<1>9. Replaced  BY <1>2, <1>3, <1>4 DEF Replaced
<1> QED BY <1>6, <1>8, <1>9 DEF CatalogInv

\* Caches of facets, and whether the creator hears of new orders, are beside that.
LEMMA CatalogBeside ==
    ASSUME CatalogInv, UNCHANGED <<open, changes, changedAt, calls, faults>>,
           DOMAIN list' = ListFields,
           \A field \in ListFields \ {"notifyOn"} : list'[field] = list[field]
    PROVE  CatalogInv'
<1>1. /\ list'.filter = list.filter /\ list'.orders = list.orders
      /\ list'.hasMore = list.hasMore /\ list'.loading = list.loading
      /\ list'.lastRequest = list.lastRequest /\ list'.since = list.since
  BY DEF ListFields
<1>2. CatalogType'  BY <1>1 DEF CatalogInv, CatalogType
<1>3. \A c : /\ IsCall(c)' <=> IsCall(c)
             /\ IsAnswer(c)' <=> IsAnswer(c)
             /\ IsForList(c)' <=> IsForList(c)
  BY <1>1 DEF IsCall, IsAnswer, IsForList
<1>4. CallsInv'  BY <1>1, <1>3 DEF CatalogInv, CallsInv
<1>5. IsShown' <=> IsShown  BY <1>1 DEF IsShown
<1>6. Replaced' <=> Replaced  BY <1>1 DEF Replaced
<1> QED BY <1>2, <1>4, <1>5, <1>6 DEF CatalogInv

LEMMA ChangeStep == ASSUME CatalogInv, NEW o \in Order, C!Change(o) PROVE CatalogInv'
<1>1. /\ UNCHANGED <<list, calls, faults>> /\ changes' = changes + 1
      /\ changedAt' = [changedAt EXCEPT ![o] = changes']
      /\ open' = open \ {o} \/ open' = open \cup {o}
  BY DEF C!Change
<1>2. /\ open \subseteq Order /\ changes \in Nat /\ changedAt \in [Order -> Nat]
      /\ \A p \in Order : changedAt[p] <= changes
      /\ list.since \in Nat /\ list.since <= changes
  BY DEF CatalogInv, CatalogType
<1>3. CatalogType'
  <2>1. changes' \in Nat /\ changedAt' \in [Order -> Nat] /\ list.since <= changes'
        /\ \A p \in Order : changedAt'[p] <= changes'
    BY <1>1, <1>2
  <2>2. open' \subseteq Order  BY <1>1, <1>2
  <2> QED BY <1>1, <2>1, <2>2 DEF CatalogInv, CatalogType
<1>4. ASSUME NEW p \in open', NEW t \in Nat, t <= changes, changedAt'[p] <= t
      PROVE  p \in open /\ changedAt[p] <= t
  <2>1. p # o  BY <1>1, <1>2, <1>4
  <2> QED BY <1>1, <1>2, <1>4, <2>1
<1>5. \A c \in calls : (IsAnswer(c) => IsAnswer(c)') /\ (IsForList(c)' <=> IsForList(c))
  <2> SUFFICES ASSUME NEW c \in calls
               PROVE  (IsAnswer(c) => IsAnswer(c)') /\ (IsForList(c)' <=> IsForList(c))
    OBVIOUS
  <2>1. IsForList(c)' <=> IsForList(c)  BY <1>1 DEF IsForList
  <2>2. ASSUME IsAnswer(c) PROVE IsAnswer(c)'
    <3>1. c.at \in Nat /\ c.at <= changes  BY <2>2 DEF IsAnswer
    <3>2. c.at <= changes'  BY <1>1, <1>2, <3>1
    <3> QED BY <1>1, <1>4, <2>2, <3>1, <3>2 DEF IsAnswer
  <2> QED BY <2>1, <2>2
<1>6. \A c \in calls : IsCall(c)' <=> IsCall(c)  BY <1>1 DEF IsCall
<1>7. CallsInv'  BY <1>1, <1>5, <1>6 DEF CatalogInv, CallsInv
<1>8. IsShown => IsShown'  BY <1>1, <1>2, <1>4 DEF IsShown
<1>9. Replaced' <=> Replaced  BY <1>1 DEF Replaced
<1> QED BY <1>1, <1>3, <1>7, <1>8, <1>9 DEF CatalogInv

\* The answer is what the server has of the filters at that moment.
LEMMA ServeStep == ASSUME CatalogInv, NEW c \in calls, C!Serve(c) PROVE CatalogInv'
<1> DEFINE p == C!listOpen(c.filter, c.after)
<1>1. PICK facets :
        calls' = (calls \ {c}) \cup
            {C!And(c, [items |-> p.items, hasMore |-> p.hasMore, at |-> changes,
                       facets |-> facets])}
  BY DEF C!Serve
<1> DEFINE d == C!And(c, [items |-> p.items, hasMore |-> p.hasMore, at |-> changes,
                          facets |-> facets])
<1>2. /\ ~C!Answered(c) /\ UNCHANGED <<open, changes, changedAt, list, faults>>
      /\ calls' = (calls \ {c}) \cup {d}
  BY <1>1 DEF C!Serve
<1>3. IsCall(c) /\ DOMAIN c = AskedFields
  BY <1>2 DEF CatalogInv, CallsInv, IsCall, C!Answered, AnswerFields
<1>4. /\ DOMAIN d = AskedFields \cup AnswerFields /\ d.id = c.id /\ d.filter = c.filter
      /\ d.reset = c.reset /\ d.shown = c.shown /\ d.after = c.after
      /\ d.items = p.items /\ d.hasMore = p.hasMore /\ d.at = changes
  BY <1>3 DEF C!And, AskedFields, AnswerFields
<1>5. open \subseteq Order /\ changes \in Nat  BY DEF CatalogInv, CatalogType
<1>6. /\ p.items \in Seq(Order) /\ Decreasing(p.items)
      /\ \A i \in DOMAIN p.items : p.items[i] \in C!After(c.after, c.filter)
      /\ \A o \in C!After(c.after, c.filter) : Covers(p.items, p.hasMore, o)
  BY <1>5, PageCovers
<1> HIDE DEF d, p
<1>7. IsAnswer(d)
  <2>1. IsListOf(d.items, d.filter)
    BY <1>4, <1>6 DEF IsListOf, C!After, C!openWhere
  <2>2. d.after # 0 => \A i \in DOMAIN d.items : d.items[i] < d.after
    BY <1>4, <1>6 DEF C!After
  <2>3. \A o \in open :
          C!Suits(o, d.filter) /\ (d.after = 0 \/ o < d.after) => Covers(d.items, d.hasMore, o)
    BY <1>4, <1>6 DEF C!After, C!openWhere
  <2> QED BY <1>4, <1>5, <1>6, <2>1, <2>2, <2>3 DEF IsAnswer
<1>8. IsCall(d)  BY <1>3, <1>4 DEF IsCall
<1>9. c.id = list.lastRequest => IsForList(d)
  <2>1. list.since <= d.at  BY <1>4 DEF CatalogInv, CatalogType
  <2> QED BY <1>4, <2>1 DEF CatalogInv, CallsInv, IsForList
<1>10. CatalogType'  BY <1>2 DEF CatalogInv, CatalogType
<1>11. \A e : /\ IsCall(e)' <=> IsCall(e)
              /\ IsAnswer(e)' <=> IsAnswer(e)
              /\ IsForList(e)' <=> IsForList(e)
  BY <1>2 DEF IsCall, IsAnswer, IsForList
<1>12. CallsInv'
  BY <1>2, <1>4, <1>7, <1>8, <1>9, <1>11 DEF CatalogInv, CallsInv
<1>13. Replaced' <=> Replaced  BY <1>2, <1>4 DEF Replaced
<1>14. IsShown' <=> IsShown  BY <1>2 DEF IsShown
<1> QED BY <1>2, <1>10, <1>12, <1>13, <1>14 DEF CatalogInv

\* One request fewer.
LEMMA CallsFewer ==
    ASSUME CallsInv, NEW c \in calls, calls' = calls \ {c}, UNCHANGED <<open, changes, changedAt>>,
           list'.lastRequest = list.lastRequest,
           \/ c.id = list.lastRequest
           \/ list' = list
    PROVE  CallsInv'
<1>1. \A d : IsCall(d)' <=> IsCall(d)  BY DEF IsCall
<1>2. \A d : IsAnswer(d)' <=> IsAnswer(d)  BY DEF IsAnswer
<1>3. CASE list' = list
  <2>1. \A d : IsForList(d)' <=> IsForList(d)  BY <1>3 DEF IsForList
  <2> QED BY <1>1, <1>2, <1>3, <2>1 DEF CallsInv
<1>4. CASE c.id = list.lastRequest
  <2>1. \A d \in calls' : d.id # list'.lastRequest  BY <1>4 DEF CallsInv
  <2> QED BY <1>1, <1>2, <2>1 DEF CallsInv
<1> QED BY <1>3, <1>4

LEMMA FailStep == ASSUME CatalogInv, NEW c \in calls, C!Fail(c) PROVE CatalogInv'
<1>1. /\ faults' = faults + 1 /\ UNCHANGED <<open, changes, changedAt>> /\ calls' = calls \ {c}
      /\ \/ list' = list
         \/ c.id = list.lastRequest /\ list' = [list EXCEPT !.error = TRUE, !.loading = FALSE]
  BY DEF C!Fail, C!isLast
<1>2. /\ DOMAIN list' = ListFields /\ list'.lastRequest = list.lastRequest
      /\ list'.orders = list.orders /\ list'.since = list.since
  BY <1>1 DEF CatalogInv, CatalogType, ListFields
<1>3. CatalogType' /\ faults' # 0  BY <1>1, <1>2 DEF CatalogInv, CatalogType
<1>4. CallsInv'
  BY <1>1, <1>2, CallsFewer DEF CatalogInv
<1> QED BY <1>3, <1>4 DEF CatalogInv

\* Two pages, one after the other.
LEMMA Joined ==
    ASSUME NEW s \in Seq(Order), NEW t \in Seq(Order)
    PROVE  /\ s \o t \in Seq(Order) /\ Len(s \o t) = Len(s) + Len(t)
           /\ Len(s) \in Nat /\ Len(t) \in Nat
           /\ DOMAIN s = 1 .. Len(s) /\ DOMAIN t = 1 .. Len(t)
           /\ DOMAIN (s \o t) = 1 .. Len(s) + Len(t)
           /\ \A i \in DOMAIN s : (s \o t)[i] = s[i]
           /\ \A i \in DOMAIN t : (s \o t)[Len(s) + i] = t[i]
           /\ \A i \in DOMAIN (s \o t) :
                \/ i \in DOMAIN s
                \/ i - Len(s) \in DOMAIN t /\ (s \o t)[i] = t[i - Len(s)] /\ i > Len(s)
OBVIOUS

LEMMA EndIs ==
    ASSUME NEW s \in Seq(Order)
    PROVE  /\ EndOf(s) \in Nat /\ (EndOf(s) = 0 <=> Len(s) = 0)
           /\ EndOf(s) # 0 => Len(s) \in DOMAIN s /\ EndOf(s) = s[Len(s)]
<1>1. Len(s) \in Nat /\ DOMAIN s = 1 .. Len(s) /\ \A i \in DOMAIN s : s[i] \in Order
  OBVIOUS
<1>2. \A o \in Order : o \in Nat /\ o # 0  BY OrdersAre
<1>3. CASE Len(s) = 0  BY <1>3 DEF EndOf
<1>4. CASE Len(s) # 0
  <2>1. Len(s) \in DOMAIN s  BY <1>1, <1>4
  <2> QED BY <1>1, <1>2, <1>4, <2>1 DEF EndOf
<1> QED BY <1>3, <1>4

LEMMA JoinedList ==
    ASSUME NEW s \in Seq(Order), NEW t \in Seq(Order), NEW f, IsListOf(s, f), IsListOf(t, f),
           EndOf(s) # 0 => \A i \in DOMAIN t : t[i] < EndOf(s)
    PROVE  IsListOf(s \o t, f)
<1> DEFINE r == s \o t
<1>1. /\ Len(s) \in Nat /\ DOMAIN s = 1 .. Len(s) /\ DOMAIN t = 1 .. Len(t) /\ Len(t) \in Nat
      /\ \A i \in DOMAIN s : r[i] = s[i]
      /\ DOMAIN r = 1 .. Len(s) + Len(t)
      /\ \A i \in DOMAIN r :
           \/ i \in DOMAIN s
           \/ i - Len(s) \in DOMAIN t /\ r[i] = t[i - Len(s)] /\ i > Len(s)
  BY Joined
<1> HIDE DEF r
<1>2. \A i \in DOMAIN s : s[i] \in Order  OBVIOUS
<1>3. \A i \in DOMAIN t : t[i] \in Order  OBVIOUS
<1>4. \A o \in Order : o \in Nat  BY OrdersAre
<1>5. ASSUME NEW i \in DOMAIN r, NEW j \in DOMAIN r, i < j PROVE r[i] > r[j]
  <2>0. i \in Nat /\ j \in Nat  BY <1>1
  <2>1. CASE j \in DOMAIN s
    <3>1. i \in DOMAIN s  BY <1>1, <1>5, <2>0, <2>1
    <3> QED BY <1>1, <1>5, <2>1, <3>1 DEF IsListOf, Decreasing
  <2>2. CASE i \notin DOMAIN s
    <3>1. j \notin DOMAIN s  BY <1>1, <1>5, <2>0, <2>2
    <3>2. i - Len(s) < j - Len(s)  BY <1>1, <1>5, <2>0
    <3> QED BY <1>1, <2>2, <3>1, <3>2 DEF IsListOf, Decreasing
  <2>3. CASE i \in DOMAIN s /\ j \notin DOMAIN s
    <3>1. Len(s) # 0 /\ Len(s) \in DOMAIN s  BY <1>1, <2>3
    <3>2. EndOf(s) = s[Len(s)] /\ EndOf(s) # 0  BY <3>1, EndIs
    <3>3. r[j] = t[j - Len(s)] /\ j - Len(s) \in DOMAIN t  BY <1>1, <2>3
    <3>4. r[j] < s[Len(s)]  BY <3>2, <3>3
    <3>5. i <= Len(s)  BY <1>1, <2>3
    <3>6. i = Len(s) \/ s[i] > s[Len(s)]
      BY <1>1, <2>0, <2>3, <3>1, <3>5 DEF IsListOf, Decreasing
    <3>7. r[i] = s[i]  BY <1>1, <2>3
    <3>8. r[j] \in Nat /\ s[i] \in Nat /\ s[Len(s)] \in Nat
      BY <1>2, <1>3, <1>4, <2>3, <3>1, <3>3
    <3> QED BY <3>4, <3>6, <3>7, <3>8
  <2> QED BY <2>1, <2>2, <2>3
<1>6. \A i \in DOMAIN r : C!Suits(r[i], f)  BY <1>1 DEF IsListOf
<1> QED BY <1>5, <1>6 DEF IsListOf, Decreasing, r

LEMMA JoinedCovers ==
    ASSUME NEW s \in Seq(Order), NEW t \in Seq(Order), NEW o, NEW had, NEW hasMore,
           Covers(s, had, o),
           EndOf(s) # 0 /\ o < EndOf(s) => Covers(t, hasMore, o)
    PROVE  Covers(s \o t, hasMore, o)
<1> DEFINE r == s \o t
<1>1. /\ Len(s) \in Nat /\ DOMAIN s = 1 .. Len(s) /\ DOMAIN t = 1 .. Len(t) /\ Len(t) \in Nat
      /\ \A i \in DOMAIN s : r[i] = s[i]
      /\ DOMAIN r = 1 .. Len(s) + Len(t) /\ Len(r) = Len(s) + Len(t)
      /\ \A i \in DOMAIN t : r[Len(s) + i] = t[i]
  BY Joined
<1> HIDE DEF r
<1>2. CASE \E i \in DOMAIN s : s[i] = o
  <2>1. PICK i \in DOMAIN s : s[i] = o  BY <1>2
  <2>2. i \in DOMAIN r /\ r[i] = o  BY <1>1, <2>1
  <2> QED BY <2>2 DEF Covers, r
<1>3. CASE ~\E i \in DOMAIN s : s[i] = o
  <2>1. Len(s) > 0 /\ o < s[Len(s)]  BY <1>3 DEF Covers
  <2>2. EndOf(s) # 0 /\ o < EndOf(s)
    <3>1. Len(s) # 0  BY <2>1
    <3> QED BY <2>1, <3>1, EndIs DEF EndOf
  <2>3. Covers(t, hasMore, o)  BY <2>2
  <2>4. CASE \E i \in DOMAIN t : t[i] = o
    <3>1. PICK i \in DOMAIN t : t[i] = o  BY <2>4
    <3>2. Len(s) + i \in DOMAIN r /\ r[Len(s) + i] = o  BY <1>1, <3>1
    <3> QED BY <3>2 DEF Covers, r
  <2>5. CASE hasMore /\ Len(t) > 0 /\ o < t[Len(t)]
    <3>1. Len(t) \in DOMAIN t  BY <1>1, <2>5
    <3>2. Len(r) > 0 /\ r[Len(r)] = t[Len(t)]  BY <1>1, <2>5, <3>1
    <3> QED BY <2>5, <3>2 DEF Covers, r
  <2> QED BY <2>3, <2>4, <2>5 DEF Covers
<1> QED BY <1>2, <1>3

LEMMA ArriveStep == ASSUME CatalogInv, NEW c \in calls, C!Arrive(c) PROVE CatalogInv'
<1>1. C!Answered(c) /\ UNCHANGED <<open, changes, changedAt, faults>> /\ calls' = calls \ {c}
  BY DEF C!Arrive
<1>2. IsCall(c) /\ IsAnswer(c)  BY <1>1 DEF CatalogInv, CallsInv
<1>3. CASE c.id # list.lastRequest
  <2>1. list' = list  BY <1>3 DEF C!Arrive, C!isLast
  <2>2. CatalogType'  BY <1>1, <2>1 DEF CatalogInv, CatalogType
  <2>3. CallsInv'  BY <1>1, <2>1, CallsFewer DEF CatalogInv
  <2>4. IsShown' <=> IsShown  BY <1>1, <2>1 DEF IsShown
  <2>5. Replaced' <=> Replaced  BY <1>1, <1>3, <2>1 DEF Replaced
  <2> QED BY <1>1, <2>2, <2>3, <2>4, <2>5 DEF CatalogInv
<1>4. CASE c.id = list.lastRequest
  <2> DEFINE s == IF c.reset THEN c.items ELSE c.shown \o c.items
             facets == IF c.facets = All THEN list.facets ELSE c.facets
             since == IF c.reset THEN c.at ELSE list.since
  <2>1. list' = [list EXCEPT !.orders = s, !.hasMore = c.hasMore, !.loading = FALSE,
                             !.facets = facets, !.since = since]
    BY <1>4 DEF C!Arrive, C!isLast
  <2>2. IsForList(c)  BY <1>4 DEF CatalogInv, CallsInv
  <2>3. /\ c.items \in Seq(Order) /\ c.shown \in Seq(Order) /\ c.at \in Nat /\ c.at <= changes
        /\ c.filter = list.filter /\ list.since \in Nat /\ list.since <= changes
        /\ DOMAIN list = ListFields /\ list.orders \in Seq(Order)
        /\ open \subseteq Order /\ changedAt \in [Order -> Nat]
    BY <1>2, <2>2 DEF IsCall, IsAnswer, IsForList, CatalogInv, CatalogType
  <2>4. s \in Seq(Order) /\ since \in Nat /\ since <= changes  BY <2>3
  <2>5. faults = 0 =>
          /\ IsListOf(s, list.filter)
          /\ \A o \in open : C!Suits(o, list.filter) /\ changedAt[o] <= since
                                => Covers(s, c.hasMore, o)
    <3> SUFFICES ASSUME faults = 0
                 PROVE  /\ IsListOf(s, list.filter)
                        /\ \A o \in open : C!Suits(o, list.filter) /\ changedAt[o] <= since
                                => Covers(s, c.hasMore, o)
      OBVIOUS
    <3>1. CASE c.reset
      <4>1. c.after = 0 /\ s = c.items /\ since = c.at  BY <1>2, <3>1 DEF IsCall
      <4> QED BY <1>2, <2>3, <4>1 DEF IsAnswer
    <3>2. CASE ~c.reset
      <4>1. ~Replaced  BY <1>4, <3>2 DEF Replaced, CatalogInv, CallsInv
      <4>2. /\ IsShown /\ c.shown = list.orders /\ c.after = EndOf(list.orders)
            /\ list.since <= c.at
        BY <1>1, <2>2, <3>2, <4>1 DEF CatalogInv, IsForList
      <4>3. s = list.orders \o c.items /\ since = list.since  BY <3>2, <4>2
      <4>4. IsListOf(s, list.filter)
        BY <1>2, <2>3, <4>2, <4>3, JoinedList DEF IsAnswer, IsShown
      <4>5. ASSUME NEW o \in open, C!Suits(o, list.filter), changedAt[o] <= since
            PROVE  Covers(s, c.hasMore, o)
        <5>1. Covers(list.orders, list.hasMore, o)  BY <4>2, <4>3, <4>5 DEF IsShown
        <5>2. changedAt[o] <= c.at
          <6>1. changedAt[o] \in Nat  BY <2>3
          <6> QED BY <2>3, <4>2, <4>3, <4>5, <6>1
        <5>3. EndOf(list.orders) # 0 /\ o < EndOf(list.orders) => Covers(c.items, c.hasMore, o)
          BY <1>2, <2>3, <4>2, <4>5, <5>2 DEF IsAnswer
        <5> QED BY <2>3, <4>3, <5>1, <5>3, JoinedCovers
      <4> QED BY <4>4, <4>5
    <3> QED BY <3>1, <3>2
  <2> HIDE DEF s, facets, since
  <2>6. /\ DOMAIN list' = ListFields
        /\ list'.orders = s /\ list'.hasMore = c.hasMore /\ list'.since = since
        /\ list'.filter = list.filter /\ list'.lastRequest = list.lastRequest
    BY <2>1, <2>3 DEF ListFields
  <2>7. CatalogType'  BY <1>1, <2>4, <2>6 DEF CatalogInv, CatalogType
  <2>8. CallsInv'  BY <1>1, <1>4, <2>6, CallsFewer DEF CatalogInv
  <2>9. faults = 0 => IsShown'  BY <1>1, <2>5, <2>6 DEF IsShown
  <2> QED BY <1>1, <2>7, <2>8, <2>9 DEF CatalogInv
<1> QED BY <1>3, <1>4

\* A page is asked for: the first of chosen filters, or the next one of those shown.
LEMMA LoadStep ==
    ASSUME CatalogInv, NEW filter, NEW reset \in BOOLEAN, C!load(filter, reset, list),
           UNCHANGED <<open, changes, changedAt, faults>>,
           reset \/ (~list.loading /\ filter = list.filter)
    PROVE  CatalogInv'
<1>0. PICK c : c = C!Requested(filter, reset, list)  OBVIOUS
<1>1. /\ list' = [list EXCEPT !.filter = filter, !.lastRequest = list.lastRequest + 1,
                              !.loading = TRUE, !.error = FALSE]
      /\ calls' = calls \cup {c}
  BY <1>0 DEF C!load
<1>2. /\ DOMAIN list = ListFields /\ list.lastRequest \in Nat /\ list.orders \in Seq(Order)
      /\ list.since \in Nat /\ list.since <= changes
  BY DEF CatalogInv, CatalogType
<1>3. /\ DOMAIN list' = ListFields /\ list'.filter = filter
      /\ list'.lastRequest = list.lastRequest + 1 /\ list'.loading
      /\ list'.orders = list.orders /\ list'.since = list.since /\ list'.hasMore = list.hasMore
  BY <1>1, <1>2 DEF ListFields
<1>4. /\ DOMAIN c = AskedFields /\ c.id = list.lastRequest + 1 /\ c.filter = filter /\ c.reset = reset
      /\ c.shown = list.orders
      /\ c.after = IF reset \/ list.orders = <<>> THEN 0 ELSE list.orders[Len(list.orders)]
  BY <1>0 DEF C!Requested, C!Last, AskedFields
<1>5. EndOf(list.orders) \in Nat /\ (~reset => c.after = EndOf(list.orders))
      /\ (reset => c.after = 0)
  <2>1. Len(list.orders) = 0 <=> list.orders = <<>>  BY <1>2
  <2> QED BY <1>2, <1>4, <2>1, EndIs DEF EndOf
<1>6. ~C!Answered(c)  BY <1>4 DEF C!Answered, AskedFields
<1>7. IsCall(c)' /\ IsForList(c)'
  <2>1. C!Answered(c)' <=> C!Answered(c)  BY DEF C!Answered
  <2>2. c.after \in Nat  BY <1>4, <1>5
  <2>3. IsCall(c)'  BY <1>2, <1>3, <1>4, <1>5, <2>2 DEF IsCall
  <2> QED BY <1>3, <1>4, <1>5, <1>6, <2>1, <2>3 DEF IsForList
<1>8. CatalogType'  BY <1>2, <1>3 DEF CatalogInv, CatalogType
<1>9. \A d \in calls : /\ IsCall(d)' /\ d.id # list'.lastRequest
                       /\ IsAnswer(d)' <=> IsAnswer(d)
  <2> SUFFICES ASSUME NEW d \in calls
               PROVE  /\ IsCall(d)' /\ d.id # list'.lastRequest
                      /\ IsAnswer(d)' <=> IsAnswer(d)
    OBVIOUS
  <2>1. IsCall(d)  BY DEF CatalogInv, CallsInv
  <2> QED BY <1>2, <1>3, <2>1 DEF IsCall, IsAnswer
<1>10. CallsInv'
  <2>1. c.id = list'.lastRequest  BY <1>3, <1>4
  <2>2. \A d \in calls' : IsCall(d)' /\ (C!Answered(d) => IsAnswer(d)')
    BY <1>1, <1>6, <1>7, <1>9 DEF CatalogInv, CallsInv
  <2>3. \A d, e \in calls' : d.id = e.id => d = e
    BY <1>1, <1>9, <2>1 DEF CatalogInv, CallsInv
  <2>4. \A d \in calls' : d.id = list'.lastRequest => IsForList(d)'
    BY <1>1, <1>7, <1>9
  <2> QED BY <2>2, <2>3, <2>4 DEF CallsInv
<1>11. CASE reset
  <2>1. Replaced'  BY <1>1, <1>3, <1>4, <1>11 DEF Replaced
  <2> QED BY <1>8, <1>10, <2>1 DEF CatalogInv
<1>12. CASE ~reset
  <2>1. ~Replaced  BY <1>12 DEF Replaced, CatalogInv, CallsInv, IsForList
  <2>2. IsShown' <=> IsShown  BY <1>3, <1>12 DEF IsShown
  <2> QED BY <1>8, <1>10, <2>1, <2>2 DEF CatalogInv
<1> QED BY <1>11, <1>12

LEMMA CatalogNext == ASSUME CatalogInv, C!Next PROVE CatalogInv'
<1>1. CASE C!Server
  <2>1. ASSUME NEW f \in C!Filter, C!Stale(f) PROVE CatalogInv'
    <3>1. UNCHANGED <<open, changes, changedAt, list, calls, faults>>  BY <2>1 DEF C!Stale
    <3> QED BY <3>1, CatalogBeside DEF CatalogInv, CatalogType
  <2> QED BY <1>1, <2>1, ChangeStep, ServeStep DEF C!Server
<1>2. CASE C!Answers  BY <1>2, ArriveStep, FailStep DEF C!Answers
<1>3. ASSUME NEW f, C!setFilter(f) PROVE CatalogInv'
  <2>1. C!load(f, TRUE, list) /\ UNCHANGED <<open, changes, changedAt, faults>>
    BY <1>3 DEF C!setFilter
  <2> QED BY <2>1, LoadStep
<1>4. CASE C!Retry
  <2>1. C!load(list.filter, TRUE, list) /\ UNCHANGED <<open, changes, changedAt, faults>>
    BY <1>4 DEF C!Retry
  <2> QED BY <2>1, LoadStep
<1>5. CASE C!More
  <2>1. /\ C!load(list.filter, FALSE, list) /\ UNCHANGED <<open, changes, changedAt, faults>>
        /\ ~list.loading
    BY <1>5 DEF C!More, C!mayAskMore
  <2> QED BY <2>1, LoadStep
<1>6. CASE C!AskProfile \/ C!notifyMe
  <2>1. /\ UNCHANGED <<open, changes, changedAt, calls, faults>>
        /\ \E on : list' = [list EXCEPT !.notifyOn = on]
    BY <1>6 DEF C!AskProfile, C!notifyMe
  <2>2. DOMAIN list = ListFields  BY DEF CatalogInv, CatalogType
  <2>3. /\ DOMAIN list' = ListFields
        /\ \A field \in ListFields \ {"notifyOn"} : list'[field] = list[field]
    BY <2>1, <2>2
  <2> QED BY <2>1, <2>3, CatalogBeside
<1> QED
  BY <1>1, <1>2, <1>3, <1>4, <1>5, <1>6
  DEF C!Next, C!Creator, C!setPlatform, C!setCategory, C!resetFilters

LEMMA CatalogStepKeeps == CatalogInv /\ [Next]_vars => CatalogInv'
<1> SUFFICES ASSUME CatalogInv, [Next]_vars PROVE CatalogInv'  OBVIOUS
<1>1. CASE C!Next  BY <1>1, CatalogNext
<1>2. CASE UNCHANGED catalogVars
  <2>1. UNCHANGED <<open, changes, changedAt, list, calls, faults>>  BY <1>2 DEF catalogVars
  <2> QED BY <2>1, CatalogBeside DEF CatalogInv, CatalogType
<1> QED BY <1>1, <1>2 DEF Next, CatalogStep, WorkStep, ProfileStep, BalanceStep, vars

\* A quiet screen waits for no page.
LEMMA QuietIsShown == ASSUME CatalogInv, C!Quiet, faults = 0 PROVE IsShown
<1>1. ~Replaced  BY DEF C!Quiet, Replaced, CatalogInv, CallsInv, IsForList
<1> QED BY <1>1 DEF CatalogInv

\* A list in order has each order once, and so no more than there are.
LEMMA DecreasingIsPage ==
    ASSUME NEW s \in Seq(Order), Decreasing(s)
    PROVE  s \in C!Page
<1> DEFINE n == Len(s)
<1>1. n \in Nat /\ s \in [1 .. n -> Order] /\ DOMAIN s = 1 .. n  OBVIOUS
<1>2. \A o \in Order : o \in Nat  BY OrdersAre
<1>3. \A i, j \in 1 .. n : s[i] = s[j] => i = j
  <2> SUFFICES ASSUME NEW i \in 1 .. n, NEW j \in 1 .. n, s[i] = s[j] PROVE i = j  OBVIOUS
  <2>1. s[i] \in Nat /\ s[j] \in Nat  BY <1>1, <1>2
  <2>2. ~(i < j) /\ ~(j < i)  BY <1>1, <2>1 DEF Decreasing
  <2> QED BY <1>1, <2>2
<1> HIDE DEF n
<1>4. s \in Injection(1 .. n, Order)  BY <1>1, <1>3 DEF Injection, IsInjective
<1>5. IsFiniteSet(Order)  BY OrdersAre
<1>6. Cardinality(1 .. n) <= Cardinality(Order)  BY <1>4, <1>5, FS_Injection
<1>7. Cardinality(1 .. n) = IF 1 > n THEN 0 ELSE n - 1 + 1  BY <1>1, FS_Interval
<1>8. Cardinality(Order) \in Nat  BY <1>5, FS_CardinalityType
<1>9. n \in 0 .. Cardinality(Order)  BY <1>1, <1>6, <1>7, <1>8
<1> QED BY <1>1, <1>9 DEF C!Page, C!Cardinality, Cardinality, Decreasing

\* However filters are switched and answers overtake each other, a quiet screen
\* shows orders of the chosen filters only, the newest first and each once, as long
\* as no page failed (Catalog.tsx load).
THEOREM AlwaysOfOneFilter == Spec => []OneFilter
<1>1. CatalogInv => OneFilter
  <2> SUFFICES ASSUME CatalogInv, C!Quiet, faults = 0
               PROVE  /\ list.orders \in C!Page
                      /\ \A o \in C!ToSet(list.orders) : C!Suits(o, list.filter)
    BY DEF OneFilter, C!OneFilter
  <2>1. IsListOf(list.orders, list.filter)  BY QuietIsShown DEF IsShown
  <2>2. list.orders \in Seq(Order)  BY DEF CatalogInv, CatalogType
  <2> QED BY <2>1, <2>2, DecreasingIsPage DEF IsListOf, C!ToSet
<1> QED BY CatalogInit, CatalogStepKeeps, <1>1, PTL DEF Spec

\* No order that stays open and suits is skipped between two pages: it is on the
\* screen, or older than all that is, and there is more (OrdersService.listOpen).
THEOREM NothingEverSkipped == Spec => []NothingSkipped
<1>1. CatalogInv => NothingSkipped
  <2> SUFFICES ASSUME CatalogInv, C!Quiet, faults = 0,
                      NEW o \in C!openWhere(list.filter), changedAt[o] <= list.since
               PROVE  \/ o \in C!ToSet(list.orders)
                      \/ list.hasMore /\ list.orders # <<>> /\ o < C!Last(list.orders)
    BY DEF NothingSkipped, C!NothingSkipped
  <2>1. Covers(list.orders, list.hasMore, o)  BY QuietIsShown DEF IsShown, C!openWhere
  <2>2. list.orders \in Seq(Order)  BY DEF CatalogInv, CatalogType
  <2>3. Len(list.orders) > 0 => list.orders # <<>>  BY <2>2
  <2> QED BY <2>1, <2>3 DEF Covers, C!ToSet, C!Last
<1> QED BY CatalogInit, CatalogStepKeeps, <1>1, PTL DEF Spec
=============================================================================
