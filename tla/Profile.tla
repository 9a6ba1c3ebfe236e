------------------------------- MODULE Profile -------------------------------
(***************************************************************************)
(* A creator's own profile on the screens of both apps                     *)
(* (src/web/src/creator/Profile.tsx, src/webapp/src/views/ProfileView.tsx) *)
(* and the endpoints behind it (src/src/profiles).                         *)
(*                                                                         *)
(* The screen holds a copy of the row, two editors (links, wallet) and a   *)
(* switch; each save goes on its own and the copy is read again after it.  *)
(* Answers are late or lost, and the other app may be open beside.         *)
(***************************************************************************)
EXTENDS Naturals, Sequences, SequencesExt

CONSTANTS
    Client,
    MAX_LINKS,          \* of the form
    MAX_SOCIAL_LINKS,   \* of the server
    Links,              \* what is typed in the field of a link
    Wallets,            \* and of a wallet
    StartLinks,         \* the links stored to begin with
    MaxHand,            \* bound: things done by hand
    MaxFaults           \* bound: requests that fail

\* What the constants must be; assumed by Creator.
ProfileAssumption ==
    /\ Client \subseteq {"web", "mini"}
    /\ MAX_LINKS \in Nat /\ MAX_SOCIAL_LINKS \in Nat /\ MAX_LINKS <= MAX_SOCIAL_LINKS
    /\ MaxHand \in Nat /\ MaxFaults \in Nat

VARIABLES
    user,      \* the row: links, wallet, whether the wallet is marked as
               \* changed, the switch of the notifications
    screen,    \* of each app
    call,      \* its requests: two reads, one save, two of the switch
    hand, faults,
    replaced,  \* history: another wallet was put in the place of one
    beside     \* history: two saves of the wallet overlapped; by app, since its
               \* last read that was alone, a request was lost, a save ran
               \* beside another request, or the other app saved

bounds == <<hand, faults>>
history == <<replaced, beside>>
vars == <<user, screen, call, bounds, history>>

\* The reading of a screen that opens or is tried again, and that after a save.
Reads == {"load", "reload"}
Slot == Reads \cup {"put", "switch1", "switch2"}
Idle == [at |-> "idle"]
Nothing == [links |-> <<>>, wallet |-> "none", notify |-> FALSE, here |-> FALSE]
Blank == [p |-> Nothing, error |-> FALSE, busy |-> FALSE,
          editing |-> FALSE, links |-> <<>>, newLink |-> "none",
          editingWallet |-> FALSE, wallet |-> "none"]

-----------------------------------------------------------------------------
(* What the server makes of links and of a wallet *)

\* A link as the parser of addresses writes it.
toString(l) == IF l = "Tube" THEN "tube" ELSE l
ofPlatform(l) == toString(l) \in {"tube", "tok", "gram"}

\* In their order, each once, empty lines left out.
normal(ls) == FoldLeft(LAMBDA done, l :
    IF l = "none" \/ toString(l) \in {done[i] : i \in DOMAIN done} THEN done
    ELSE Append(done, toString(l)), <<>>, ls)

parseLinks(ls) ==
    /\ \A i \in DOMAIN ls : ls[i] # "none" => ofPlatform(ls[i])
    /\ Len(normal(ls)) <= MAX_SOCIAL_LINKS

\* Base58 and the checksum; an empty field takes the wallet away.
isTrc20Address(w) == w \in {"w1", "w2"}
parseWallet(w) == w = "none" \/ isTrc20Address(w)

profile == [links |-> user.links, wallet |-> user.wallet, notify |-> user.notify, here |-> TRUE]

-----------------------------------------------------------------------------
(* The screens *)

\* What a read puts on the screen of the site, ...
loadedWeb(s, p) == [s EXCEPT !.p = p]

\* ... and on that of the mini-app: the list in the editor is set anew.
loadedMini(s, p) == [s EXCEPT !.p = p, !.links = p.links]

loaded(c, p) == IF c = "web" THEN loadedWeb(screen[c], p) ELSE loadedMini(screen[c], p)

Hand == hand < MaxHand /\ hand' = hand + 1
Set(c, s) == screen' = [screen EXCEPT ![c] = s]
Shows(c) == screen[c].p.here /\ ~screen[c].error
Asks(c, slot, what, val) ==
    call' = [call EXCEPT ![c][slot] = [at |-> "sent", what |-> what, val |-> val]]

\* The screen is opened, or its reading is tried again.
Load(c) ==
    /\ call[c]["load"] = Idle
    /\ ~screen[c].p.here \/ screen[c].error
    /\ Set(c, [screen[c] EXCEPT !.error = FALSE])
    /\ Asks(c, "load", "load", Nothing)
    /\ UNCHANGED <<user, bounds, history>>

startLinks(c) ==
    /\ Shows(c) /\ ~screen[c].editing /\ Hand
    /\ Set(c, [screen[c] EXCEPT !.editing = TRUE, !.links = screen[c].p.links,
                                !.newLink = "none"])
    /\ UNCHANGED <<user, call, faults, history>>

TypeLink(c) ==
    /\ Shows(c) /\ screen[c].editing /\ Len(screen[c].links) < MAX_LINKS /\ Hand
    /\ \E l \in Links : Set(c, [screen[c] EXCEPT !.newLink = l])
    /\ UNCHANGED <<user, call, faults, history>>

addLink(c) ==
    /\ Shows(c) /\ screen[c].editing /\ Len(screen[c].links) < MAX_LINKS
    /\ screen[c].newLink # "none"
    /\ LET new == screen[c].newLink
           ls == screen[c].links
       IN Set(c, [screen[c] EXCEPT !.newLink = "none",
              !.links = IF new \in {ls[i] : i \in DOMAIN ls} THEN ls ELSE Append(ls, new)])
    /\ UNCHANGED <<user, call, bounds, history>>

removeLink(c) ==
    /\ Shows(c) /\ screen[c].editing /\ Hand
    /\ \E i \in DOMAIN screen[c].links : Set(c, [screen[c] EXCEPT !.links = RemoveAt(@, i)])
    /\ UNCHANGED <<user, call, faults, history>>

\* A link typed and not yet added goes too.
typedLinks(c) == screen[c].links
    \o (IF screen[c].newLink = "none" THEN <<>> ELSE <<screen[c].newLink>>)

saveLinks(c) ==
    /\ Shows(c) /\ screen[c].editing /\ ~screen[c].busy
    /\ Set(c, [screen[c] EXCEPT !.busy = TRUE])
    /\ call' = [call EXCEPT ![c]["put"] = [at |-> "sent", what |-> "links",
                                           val |-> typedLinks(c)]]
    /\ UNCHANGED <<user, bounds, history>>

startWallet(c) ==
    /\ Shows(c) /\ ~screen[c].editingWallet /\ Hand
    /\ \E w \in Wallets : Set(c, [screen[c] EXCEPT !.editingWallet = TRUE, !.wallet = w])
    /\ UNCHANGED <<user, call, faults, history>>

saveWallet(c) ==
    /\ Shows(c) /\ screen[c].editingWallet /\ ~screen[c].busy
    /\ Set(c, [screen[c] EXCEPT !.busy = TRUE])
    /\ Asks(c, "put", "wallet", screen[c].wallet)
    /\ UNCHANGED <<user, bounds, history>>

Cancel(c) ==
    /\ Shows(c) /\ ~screen[c].busy
    /\ \/ screen[c].editing /\ Set(c, [screen[c] EXCEPT !.editing = FALSE])
       \/ screen[c].editingWallet /\ Set(c, [screen[c] EXCEPT !.editingWallet = FALSE])
    /\ UNCHANGED <<user, call, bounds, history>>

\* The switch shows the copy: pressed twice before an answer it asks for the
\* same twice.
toggleNewOrders(c) ==
    /\ Shows(c) /\ Hand
    /\ \E s \in {"switch1", "switch2"} :
          call[c][s] = Idle /\ Asks(c, s, "notify", ~screen[c].p.notify)
    /\ UNCHANGED <<user, screen, faults, history>>

-----------------------------------------------------------------------------
(* The server *)

\* A save while a read is under way: which of them the copy shows is a matter
\* of luck; nor does a screen see what the other app saves.
Overlaps(c) == beside' = [d \in DOMAIN beside |->
    IF d = "wallet" THEN beside[d]
    ELSE beside[d] \/ d # c \/ \E s \in Slot : s # "put" /\ call[c][s] # Idle]

Done(c, slot) == call' = [call EXCEPT ![c][slot].at = "done"]
Refused(c, slot) == call' = [call EXCEPT ![c][slot].at = "refused"]

Read(c) ==
    /\ \E s \in Reads :
          /\ call[c][s].at = "sent"
          /\ call' = [call EXCEPT ![c][s] = [at |-> "done", what |-> "load", val |-> profile]]
          /\ beside' = [beside EXCEPT ![c] = @ /\ \E t \in Slot \ {s} : call[c][t] # Idle]
    /\ UNCHANGED <<user, screen, bounds, replaced>>

updateLinks(c) ==
    /\ call[c]["put"].at = "sent" /\ call[c]["put"].what = "links"
    /\ IF ~parseLinks(call[c]["put"].val)
       THEN Refused(c, "put") /\ UNCHANGED <<user, history>>
       ELSE /\ user' = [user EXCEPT !.links = normal(call[c]["put"].val)]
            /\ Done(c, "put") /\ Overlaps(c) /\ UNCHANGED replaced
    /\ UNCHANGED <<screen, bounds>>

\* The guard reads the user with the request; the login may be too old.
Authorize(c) ==
    /\ call[c]["put"].at = "sent" /\ call[c]["put"].what = "wallet"
    /\ LET w == call[c]["put"].val IN
       \/ ~parseWallet(w) /\ Refused(c, "put")
       \/ w = user.wallet /\ Done(c, "put")
       \/ parseWallet(w) /\ w # user.wallet /\ Refused(c, "put")
       \/ /\ parseWallet(w) /\ w # user.wallet
          /\ call' = [call EXCEPT ![c]["put"] = [at |-> "seen", what |-> "wallet", val |-> w,
                replaces |-> user.wallet # "none"]]
    /\ UNCHANGED <<user, screen, bounds, history>>

updateWallet(c) ==
    /\ call[c]["put"].at = "seen"
    /\ user' = [user EXCEPT !.wallet = call[c]["put"].val,
                            !.changed = @ \/ call[c]["put"].replaces]
    /\ replaced' = (replaced \/ user.wallet \notin {"none", call[c]["put"].val})
    /\ beside' = [d \in DOMAIN beside |-> beside[d] \/ (d # c /\ d # "wallet")
          \/ (d = "wallet" /\ \E e \in Client \ {c} : call[e]["put"].at = "seen")
          \/ (d = c /\ \E s \in Slot : s # "put" /\ call[c][s] # Idle)]
    /\ Done(c, "put")
    /\ UNCHANGED <<screen, bounds>>

updateNotifications(c) ==
    /\ \E s \in {"switch1", "switch2"} :
          /\ call[c][s].at = "sent"
          /\ user' = [user EXCEPT !.notify = call[c][s].val]
          /\ Done(c, s)
          /\ beside' = [d \in DOMAIN beside |-> beside[d]
                \/ (d # "wallet" /\ (d # c \/ \E t \in Slot \ {s} : call[c][t] # Idle))]
    /\ UNCHANGED <<screen, bounds, replaced>>
-----------------------------------------------------------------------------
(* Answers *)

\* Slip: the screen goes on showing what it read before.
Saved_unread(c) ==
    /\ call[c]["put"].at = "done"
    /\ Set(c, [screen[c] EXCEPT !.editing = FALSE, !.editingWallet = FALSE, !.busy = FALSE])
    /\ call' = [call EXCEPT ![c]["put"] = Idle]
    /\ UNCHANGED <<user, bounds, history>>

\* The editor closes and the profile is read again, the buttons still off.
Saved(c) ==
    /\ call[c]["put"].at = "done"
    /\ Set(c, IF call[c]["put"].what = "links"
              THEN [screen[c] EXCEPT !.editing = FALSE, !.error = FALSE]
              ELSE [screen[c] EXCEPT !.editingWallet = FALSE, !.error = FALSE])
    /\ call' = [call EXCEPT ![c]["put"] = Idle,
                            ![c]["reload"] = [at |-> "sent", what |-> "load", val |-> Nothing]]
    /\ UNCHANGED <<user, bounds, history>>

NotSaved(c) ==
    /\ call[c]["put"].at = "refused"
    /\ Set(c, [screen[c] EXCEPT !.busy = FALSE])
    /\ call' = [call EXCEPT ![c]["put"] = Idle]
    /\ UNCHANGED <<user, bounds, history>>

\* The buttons come back with the reading after the save.
Loaded(c) ==
    /\ \E s \in Reads :
          /\ call[c][s].at = "done"
          /\ Set(c, [loaded(c, call[c][s].val) EXCEPT !.busy = @ /\ s = "load"])
          /\ call' = [call EXCEPT ![c][s] = Idle]
    /\ UNCHANGED <<user, bounds, history>>

Switched(c) ==
    /\ \E s \in {"switch1", "switch2"} :
          /\ call[c][s].at = "done"
          /\ Set(c, [screen[c] EXCEPT !.p.notify = call[c][s].val])
          /\ call' = [call EXCEPT ![c][s] = Idle]
    /\ UNCHANGED <<user, bounds, history>>

\* A request or an answer is lost: an error beside the editor, or in the place
\* of the whole screen.
Lost(c) ==
    /\ faults < MaxFaults /\ faults' = faults + 1
    /\ \E s \in Slot :
          /\ call[c][s].at \in {"sent", "done"}
          /\ call' = [call EXCEPT ![c][s] = Idle]
          /\ Set(c, [screen[c] EXCEPT !.error = @ \/ s \in Reads,
                                      !.busy = @ /\ s \notin {"reload", "put"}])
          /\ beside' = [beside EXCEPT ![c] = TRUE]
    /\ UNCHANGED <<user, hand, replaced>>

-----------------------------------------------------------------------------
Init ==
    /\ \E ls \in StartLinks, w \in {"none", "w1"} :
          user = [links |-> ls, wallet |-> w, changed |-> FALSE, notify |-> TRUE]
    /\ screen = [c \in Client |-> Blank]
    /\ call = [c \in Client |-> [s \in Slot |-> Idle]]
    /\ hand = 0 /\ faults = 0
    /\ replaced = FALSE
    /\ beside = [d \in Client \cup {"wallet"} |-> FALSE]

Next == \E c \in Client :
    \/ Load(c) \/ startLinks(c) \/ TypeLink(c) \/ addLink(c) \/ removeLink(c) \/ saveLinks(c)
    \/ startWallet(c) \/ saveWallet(c) \/ Cancel(c) \/ toggleNewOrders(c)
    \/ Read(c) \/ updateLinks(c) \/ Authorize(c) \/ updateWallet(c) \/ updateNotifications(c)
    \/ Saved(c) \/ NotSaved(c) \/ Loaded(c) \/ Switched(c) \/ Lost(c)

Spec == Init /\ [][Next]_vars

-----------------------------------------------------------------------------
(* Properties *)

\* A screen that waits for nothing shows what is stored, unless since its last
\* read that was alone a save ran beside another of its requests, a request was
\* lost, or the other app saved: whatever crossed before, such a read heals it.
QuietShowsStored == \A c \in Client :
    Shows(c) /\ (\A s \in Slot : call[c][s] = Idle) /\ ~beside[c] => screen[c].p = profile

\* Nobody but its owner changes the list in an open editor - except the
\* mini-app, when it reads the profile again after the wallet was saved.
EditsLostOnlyToReading == [][\A c \in Client :
    screen[c].editing /\ screen[c]'.editing /\ hand' = hand
        /\ screen[c]'.newLink = screen[c].newLink /\ screen[c]'.links # screen[c].links
    => c = "mini" /\ \E s \in Reads : call[c][s].at = "done"]_vars

\* What is typed in the editor is not lost while it is open ("saved too, rather
\* than lost in silence"); refuted for the mini-app.
EditsKept == [][\A c \in Client :
    screen[c].editing /\ screen[c]'.editing /\ hand' = hand
        /\ screen[c]'.newLink = screen[c].newLink
    => screen[c]'.links = screen[c].links]_vars

\* A wallet put in the place of another is marked as changed (the moderators see
\* the mark beside the payout), unless two saves of a wallet overlapped.
ChangeMarked == replaced => user.changed \/ beside["wallet"]

\* schema.prisma: walletChangedAt is set when a wallet is replaced; refuted.
AlwaysMarked == replaced => user.changed
=============================================================================
