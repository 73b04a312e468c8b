------------------------------ MODULE PartsProofs ------------------------------
(***************************************************************************)
(* What is proved of the parts of MCParts.  Each has an inductive          *)
(* invariant of its own, kept by each step of its own, and the steps of    *)
(* the others leave its variables alone.                                   *)
(***************************************************************************)
EXTENDS MCParts, Sequences, FiniteSetTheorems, WellFoundedInduction, TLAPS

----
\* Signing in.  Whoever finishes a link is the member it was made for, so
\* what a link brings back is an account of that member's.

PendingKinds ==
    [step : {"unissued", "open", "over"}, member : People \cup {NULL},
     purpose : SignIn!Purposes \cup {NULL}, bound : People \cup {NULL}]

SignInKinds ==
    /\ SignIn!TypeOK
    /\ act \in [step : {"idle", "claim", "moved", "named"}, member : People \cup {NULL},
                claim : [login : Names, id : SignIn!Accounts \cup {NULL}, member : People] \cup {NULL},
                login : Names \cup {NULL}, sure : BOOLEAN]
    /\ act.step # "idle" =>
          /\ act.member \in People /\ act.login \in Names
          /\ act.claim \in [login : Names, id : SignIn!Accounts \cup {NULL}, member : People]
          /\ act.claim.member = act.member /\ act.claim.id \in Holds(act.member) \cup {NULL}

\* GitHub gives a name to one account at a time, and remembers none it did not give.
NamesAreGiven ==
    /\ \A a, b \in SignIn!Accounts : a # b => called[a] # called[b]
    /\ \A a \in SignIn!Accounts : <<a, called[a]>> \in everNamed

\* A link is bound to its member's browser, and spent before anything comes of it.
TripsAreTheMembers ==
    \A l \in SignIn!Links :
        /\ pending[l].step # "unissued" => pending[l].member \in People
        /\ pending[l].bound \in {NULL, pending[l].member}
        /\ trip[l].step # "none" =>
              pending[l].step = "over" /\ trip[l].account \in Holds(pending[l].member)

\* What a command was told the account is called, it is called while nothing was renamed.
AsGitHubSays ==
    /\ act.step \in {"moved", "named"} /\ act.sure /\ act.claim.id # NULL =>
          called[act.claim.id] = act.login
    /\ act.step = "moved" => act.claim.id # NULL /\ <<act.claim.id, act.login>> \in everNamed

\* A claim without an id is from before ids were kept, and proves nothing.
Vouched == RequireProved \/ Claimed = {}
VouchedFor ==
    /\ \A c \in claims : c.id = NULL => RequireProved
    /\ act.step # "idle" /\ act.claim.id = NULL => RequireProved
    /\ ~stray

SignInInv ==
    /\ SignInKinds /\ NamesAreGiven /\ TripsAreTheMembers /\ AsGitHubSays
    /\ SignIn!NobodyElsesAccount /\ (Vouched => VouchedFor)

LEMMA SignInSorts ==
  /\ NULL \notin People /\ NULL \notin SignIn!Accounts /\ NULL \notin Names
  /\ MaxLinks \in Nat /\ MaxRenames \in Nat /\ MaxCommands \in Nat /\ RequireProved \in BOOLEAN
  /\ \A p \in People : Holds(p) \subseteq SignIn!Accounts
  /\ \A p, q \in People : p # q => Holds(p) \cap Holds(q) = {}
  /\ \A a \in SignIn!Accounts : FirstName(a) \in Names
  /\ \A a, b \in SignIn!Accounts : a # b => FirstName(a) # FirstName(b)
  /\ Claimed \subseteq [login : Names, id : {NULL}, member : People]
  /\ \A c, d \in Claimed : c # d => c.login # d.login /\ c.member # d.member
BY PartsAssumption DEF SignIn!SignInsAssumption, SignIn!Accounts

LEMMA SignInInit == SignIn!Init => SignInInv
<1>. SUFFICES ASSUME SignIn!Init PROVE SignInInv OBVIOUS
<1>. USE SignInSorts DEF SignIn!Init
<1>1. SignIn!TypeOK
  <2>1. pending \in [SignIn!Links -> PendingKinds] BY DEF SignIn!Unissued, PendingKinds
  <2>2. trip \in [SignIn!Links -> [step : {"none", "spent", "proved"}, account : SignIn!Accounts \cup {NULL}]]
    BY DEF SignIn!NoTrip
  <2>3. claims \subseteq [login : Names, id : SignIn!Accounts \cup {NULL}, member : People] OBVIOUS
  <2>4. everNamed \subseteq SignIn!Accounts \X Names OBVIOUS
  <2>5. called \in [SignIn!Accounts -> Names] OBVIOUS
  <2>6. renames \in 0..MaxRenames /\ commands \in 0..MaxCommands OBVIOUS
  <2>7. /\ proofs \in [People -> SignIn!Accounts \cup {NULL}] /\ keys \in [People -> SignIn!Accounts \cup {NULL}]
        /\ roles \subseteq People OBVIOUS
  <2>. QED BY <2>1, <2>2, <2>3, <2>4, <2>5, <2>6, <2>7 DEF SignIn!TypeOK, SignIn!NoAct, PendingKinds
<1>2. SignInKinds BY <1>1 DEF SignInKinds, SignIn!NoAct
<1>3. NamesAreGiven BY DEF NamesAreGiven
<1>4. TripsAreTheMembers BY DEF TripsAreTheMembers, SignIn!Unissued, SignIn!NoTrip
<1>5. AsGitHubSays BY DEF AsGitHubSays, SignIn!NoAct
<1>6. SignIn!NobodyElsesAccount BY DEF SignIn!NobodyElsesAccount, SignIn!ClaimOf
<1>7. Vouched => VouchedFor BY DEF Vouched, VouchedFor, SignIn!NoAct
<1>. QED BY <1>2, <1>3, <1>4, <1>5, <1>6, <1>7 DEF SignInInv

\* What a step that leaves GitHub's names, the claims and the command alone preserves.
LEMMA SignInKept ==
  ASSUME SignInInv, SignInKinds', TripsAreTheMembers',
         UNCHANGED <<called, everNamed, claims, act, stray>>,
         \A p \in People : {proofs'[p], keys'[p]} \subseteq Holds(p) \cup {NULL}
  PROVE  SignInInv'
<1>1. NamesAreGiven' /\ AsGitHubSays' /\ (Vouched => VouchedFor)'
  BY DEF SignInInv, NamesAreGiven, AsGitHubSays, Vouched, VouchedFor
<1>2. SignIn!NobodyElsesAccount' BY DEF SignInInv, SignIn!NobodyElsesAccount, SignIn!ClaimOf
<1>. QED BY <1>1, <1>2 DEF SignInInv

LEMMA SignInStep == SignInInv /\ SignIn!Next => SignInInv'
<1>. SUFFICES ASSUME SignInInv, SignIn!Next PROVE SignInInv' OBVIOUS
<1>. USE SignInSorts DEF SignIn!hubNames
<1>0. SignInKinds /\ SignIn!TypeOK /\ NamesAreGiven /\ TripsAreTheMembers /\ AsGitHubSays
      /\ SignIn!NobodyElsesAccount /\ (Vouched => VouchedFor)
  BY DEF SignInInv, SignInKinds
<1>1. CASE SignIn!RenameAccount
  <2>. USE <1>1 DEF SignIn!RenameAccount
  <2>1. PICK a \in SignIn!Accounts, name \in Names :
            /\ name \notin {called[b] : b \in SignIn!Accounts}
            /\ called' = [called EXCEPT ![a] = name] /\ everNamed' = everNamed \cup {<<a, name>>}
    OBVIOUS
  <2>2. called' \in [SignIn!Accounts -> Names] /\ everNamed' \subseteq SignIn!Accounts \X Names
        /\ renames' \in 0..MaxRenames BY <1>0, <2>1 DEF SignIn!TypeOK
  <2>3. SignInKinds' BY <1>0, <2>2 DEF SignInKinds, SignIn!TypeOK
  <2>4. NamesAreGiven' BY <1>0, <2>1 DEF NamesAreGiven, SignIn!TypeOK
  <2>5. act'.sure = FALSE /\ act'.step = act.step /\ act'.claim = act.claim /\ act'.login = act.login
    BY <1>0 DEF SignInKinds
  <2>6. TripsAreTheMembers' /\ AsGitHubSays' BY <1>0, <2>1, <2>5 DEF TripsAreTheMembers, AsGitHubSays
  <2>7. SignIn!NobodyElsesAccount' BY <1>0, <2>1 DEF SignIn!NobodyElsesAccount, SignIn!ClaimOf
  <2>8. (Vouched => VouchedFor)' BY <1>0, <2>5 DEF Vouched, VouchedFor
  <2>. QED BY <2>3, <2>4, <2>6, <2>7, <2>8 DEF SignInInv
<1>2. CASE SignIn!TakeRoles BY <1>0, <1>2, SignInKept
  DEF SignIn!TakeRoles, SignInKinds, SignIn!TypeOK, TripsAreTheMembers, SignIn!NobodyElsesAccount
<1>3. ASSUME NEW l \in SignIn!Links, NEW p \in People, SignIn!Issue(l, p) PROVE SignInInv'
  <2>. USE <1>3 DEF SignIn!Issue
  <2>1. PICK purpose \in SignIn!Purposes : pending' = [pending EXCEPT ![l] =
                [step |-> "open", member |-> p, purpose |-> purpose, bound |-> NULL]]
    OBVIOUS
  <2>2. pending' \in [SignIn!Links -> PendingKinds] BY <1>0, <2>1 DEF SignIn!TypeOK, PendingKinds
  <2>3. SignInKinds' BY <1>0, <2>2 DEF SignInKinds, SignIn!TypeOK, PendingKinds
  <2>4. TripsAreTheMembers' BY <1>0, <2>1 DEF TripsAreTheMembers, SignIn!TypeOK
  <2>. QED BY <1>0, <2>3, <2>4, SignInKept DEF SignIn!NobodyElsesAccount
<1>4. ASSUME NEW l \in SignIn!Links, SignIn!Expire(l) PROVE SignInInv'
  <2>1. /\ pending' = [pending EXCEPT ![l].step = "over"] /\ pending[l].step # "unissued"
        /\ UNCHANGED <<called, renames, everNamed, roles, trip, proofs, claims, keys, act, commands, stray>>
    BY <1>4 DEF SignIn!Expire, SignIn!Followable
  <2>2. pending' \in [SignIn!Links -> PendingKinds]
    <3>1. pending \in [SignIn!Links -> PendingKinds] BY <1>0 DEF PendingKinds, SignIn!TypeOK
    <3>2. [pending[l] EXCEPT !.step = "over"] \in PendingKinds BY <3>1 DEF PendingKinds
    <3>. QED BY <2>1, <3>1, <3>2
  <2>3. SignInKinds' BY <1>0, <2>1, <2>2 DEF SignInKinds, SignIn!TypeOK, PendingKinds
  <2>4. TripsAreTheMembers' BY <1>0, <2>1 DEF TripsAreTheMembers, SignIn!TypeOK
  <2>. QED BY <1>0, <2>1, <2>3, <2>4, SignInKept DEF SignIn!NobodyElsesAccount
<1>5. ASSUME NEW l \in SignIn!Links, NEW b \in People, SignIn!ProveOnDiscord(l, b) PROVE SignInInv'
  <2>1. /\ pending' = [pending EXCEPT ![l].bound = b] /\ pending[l].member = b
        /\ UNCHANGED <<called, renames, everNamed, roles, trip, proofs, claims, keys, act, commands, stray>>
    BY <1>5 DEF SignIn!ProveOnDiscord, SignIn!IsTheMember
  <2>2. pending' \in [SignIn!Links -> PendingKinds] BY <1>0, <2>1 DEF PendingKinds, SignIn!TypeOK
  <2>3. SignInKinds' BY <1>0, <2>1, <2>2 DEF SignInKinds, SignIn!TypeOK, PendingKinds
  <2>4. TripsAreTheMembers' BY <1>0, <2>1 DEF TripsAreTheMembers, SignIn!TypeOK
  <2>. QED BY <1>0, <2>1, <2>3, <2>4, SignInKept DEF SignIn!NobodyElsesAccount
<1>6. ASSUME NEW l \in SignIn!Links, NEW b \in People, SignIn!Redeem(l, b) PROVE SignInInv'
  <2>. USE <1>6 DEF SignIn!Redeem, SignIn!Spendable, SignIn!Followable
  <2>1. pending' \in [SignIn!Links -> PendingKinds] BY <1>0 DEF SignIn!TypeOK, PendingKinds
  <2>2. b = pending[l].member BY <1>0 DEF TripsAreTheMembers
  <2>3. \/ UNCHANGED trip
        \/ \E account \in Holds(b) : trip' = [trip EXCEPT ![l] = [step |-> "spent", account |-> account]]
    OBVIOUS
  <2>4. trip' \in [SignIn!Links -> [step : {"none", "spent", "proved"}, account : SignIn!Accounts \cup {NULL}]]
    BY <1>0, <2>3 DEF SignIn!TypeOK
  <2>5. SignInKinds' BY <1>0, <2>1, <2>4 DEF SignInKinds, SignIn!TypeOK, PendingKinds
  <2>6. TripsAreTheMembers'
    <3>1. \A k \in SignIn!Links \ {l} : pending'[k] = pending[k] /\ trip'[k] = trip[k]
      BY <1>0, <2>3 DEF SignIn!TypeOK
    <3>2. pending'[l].step = "over" /\ pending'[l].member = pending[l].member /\ pending'[l].bound = pending[l].bound
      BY <1>0 DEF SignIn!TypeOK
    <3>3. trip'[l] = trip[l] \/ trip'[l].account \in Holds(b) BY <1>0, <2>3 DEF SignIn!TypeOK
    <3>. QED BY <1>0, <2>2, <3>1, <3>2, <3>3 DEF TripsAreTheMembers
  <2>. QED BY <1>0, <2>5, <2>6, SignInKept DEF SignIn!NobodyElsesAccount
<1>7. ASSUME NEW l \in SignIn!Links, SignIn!Fail(l) PROVE SignInInv'
  <2>. USE <1>7 DEF SignIn!Fail
  <2>1. trip' \in [SignIn!Links -> [step : {"none", "spent", "proved"}, account : SignIn!Accounts \cup {NULL}]]
    BY <1>0 DEF SignIn!TypeOK, SignIn!NoTrip
  <2>2. SignInKinds' BY <1>0, <2>1 DEF SignInKinds, SignIn!TypeOK
  <2>3. TripsAreTheMembers' BY <1>0 DEF TripsAreTheMembers, SignIn!TypeOK, SignIn!NoTrip
  <2>. QED BY <1>0, <2>2, <2>3, SignInKept DEF SignIn!NobodyElsesAccount
<1>8. ASSUME NEW l \in SignIn!Links, SignIn!Remember(l) PROVE SignInInv'
  <2>. USE <1>8 DEF SignIn!Remember
  <2>1. pending[l].member \in People /\ trip[l].account \in Holds(pending[l].member)
    BY <1>0 DEF TripsAreTheMembers, SignIn!TypeOK
  <2>2. trip' \in [SignIn!Links -> [step : {"none", "spent", "proved"}, account : SignIn!Accounts \cup {NULL}]]
        /\ proofs' \in [People -> SignIn!Accounts \cup {NULL}]
    BY <1>0, <2>1 DEF SignIn!TypeOK, SignIn!NoTrip
  <2>3. SignInKinds' BY <1>0, <2>2 DEF SignInKinds, SignIn!TypeOK
  <2>4. TripsAreTheMembers' BY <1>0 DEF TripsAreTheMembers, SignIn!TypeOK, SignIn!NoTrip
  <2>5. \A p \in People : proofs'[p] \in Holds(p) \cup {NULL}
    BY <1>0, <2>1 DEF SignIn!NobodyElsesAccount, SignIn!TypeOK
  <2>. QED BY <1>0, <2>3, <2>4, <2>5, SignInKept DEF SignIn!NobodyElsesAccount
<1>9. ASSUME NEW l \in SignIn!Links, SignIn!KeepKey(l) PROVE SignInInv'
  <2>. USE <1>9 DEF SignIn!KeepKey
  <2>1. pending[l].member \in People /\ trip[l].account \in Holds(pending[l].member)
    BY <1>0 DEF TripsAreTheMembers, SignIn!TypeOK
  <2>2. trip' \in [SignIn!Links -> [step : {"none", "spent", "proved"}, account : SignIn!Accounts \cup {NULL}]]
        /\ keys' \in [People -> SignIn!Accounts \cup {NULL}]
    BY <1>0, <2>1 DEF SignIn!TypeOK, SignIn!NoTrip
  <2>3. SignInKinds' BY <1>0, <2>2 DEF SignInKinds, SignIn!TypeOK
  <2>4. TripsAreTheMembers' BY <1>0 DEF TripsAreTheMembers, SignIn!TypeOK, SignIn!NoTrip
  <2>5. \A p \in People : keys'[p] \in Holds(p) \cup {NULL}
    BY <1>0, <2>1 DEF SignIn!NobodyElsesAccount, SignIn!TypeOK
  <2>. QED BY <1>0, <2>3, <2>4, <2>5, SignInKept DEF SignIn!NobodyElsesAccount
<1>10. ASSUME NEW l \in SignIn!Links, SignIn!Bind(l) PROVE SignInInv'
  <2>. USE <1>10 DEF SignIn!Bind
  <2>. DEFINE p == pending[l].member  a == trip[l].account
  <2>1. p \in People /\ a \in Holds(p) /\ a \in SignIn!Accounts /\ a # NULL
    BY <1>0 DEF TripsAreTheMembers, SignIn!TypeOK
  <2>2. PICK name \in {t[2] : t \in {t \in everNamed : t[1] = a}} :
            claims' = {c \in claims : c.login # name /\ c.member # p}
                          \cup {[login |-> name, id |-> a, member |-> p]}
    BY DEF SignIn!Claim
  <2>2a. <<a, name>> \in everNamed /\ name \in Names
    <3>1. PICK t \in everNamed : t[1] = a /\ t[2] = name BY <2>2
    <3>2. t \in SignIn!Accounts \X Names BY <1>0 DEF SignIn!TypeOK
    <3>. QED BY <3>1, <3>2
  <2>. DEFINE new == [login |-> name, id |-> a, member |-> p]
  <2>3. new.login = name /\ new.id = a /\ new.member = p
        /\ new \in [login : Names, id : SignIn!Accounts \cup {NULL}, member : People]
    BY <2>1, <2>2a
  <2>4. \A c \in claims' : c = new \/ (c \in claims /\ c.login # name /\ c.member # p) BY <2>2
  <2>. HIDE DEF new
  <2>5. trip' \in [SignIn!Links -> [step : {"none", "spent", "proved"}, account : SignIn!Accounts \cup {NULL}]]
        /\ claims' \subseteq [login : Names, id : SignIn!Accounts \cup {NULL}, member : People]
    BY <1>0, <2>1, <2>3, <2>4 DEF SignIn!TypeOK, SignIn!NoTrip
  <2>6. SignInKinds' BY <1>0, <2>5 DEF SignInKinds, SignIn!TypeOK
  <2>7. TripsAreTheMembers' BY <1>0 DEF TripsAreTheMembers, SignIn!TypeOK, SignIn!NoTrip
  <2>8. NamesAreGiven' /\ AsGitHubSays' BY <1>0 DEF NamesAreGiven, AsGitHubSays
  <2>9. SignIn!NobodyElsesAccount'
    <3>1. \A q \in People : \A c \in claims' : c.member = q => c.id \in Holds(q) \cup {NULL}
      BY <1>0, <2>1, <2>3, <2>4 DEF SignIn!NobodyElsesAccount, SignIn!ClaimOf
    <3>2. \A c \in claims' : c.id # NULL => <<c.id, c.login>> \in everNamed
      BY <1>0, <2>2a, <2>3, <2>4 DEF SignIn!NobodyElsesAccount
    <3>3. \A c, d \in claims' : c # d => c.login # d.login /\ c.member # d.member
      BY <1>0, <2>3, <2>4 DEF SignIn!NobodyElsesAccount
    <3>. QED BY <1>0, <3>1, <3>2, <3>3 DEF SignIn!NobodyElsesAccount, SignIn!ClaimOf
  <2>10. (Vouched => VouchedFor)' BY <1>0, <2>1, <2>3, <2>4 DEF Vouched, VouchedFor
  <2>. QED BY <2>6, <2>7, <2>8, <2>9, <2>10 DEF SignInInv
<1>11. ASSUME NEW p \in People, SignIn!ReadClaim(p) PROVE SignInInv'
  <2>. USE <1>11 DEF SignIn!ReadClaim
  <2>1. PICK c \in claims : c.member = p /\ act' =
            [step |-> "claim", member |-> p, claim |-> c, login |-> c.login, sure |-> TRUE]
    BY DEF SignIn!ClaimOf
  <2>2. c \in [login : Names, id : SignIn!Accounts \cup {NULL}, member : People]
        /\ c.id \in Holds(p) \cup {NULL}
    BY <1>0, <2>1 DEF SignIn!TypeOK, SignIn!NobodyElsesAccount, SignIn!ClaimOf
  <2>3. SignInKinds' BY <1>0, <2>1, <2>2 DEF SignInKinds, SignIn!TypeOK
  <2>. QED BY <1>0, <2>1, <2>3 DEF SignInInv, NamesAreGiven, TripsAreTheMembers, AsGitHubSays,
    SignIn!NobodyElsesAccount, SignIn!ClaimOf, Vouched, VouchedFor
<1>12. CASE SignIn!AskGitHub
  <2>. USE <1>12 DEF SignIn!AskGitHub
  <2>1. act.claim.id \in SignIn!Accounts \cup {NULL} BY <1>0 DEF SignInKinds
  <2>2. CASE act.claim.id = NULL /\ act' = [act EXCEPT !.step = "named"]
    <3>1. SignInKinds' BY <1>0, <2>2 DEF SignInKinds, SignIn!TypeOK
    <3>. QED BY <1>0, <2>2, <3>1 DEF SignInKinds, SignInInv, NamesAreGiven, TripsAreTheMembers, AsGitHubSays,
      SignIn!NobodyElsesAccount, SignIn!ClaimOf, Vouched, VouchedFor
  <2>3. CASE /\ act.claim.id # NULL
             /\ act' = [act EXCEPT !.step = IF called[act.claim.id] = act.login THEN "named" ELSE "moved",
                                   !.login = called[act.claim.id], !.sure = TRUE]
    <3>1. called[act.claim.id] \in Names /\ <<act.claim.id, called[act.claim.id]>> \in everNamed
      BY <1>0, <2>1, <2>3 DEF SignIn!TypeOK, NamesAreGiven
    <3>2. SignInKinds' BY <1>0, <2>3, <3>1 DEF SignInKinds, SignIn!TypeOK
    <3>. QED BY <1>0, <2>3, <3>1, <3>2 DEF SignInKinds, SignInInv, NamesAreGiven, TripsAreTheMembers,
      AsGitHubSays, SignIn!NobodyElsesAccount, SignIn!ClaimOf, Vouched, VouchedFor
  <2>4. CASE act.claim.id # NULL /\ act' = [act EXCEPT !.step = "named", !.sure = FALSE]
    <3>1. SignInKinds' BY <1>0, <2>4 DEF SignInKinds, SignIn!TypeOK
    <3>. QED BY <1>0, <2>4, <3>1 DEF SignInKinds, SignInInv, NamesAreGiven, TripsAreTheMembers, AsGitHubSays,
      SignIn!NobodyElsesAccount, SignIn!ClaimOf, Vouched, VouchedFor
  <2>. QED BY <2>2, <2>3, <2>4
<1>13. CASE SignIn!FollowAccount
  <2>. USE <1>13 DEF SignIn!FollowAccount
  <2>. DEFINE mine == {c \in claims : SignIn!StillTheClaim(c)}
              held == {c \in claims \ mine : c.login = act.login}
  <2>1. \A c \in mine : c \in claims /\ c.member = act.member /\ c.id = act.claim.id
    BY DEF SignIn!StillTheClaim
  <2>2. \A c, d \in mine : c = d BY <1>0, <2>1 DEF SignIn!NobodyElsesAccount
  <2>3. act.login \in Names /\ act.claim.id # NULL /\ <<act.claim.id, act.login>> \in everNamed
    BY <1>0 DEF AsGitHubSays, SignInKinds
  <2>4. \/ claims' = claims
        \/ held = {} /\ claims' = (claims \ mine) \cup {[c EXCEPT !.login = act.login] : c \in mine}
    OBVIOUS
  <2>5. \A d \in claims' :
          \/ d \in claims /\ (claims' = claims \/ (d \notin mine /\ d.login # act.login))
          \/ claims' # claims /\ \E c \in mine : d = [c EXCEPT !.login = act.login]
    BY <2>4
  <2>6. \A c \in claims : LET d == [c EXCEPT !.login = act.login] IN
          /\ d \in [login : Names, id : SignIn!Accounts \cup {NULL}, member : People]
          /\ d.login = act.login /\ d.id = c.id /\ d.member = c.member
    BY <1>0, <2>3 DEF SignIn!TypeOK
  <2>. HIDE DEF mine, held
  <2>7. \A d \in claims' :
          /\ d \in [login : Names, id : SignIn!Accounts \cup {NULL}, member : People]
          /\ d.id = NULL => d \in claims
          /\ d.id \in Holds(d.member) \cup {NULL}
          /\ d.id # NULL => <<d.id, d.login>> \in everNamed
    <3>. SUFFICES ASSUME NEW d \in claims'
                  PROVE  /\ d \in [login : Names, id : SignIn!Accounts \cup {NULL}, member : People]
                         /\ d.id = NULL => d \in claims
                         /\ d.id \in Holds(d.member) \cup {NULL}
                         /\ d.id # NULL => <<d.id, d.login>> \in everNamed
      OBVIOUS
    <3>1. CASE d \in claims BY <1>0, <3>1 DEF SignIn!NobodyElsesAccount, SignIn!ClaimOf, SignIn!TypeOK
    <3>2. ASSUME NEW c \in mine, d = [c EXCEPT !.login = act.login]
          PROVE  /\ d \in [login : Names, id : SignIn!Accounts \cup {NULL}, member : People]
                 /\ d.id # NULL
                 /\ d.id \in Holds(d.member)
                 /\ <<d.id, d.login>> \in everNamed
      <4>1. c \in claims /\ c.id = act.claim.id BY <2>1
      <4>2. /\ d \in [login : Names, id : SignIn!Accounts \cup {NULL}, member : People]
            /\ d.login = act.login /\ d.id = c.id /\ d.member = c.member
        BY <2>6, <3>2, <4>1
      <4>3. c.member \in People /\ c.id \in Holds(c.member)
        BY <1>0, <2>3, <4>1 DEF SignIn!NobodyElsesAccount, SignIn!ClaimOf, SignIn!TypeOK
      <4>. QED BY <2>3, <4>1, <4>2, <4>3
    <3>. QED BY <2>5, <3>1, <3>2
  <2>8. \A c, d \in claims' : c # d => c.login # d.login /\ c.member # d.member
    <3>1. CASE claims' = claims BY <1>0, <3>1 DEF SignIn!NobodyElsesAccount
    <3>2. CASE claims' # claims
      <4>1. \A c \in claims' : \/ c \in claims /\ c.login # act.login /\ c \notin mine
                               \/ \E e \in mine : c.login = act.login /\ c.member = e.member
                                                  /\ c = [e EXCEPT !.login = act.login]
        BY <2>1, <2>5, <2>6, <3>2
      <4>2. \A e \in mine : e \in claims BY <2>1
      <4>3. \A c \in claims \ mine : \A e \in mine : c.member # e.member
        BY <1>0, <4>2 DEF SignIn!NobodyElsesAccount
      <4>4. \A c, d \in claims : c # d => c.login # d.login /\ c.member # d.member
        BY <1>0 DEF SignIn!NobodyElsesAccount
      <4>. QED BY <2>2, <4>1, <4>3, <4>4
    <3>. QED BY <3>1, <3>2
  <2>9. SignInKinds'
    <3>1. claims' \subseteq [login : Names, id : SignIn!Accounts \cup {NULL}, member : People] BY <2>7
    <3>. QED BY <1>0, <3>1 DEF SignInKinds, SignIn!TypeOK
  <2>10. NamesAreGiven' /\ TripsAreTheMembers' /\ AsGitHubSays'
    BY <1>0 DEF NamesAreGiven, TripsAreTheMembers, AsGitHubSays, SignInKinds
  <2>11. SignIn!NobodyElsesAccount' BY <1>0, <2>7, <2>8 DEF SignIn!NobodyElsesAccount, SignIn!ClaimOf
  <2>12. (Vouched => VouchedFor)' BY <1>0, <2>7 DEF Vouched, VouchedFor, SignInKinds
  <2>. QED BY <2>9, <2>10, <2>11, <2>12 DEF SignInInv
<1>14. CASE SignIn!Write
  <2>. USE <1>14 DEF SignIn!Write
  <2>1. Vouched => stray' = FALSE
    <3>. SUFFICES ASSUME Vouched, stray' # FALSE PROVE FALSE OBVIOUS
    <3>1. /\ SignIn!Proved \/ ~RequireProved
          /\ act.sure
          /\ \E a \in SignIn!Accounts \ Holds(act.member) : called[a] = act.login
          /\ stray = FALSE BY <1>0 DEF VouchedFor, SignIn!TypeOK
    <3>2. act.claim.id # NULL BY <1>0, <3>1 DEF VouchedFor, SignIn!Proved
    <3>3. called[act.claim.id] = act.login /\ act.claim.id \in Holds(act.member)
      BY <1>0, <3>1, <3>2 DEF AsGitHubSays, SignInKinds
    <3>4. act.claim.id \in SignIn!Accounts BY <1>0, <3>2 DEF SignInKinds
    <3>. QED BY <1>0, <3>1, <3>3, <3>4 DEF NamesAreGiven
  <2>2. stray' \in BOOLEAN /\ act' = SignIn!NoAct BY <1>0 DEF SignIn!TypeOK
  <2>3. SignInKinds' BY <1>0, <2>2 DEF SignInKinds, SignIn!TypeOK, SignIn!NoAct
  <2>. QED BY <1>0, <2>1, <2>2, <2>3 DEF SignInInv, NamesAreGiven, TripsAreTheMembers, AsGitHubSays,
    SignIn!NobodyElsesAccount, SignIn!ClaimOf, Vouched, VouchedFor, SignIn!NoAct
<1>15. CASE SignIn!DropAct
  <2>. USE <1>15 DEF SignIn!DropAct
  <2>1. SignInKinds' BY <1>0 DEF SignInKinds, SignIn!TypeOK, SignIn!NoAct
  <2>. QED BY <1>0, <2>1 DEF SignInInv, NamesAreGiven, TripsAreTheMembers, AsGitHubSays,
    SignIn!NobodyElsesAccount, SignIn!ClaimOf, Vouched, VouchedFor, SignIn!NoAct
<1>. QED BY <1>1, <1>2, <1>3, <1>4, <1>5, <1>6, <1>7, <1>8, <1>9, <1>10, <1>11, <1>12, <1>13, <1>14, <1>15
  DEF SignIn!Next

----
\* Boards.  A login is one account's for good: Us has a second one, and
\* nobody takes its first.  So what a row reads under names the account
\* whose board was linked, through every transfer and rename, and the
\* cards paired under it are that board's.

\* The logins the account has had.
NamesOf(a) == {a, login[a]}

RowOf == [name : Boards!Logins, id : Boards!Accounts \cup {NULL},
          board : [on : BOOLEAN, owner : Boards!Logins \cup {NULL}, by : Linkers \cup {NULL}]]

LinkUnderWay ==
    [step : {"idle", "invited", "opened", "checked"},
     server : Boards!Servers \cup {NULL}, typed : Boards!Logins \cup {NULL},
     under : Boards!Logins \cup {NULL}, owner : Boards!Logins \cup {NULL},
     board : Boards!Accounts \cup {NULL}, before : RowOf \cup {NULL}, crossed : BOOLEAN]
PassUnderWay ==
    [step : {"idle", "listed", "read"}, owner : Boards!Logins \cup {NULL},
     board : Boards!Accounts \cup {NULL}, seen : Boards!Accounts \cup {NULL}, crossed : BOOLEAN]

BoardKinds ==
    /\ Boards!TypeOK
    /\ asking \in [Linkers -> LinkUnderWay] /\ pass \in [Boards!Servers -> PassUnderWay]
    /\ letting \in [Boards!Servers -> [step : {"idle", "read", "forget"}, by : Linkers \cup {NULL}]]

LoginsStay ==
    /\ login[Us] \in {Us, NewLogin} /\ login[Them] = Them /\ owned[Away] = Them
    /\ \A t \in said : t[1] \in NamesOf(t[2])

\* A row's id is that of the account it is named for.
RowsAreNamed ==
    /\ link[Away].name = Them
    /\ link[Home].name \in NamesOf(Us) \cup NamesOf(Them)
    /\ link[Home].id # NULL => link[Home].name \in NamesOf(link[Home].id)

\* What a row reads under is the board last linked, and it is read by whoever linked it.
ReadsIt(r, m) == Boards!BoardOwner(r.board.owner, r.name) \in NamesOf(m[1])

LinkedAsMeant ==
    \A s \in Boards!Servers :
        /\ link[s].board.on => /\ meant[s] # NULL /\ ReadsIt(link[s], meant[s])
                               /\ link[s].board.by \in {NULL, meant[s][2]}
        /\ ~link[s].board.on => meant[s] = NULL /\ link[s].board.by = NULL

\* A link under way has opened the board it is to write, and read the row as it still is
\* but for what GitHub renamed.
OpenedAs(a) ==
    /\ a.step # "idle" => a.server \in Boards!Servers
    /\ a.step \in {"idle", "invited"} => ~a.crossed
    /\ a.step \in {"opened", "checked"} =>
          /\ a.board \in Boards!Accounts /\ a.owner \in NamesOf(a.board) /\ a.before \in RowOf
          /\ ~a.crossed /\ a.before.board.on =>
                meant[a.server] # NULL /\ ReadsIt(a.before, meant[a.server])
LinksAreOpened == \A m \in Linkers : OpenedAs(asking[m])

\* A pass reads the board it listed.
ListedAs(p, m) ==
    /\ p.step # "idle" /\ ~p.crossed => m # NULL /\ p.owner \in NamesOf(m[1])
    /\ p.step = "read" => p.board \in Boards!Accounts /\ p.owner \in NamesOf(p.board)
PassesAreListed == \A s \in Boards!Servers : ListedAs(pass[s], meant[s])

PairedAsMeant ==
    \A s \in Boards!Servers :
        wraps[s] # NULL /\ ~crossed[s] => meant[s] # NULL /\ wraps[s] = meant[s][1]

\* The boards a server has cards of, or is about to.
CardsOf(s) ==
    (IF wraps[s] = NULL THEN {} ELSE {wraps[s]})
        \cup (IF pass[s].step = "read" /\ ~pass[s].crossed THEN {pass[s].board} ELSE {})
NoneShared == CardsOf(Home) \cap CardsOf(Away) = {}
NoneSharedInv == login[Us] = Us /\ ~crossed[Home] /\ ~crossed[Away] => NoneShared

BoardsInv ==
    /\ BoardKinds /\ LoginsStay /\ RowsAreNamed /\ LinkedAsMeant /\ LinksAreOpened
    /\ PassesAreListed /\ PairedAsMeant /\ NoneSharedInv

LEMMA BoardSorts ==
  /\ Home # Away /\ Us # Them /\ Us # NewLogin /\ Them # NewLogin
  /\ NULL \notin {Home, Away, Us, Them, NewLogin} /\ NULL \notin Linkers
  /\ MaxMoves \in Nat /\ MaxOrders \in Nat
  /\ \A a \in Boards!Accounts, m \in Linkers : <<a, m>> # NULL
<1>1. Us # Them /\ Us # NewLogin /\ Them # NewLogin
  <2>1. \A x, y : IsFiniteSet({x, y}) /\ Cardinality({x, y}) <= 2
    <3>. TAKE x, y
    <3>1. IsFiniteSet({x}) /\ Cardinality({x}) = 1 BY FS_Singleton
    <3>2. {x, y} = {x} \cup {y} OBVIOUS
    <3>3. IsFiniteSet({x} \cup {y}) /\ (Cardinality({x} \cup {y}) = 1 \/ Cardinality({x} \cup {y}) = 2)
      BY <3>1, FS_AddElement
    <3>. QED BY <3>2, <3>3
  <2>2. Cardinality({Us, Them, NewLogin}) = 3
    BY PartsAssumption DEF Boards!BoardLinkAssumption, Boards!Logins, Boards!Cardinality, Cardinality
  <2>3. Us = Them => {Us, Them, NewLogin} = {Us, NewLogin} OBVIOUS
  <2>4. Us = NewLogin => {Us, Them, NewLogin} = {Us, Them} OBVIOUS
  <2>5. Them = NewLogin => {Us, Them, NewLogin} = {Us, Them} OBVIOUS
  <2>6. \A x, y : Cardinality({x, y}) # 3 BY <2>1, FS_CardinalityType
  <2>. QED BY <2>2, <2>3, <2>4, <2>5, <2>6
<1>. QED BY <1>1, PartsAssumption DEF Boards!BoardLinkAssumption, Boards!Logins, Boards!Servers

LEMMA OneAccountEach ==
  ASSUME LoginsStay, NEW a \in Boards!Accounts, NEW b \in Boards!Accounts, NEW x,
         x \in NamesOf(a), x \in NamesOf(b)
  PROVE  a = b BY BoardSorts DEF LoginsStay, NamesOf, Boards!Accounts

LEMMA BoardsInit == Boards!Init => BoardsInv
<1>. SUFFICES ASSUME Boards!Init PROVE BoardsInv OBVIOUS
<1>. USE BoardSorts DEF Boards!Init, Boards!Servers, Boards!Accounts, Boards!Logins
<1>1. asking = [m \in Linkers |-> Boards!Idle] /\ Boards!Idle \in LinkUnderWay
  BY DEF Boards!Idle, LinkUnderWay
<1>2. pass = [s \in Boards!Servers |-> Boards!NotPolled] /\ Boards!NotPolled \in PassUnderWay
  BY DEF Boards!NotPolled, PassUnderWay
<1>3. letting \in [Boards!Servers -> [step : {"idle", "read", "forget"}, by : Linkers \cup {NULL}]]
  BY DEF Boards!Settled
<1>4. \A s \in Boards!Servers :
        /\ link[s] \in RowOf
        /\ link[s].board = Boards!NoBoard /\ link[s].name = (IF s = Home THEN Us ELSE Them)
        /\ link[s].id \in {link[s].name, NULL}
  BY DEF Boards!Row, Boards!NoBoard, RowOf
<1>5. Boards!TypeOK
  <2>1. link \in [Boards!Servers -> RowOf] BY <1>4 DEF Boards!Row, Boards!NoBoard, RowOf
  <2>2. \A m \in Linkers : asking[m].step = "idle" BY <1>1 DEF Boards!Idle
  <2>3. \A s \in Boards!Servers : letting[s].step = "idle" /\ pass[s].step = "idle"
    BY <1>2 DEF Boards!Settled, Boards!NotPolled
  <2>4. moves \in 0..MaxMoves /\ orders \in 0..MaxOrders OBVIOUS
  <2>5. /\ login \in [Boards!Accounts -> Boards!Logins] /\ owned \in [Boards!Servers -> Boards!Accounts]
        /\ said \subseteq Boards!Logins \X Boards!Accounts /\ grants \subseteq Boards!Servers \X Linkers
    OBVIOUS
  <2>6. /\ wraps \in [Boards!Servers -> Boards!Accounts \cup {NULL}]
        /\ meant \in [Boards!Servers -> {NULL} \cup (Boards!Accounts \X Linkers)]
        /\ crossed \in [Boards!Servers -> BOOLEAN] OBVIOUS
  <2>. QED BY <2>1, <2>2, <2>3, <2>4, <2>5, <2>6 DEF Boards!TypeOK, RowOf
<1>6. BoardKinds BY <1>1, <1>2, <1>3, <1>5 DEF BoardKinds
<1>7. LoginsStay /\ RowsAreNamed BY <1>4 DEF LoginsStay, RowsAreNamed, NamesOf
<1>8. LinkedAsMeant BY <1>4 DEF LinkedAsMeant, Boards!NoBoard
<1>9. LinksAreOpened /\ PassesAreListed
  BY <1>1, <1>2 DEF LinksAreOpened, OpenedAs, PassesAreListed, ListedAs, Boards!Idle, Boards!NotPolled
<1>10. PairedAsMeant BY DEF PairedAsMeant
<1>11. NoneSharedInv BY <1>2 DEF NoneSharedInv, NoneShared, CardsOf, Boards!NotPolled
<1>. QED BY <1>6, <1>7, <1>8, <1>9, <1>10, <1>11 DEF BoardsInv

LEMMA BoardsAre == BoardsInv => Boards!TypeOK /\ Boards!ReadAsChosen /\ Boards!CardsOfThisBoard
<1>. SUFFICES ASSUME BoardsInv PROVE Boards!TypeOK /\ Boards!ReadAsChosen /\ Boards!CardsOfThisBoard OBVIOUS
<1>. USE BoardSorts DEF BoardsInv
<1>1. Boards!TypeOK BY DEF BoardKinds
<1>2. Boards!ReadAsChosen
  <2>. SUFFICES ASSUME NEW s \in Boards!Servers,
                       <<s, link[s].board.by>> \in Boards!ReadAs(Boards!ReadUnder(s))
                PROVE  /\ link[s].board.by = meant[s][2]
                       /\ IF link[s].board.owner = NULL /\ link[s].name = login[owned[s]]
                          THEN owned[s] = meant[s][1]
                          ELSE Boards!ReadUnder(s) \in Boards!Known(meant[s][1])
    BY DEF Boards!ReadAsChosen
  <2>1. s \in Boards!Mirroring(Boards!ReadUnder(s)) /\ <<s, link[s].board.by>> \in grants BY DEF Boards!ReadAs
  <2>2. link[s].board.on /\ link[s].board.by # NULL BY <1>1, <2>1 DEF Boards!Mirroring, Boards!TypeOK
  <2>3. meant[s] # NULL /\ ReadsIt(link[s], meant[s]) /\ link[s].board.by = meant[s][2]
    BY <2>2 DEF LinkedAsMeant
  <2>4. Boards!ReadUnder(s) \in NamesOf(meant[s][1]) BY <2>3 DEF ReadsIt, Boards!ReadUnder
  <2>5. Boards!ReadUnder(s) \in Boards!Known(meant[s][1]) BY <2>4 DEF NamesOf, Boards!Known
  <2>6. ASSUME link[s].board.owner = NULL, link[s].name = login[owned[s]] PROVE owned[s] = meant[s][1]
    <3>1. login[owned[s]] \in NamesOf(meant[s][1]) /\ login[owned[s]] \in NamesOf(owned[s])
      BY <2>4, <2>6 DEF Boards!ReadUnder, Boards!BoardOwner, NamesOf
    <3>2. owned[s] \in Boards!Accounts /\ meant[s][1] \in Boards!Accounts BY <1>1, <2>3 DEF Boards!TypeOK
    <3>. QED BY <3>1, <3>2, OneAccountEach
  <2>. QED BY <2>3, <2>5, <2>6
<1>3. Boards!CardsOfThisBoard
  <2>1. ASSUME login[Us] = Us, \A s \in Boards!Servers : ~crossed[s],
               NEW s \in Boards!Servers, NEW t \in Boards!Servers, s # t, wraps[s] # NULL
        PROVE  wraps[s] # wraps[t]
    <3>1. NoneShared BY <2>1 DEF NoneSharedInv, Boards!Servers
    <3>2. wraps[t] # NULL => wraps[s] # wraps[t] BY <2>1, <3>1 DEF NoneShared, CardsOf, Boards!Servers
    <3>. QED BY <2>1, <3>2
  <2>. QED BY <2>1 DEF Boards!CardsOfThisBoard, PairedAsMeant
<1>. QED BY <1>1, <1>2, <1>3

----
\* What a step that leaves most of it alone preserves.

\* An account keeps the names it has had.
LEMMA OnlyLinksUnderWay ==
  ASSUME BoardsInv, BoardKinds', UNCHANGED <<login, owned, said, link, wraps, pass, meant, crossed>>,
         \A m \in Linkers : OpenedAs(asking'[m])
  PROVE  BoardsInv'
<1>. USE DEF BoardsInv
<1>1. LoginsStay' /\ RowsAreNamed' /\ LinkedAsMeant' /\ PassesAreListed' /\ PairedAsMeant' /\ NoneSharedInv'
  BY DEF LoginsStay, NamesOf, RowsAreNamed, LinkedAsMeant, ReadsIt, PassesAreListed, ListedAs, PairedAsMeant,
    NoneSharedInv, NoneShared, CardsOf, Boards!BoardOwner
<1>2. LinksAreOpened' BY DEF LinksAreOpened, OpenedAs, NamesOf, ReadsIt, Boards!BoardOwner
<1>. QED BY <1>1, <1>2

\* Transfers say a name the account has, and a rename adds one.
LEMMA HubMoves == BoardsInv /\ (Boards!Transfer \/ Boards!RenameAccount) => BoardsInv'
<1>. SUFFICES ASSUME BoardsInv, Boards!Transfer \/ Boards!RenameAccount PROVE BoardsInv' OBVIOUS
<1>. USE BoardSorts DEF BoardsInv
<1>0. Boards!TypeOK /\ BoardKinds /\ LoginsStay BY DEF BoardKinds
<1>1. UNCHANGED <<link, grants, wraps, asking, letting, pass, orders, meant, crossed>> /\ moves' \in 0..MaxMoves
  BY <1>0 DEF Boards!Transfer, Boards!RenameAccount, Boards!Moves, Boards!memory, Boards!TypeOK
<1>2. /\ login' \in [Boards!Accounts -> Boards!Logins] /\ owned' \in [Boards!Servers -> Boards!Accounts]
      /\ said' \subseteq Boards!Logins \X Boards!Accounts
      /\ \A a \in Boards!Accounts : NamesOf(a) \subseteq NamesOf(a)'
      /\ login' = login \/ login'[Us] = NewLogin
      /\ LoginsStay'
  <2>1. CASE Boards!Transfer
    <3>1. PICK a \in Boards!Accounts \ {owned[Home]} :
             owned' = [owned EXCEPT ![Home] = a] /\ said' = said \cup {<<login[a], a>>}
      BY <2>1 DEF Boards!Transfer
    <3>2. login' = login BY <2>1 DEF Boards!Transfer
    <3>3. LoginsStay' BY <1>0, <3>1, <3>2 DEF LoginsStay, NamesOf, Boards!TypeOK, Boards!Servers
    <3>4. said' \subseteq Boards!Logins \X Boards!Accounts BY <1>0, <3>1 DEF Boards!TypeOK
    <3>. QED BY <1>0, <3>1, <3>2, <3>3, <3>4 DEF NamesOf, Boards!TypeOK
  <2>2. CASE Boards!RenameAccount
    <3>1. /\ login[Us] = Us /\ login' = [login EXCEPT ![Us] = NewLogin] /\ owned' = owned
          /\ said' = said \/ said' = said \cup {<<NewLogin, Us>>}
      BY <2>2 DEF Boards!RenameAccount
    <3>2. login'[Us] = NewLogin /\ login'[Them] = Them /\ login' \in [Boards!Accounts -> Boards!Logins]
      BY <1>0, <3>1 DEF LoginsStay, Boards!TypeOK, Boards!Accounts, Boards!Logins
    <3>3. \A a \in Boards!Accounts : NamesOf(a) \subseteq NamesOf(a)'
      BY <1>0, <3>1, <3>2 DEF NamesOf, LoginsStay, Boards!Accounts
    <3>4. \A t \in said : t[1] \in Boards!Logins /\ t[2] \in Boards!Accounts BY <1>0 DEF Boards!TypeOK
    <3>5. LoginsStay'
      <4>1. \A t \in said' : t \in said \/ t = <<NewLogin, Us>> BY <3>1
      <4>2. NewLogin \in NamesOf(Us)' BY <3>2 DEF NamesOf
      <4>. QED BY <1>0, <3>1, <3>2, <3>3, <3>4, <4>1, <4>2 DEF LoginsStay
    <3>6. said' \subseteq Boards!Logins \X Boards!Accounts
      BY <1>0, <3>1 DEF Boards!TypeOK, Boards!Logins, Boards!Accounts
    <3>. QED BY <1>0, <3>1, <3>2, <3>3, <3>5, <3>6 DEF Boards!TypeOK
  <2>. QED BY <2>1, <2>2
<1>3. BoardKinds' BY <1>0, <1>1, <1>2 DEF BoardKinds, Boards!TypeOK
<1>4. \A s \in Boards!Servers : meant[s] # NULL => meant[s][1] \in Boards!Accounts BY <1>0 DEF Boards!TypeOK
<1>5. RowsAreNamed' /\ LinkedAsMeant' /\ PassesAreListed'
  <2>1. RowsAreNamed'
    <3>1. link[Home].id # NULL => link[Home].id \in Boards!Accounts BY <1>0 DEF Boards!TypeOK, Boards!Servers
    <3>. QED BY <1>1, <1>2, <3>1 DEF RowsAreNamed, Boards!Accounts
  <2>2. LinkedAsMeant' BY <1>1, <1>2, <1>4 DEF LinkedAsMeant, ReadsIt, Boards!BoardOwner
  <2>3. PassesAreListed' BY <1>1, <1>2, <1>4 DEF PassesAreListed, ListedAs
  <2>. QED BY <2>1, <2>2, <2>3
<1>6. LinksAreOpened'
  <2>1. \A m \in Linkers : asking[m].step # "idle" => asking[m].server \in Boards!Servers
    BY DEF LinksAreOpened, OpenedAs
  <2>. QED BY <1>1, <1>2, <1>4, <2>1 DEF LinksAreOpened, OpenedAs, ReadsIt, Boards!BoardOwner
<1>7. PairedAsMeant' BY <1>1 DEF PairedAsMeant
<1>8. NoneSharedInv' BY <1>1, <1>2 DEF NoneSharedInv, NoneShared, CardsOf
<1>. QED BY <1>2, <1>3, <1>5, <1>6, <1>7, <1>8

\* A rename a delivery tells of keeps what the row reads under, or the account it names.
LEMMA RenamesFollowed == BoardsInv /\ Boards!FollowRename => BoardsInv'
<1>. SUFFICES ASSUME BoardsInv, Boards!FollowRename PROVE BoardsInv' OBVIOUS
<1>. USE BoardSorts DEF BoardsInv
<1>0. Boards!TypeOK /\ BoardKinds /\ LoginsStay /\ RowsAreNamed /\ LinkedAsMeant BY DEF BoardKinds
<1>. DEFINE r == link[Home]
<1>1. PICK told \in said, known \in BOOLEAN :
        LET id == IF known THEN told[2] ELSE NULL IN
        link' = [link EXCEPT ![Home] =
            Boards!Row(told[1], IF known THEN id ELSE IF r.name = told[1] THEN r.id ELSE NULL,
                       Boards!Kept(r, told[1], id))] BY DEF Boards!FollowRename
<1>2. UNCHANGED <<login, owned, said, grants, wraps, asking, letting, pass, moves, orders, meant, crossed>>
  BY DEF Boards!FollowRename, Boards!hubVars, Boards!memory
<1>. DEFINE id == IF known THEN told[2] ELSE NULL
            name == told[1]
            b == Boards!Kept(r, name, id)
            new == link'[Home]
<1>3. /\ r \in RowOf /\ name \in Boards!Logins /\ told[2] \in Boards!Accounts /\ name \in NamesOf(told[2])
      /\ id \in Boards!Accounts \cup {NULL} /\ (id # NULL => name \in NamesOf(id))
  <2>1. told \in Boards!Logins \X Boards!Accounts BY <1>0 DEF Boards!TypeOK
  <2>2. link \in [Boards!Servers -> RowOf] BY <1>0 DEF Boards!TypeOK, RowOf
  <2>. QED BY <1>0, <2>1, <2>2 DEF LoginsStay, Boards!Servers
<1>4. \/ ~Boards!LeftBehind(r, name, id) /\ b = r.board
      \/ /\ Boards!LeftBehind(r, name, id) /\ b.on = r.board.on /\ b.owner = r.name
         /\ b.by = NULL \/ (b.by = r.board.by /\ r.id # NULL)
  BY <1>3 DEF Boards!Kept, RowOf
<1>5. b \in [on : BOOLEAN, owner : Boards!Logins \cup {NULL}, by : Linkers \cup {NULL}]
  BY <1>3 DEF Boards!Kept, RowOf
<1>6. /\ link'[Away] = link[Away] /\ new.name = name /\ new.board = b /\ new \in RowOf
      /\ new.id = IF known THEN id ELSE IF r.name = name THEN r.id ELSE NULL
  <2>1. link \in [Boards!Servers -> RowOf] BY <1>0 DEF Boards!TypeOK, RowOf
  <2>2. Home \in Boards!Servers /\ Away \in Boards!Servers BY DEF Boards!Servers
  <2>3. link' = [link EXCEPT ![Home] = [name |-> name,
                 id |-> IF known THEN id ELSE IF r.name = name THEN r.id ELSE NULL, board |-> b]]
    BY <1>1 DEF Boards!Row
  <2>. HIDE DEF b, name, id
  <2>4. new = [name |-> name, id |-> IF known THEN id ELSE IF r.name = name THEN r.id ELSE NULL, board |-> b]
        /\ link'[Away] = link[Away] BY <2>1, <2>2, <2>3
  <2>5. r.id \in Boards!Accounts \cup {NULL} /\ name \in Boards!Logins /\ id \in Boards!Accounts \cup {NULL}
    BY <1>3 DEF RowOf
  <2>. QED BY <1>5, <2>4, <2>5 DEF RowOf
<1>. HIDE DEF b, id, name, new
<1>7. BoardKinds'
  <2>1. link' \in [Boards!Servers -> RowOf]
    <3>1. link \in [Boards!Servers -> RowOf] /\ DOMAIN link' = Boards!Servers
      BY <1>0, <1>1 DEF Boards!TypeOK, RowOf
    <3>2. \A s \in Boards!Servers : link'[s] \in RowOf BY <1>6, <3>1 DEF Boards!Servers, new
    <3>3. link' = [s \in Boards!Servers |-> link'[s]] BY <1>1, <3>1
    <3>. QED BY <3>2, <3>3
  <2>. QED BY <1>0, <1>2, <2>1 DEF BoardKinds, Boards!TypeOK, RowOf
<1>8. LoginsStay' BY <1>2 DEF LoginsStay, NamesOf
<1>9. RowsAreNamed'
  <2>1. new.id # NULL => name \in NamesOf(new.id) BY <1>0, <1>3, <1>6 DEF RowsAreNamed, id
  <2>2. name \in NamesOf(Us) \cup NamesOf(Them) BY <1>3 DEF Boards!Accounts
  <2>. QED BY <1>0, <1>2, <1>6, <2>1, <2>2 DEF RowsAreNamed, NamesOf, new
<1>10. LinkedAsMeant'
  <2>1. r.board.on => /\ meant[Home] # NULL /\ ReadsIt(r, meant[Home])
                      /\ r.board.by \in {NULL, meant[Home][2]}
    BY <1>0 DEF LinkedAsMeant, Boards!Servers
  <2>2. ~r.board.on => meant[Home] = NULL /\ r.board.by = NULL BY <1>0 DEF LinkedAsMeant, Boards!Servers
  <2>3. b.on = r.board.on /\ b.by \in {NULL, r.board.by} BY <1>4
  <2>4. ASSUME b.on PROVE ReadsIt(new, meant[Home])
    <3>1. r.board.on /\ meant[Home] # NULL /\ ReadsIt(r, meant[Home]) /\ meant[Home][1] \in Boards!Accounts
      BY <1>0, <2>1, <2>3, <2>4 DEF Boards!TypeOK, Boards!Servers
    <3>2. CASE Boards!LeftBehind(r, name, id)
      <4>1. b.owner = r.name /\ r.board.owner = NULL /\ r.name # NULL
        BY <1>3, <1>4, <3>2 DEF Boards!LeftBehind, RowOf, Boards!Logins
      <4>. QED BY <1>6, <3>1, <4>1 DEF ReadsIt, Boards!BoardOwner
    <3>3. CASE ~Boards!LeftBehind(r, name, id)
      <4>1. b = r.board BY <1>4, <3>3
      <4>2. CASE r.board.owner # NULL \/ r.name = name
        BY <1>6, <3>1, <4>1, <4>2 DEF ReadsIt, Boards!BoardOwner
      <4>3. CASE r.board.owner = NULL /\ r.name # name
        <5>1. id # NULL /\ r.id = id BY <3>1, <3>3, <4>3 DEF Boards!LeftBehind
        <5>2. id \in Boards!Accounts /\ r.name \in NamesOf(id) /\ name \in NamesOf(id)
          BY <1>0, <1>3, <5>1 DEF RowsAreNamed
        <5>3. r.name \in NamesOf(meant[Home][1]) BY <3>1, <4>3 DEF ReadsIt, Boards!BoardOwner
        <5>4. id = meant[Home][1] BY <1>0, <3>1, <5>2, <5>3, OneAccountEach
        <5>. QED BY <1>6, <4>1, <4>3, <5>2, <5>4 DEF ReadsIt, Boards!BoardOwner
      <4>. QED BY <4>2, <4>3
    <3>. QED BY <3>2, <3>3
  <2>5. \A s \in Boards!Servers : s = Home \/ s = Away BY DEF Boards!Servers
  <2>6. /\ link'[Home].board = b /\ ReadsIt(new, meant[Home]) = ReadsIt(link[Home], meant[Home])'
        /\ ReadsIt(link[Away], meant[Away]) = ReadsIt(link[Away], meant[Away])'
    BY <1>2, <1>6 DEF ReadsIt, NamesOf, new, Boards!BoardOwner
  <2>7. Away \in Boards!Servers /\ Home \in Boards!Servers BY DEF Boards!Servers
  <2>. QED BY <1>0, <1>2, <1>6, <2>1, <2>2, <2>3, <2>4, <2>5, <2>6, <2>7 DEF LinkedAsMeant
<1>11. LinksAreOpened' /\ PassesAreListed' /\ PairedAsMeant' /\ NoneSharedInv'
  BY <1>2 DEF LinksAreOpened, OpenedAs, ReadsIt, NamesOf, PassesAreListed, ListedAs, PairedAsMeant,
    NoneSharedInv, NoneShared, CardsOf, Boards!BoardOwner
<1>. QED BY <1>7, <1>8, <1>9, <1>10, <1>11

----
\* /board link, as far as it writes nothing.

LEMMA OneLinkMoves ==
  ASSUME BoardsInv, NEW m \in Linkers, NEW a, a \in LinkUnderWay, OpenedAs(a),
         asking' = [asking EXCEPT ![m] = a], grants' \subseteq Boards!Servers \X Linkers,
         orders' \in 0..MaxOrders,
         UNCHANGED <<login, owned, said, link, wraps, pass, meant, crossed, letting, moves>>
  PROVE  BoardsInv'
<1>1. Boards!TypeOK /\ BoardKinds /\ \A k \in Linkers : OpenedAs(asking[k])
  BY DEF BoardsInv, BoardKinds, LinksAreOpened
<1>2. asking' \in [Linkers -> LinkUnderWay] /\ \A k \in Linkers : asking'[k] = a \/ asking'[k] = asking[k]
  BY <1>1 DEF BoardKinds
<1>3. \A k \in Linkers : asking'[k].step \in {"idle", "invited", "opened", "checked"} BY <1>2 DEF LinkUnderWay
<1>4. BoardKinds' BY <1>1, <1>2, <1>3 DEF BoardKinds, Boards!TypeOK
<1>. QED BY <1>1, <1>2, <1>4, OnlyLinksUnderWay

LEMMA IdleIsOpened == Boards!Idle \in LinkUnderWay /\ OpenedAs(Boards!Idle)
BY BoardSorts DEF Boards!Idle, LinkUnderWay, OpenedAs

\* What a link opens is the board of the login it names.
LEMMA OpenKeeps ==
  ASSUME BoardsInv, NEW m \in Linkers, NEW a, a \in LinkUnderWay, a.server \in Boards!Servers, ~a.crossed,
         Boards!Open(m, a), grants' \subseteq Boards!Servers \X Linkers, orders' \in 0..MaxOrders,
         UNCHANGED <<login, owned, said, link, wraps, pass, meant, crossed, letting, moves>>
  PROVE  BoardsInv'
<1>. DEFINE owner == Boards!BoardOwner(a.typed, link[a.server].name)
<1>1. PICK account \in Boards!Opens(owner) :
        asking' = [asking EXCEPT ![m] =
            [a EXCEPT !.step = "opened", !.owner = owner, !.board = account, !.before = link[a.server]]]
  BY DEF Boards!Open
<1>2. account \in Boards!Accounts /\ login[account] = owner BY <1>1 DEF Boards!Opens
<1>. DEFINE new == [a EXCEPT !.step = "opened", !.owner = owner, !.board = account, !.before = link[a.server]]
<1>3. link[a.server] \in RowOf /\ owner \in Boards!Logins
  <2>1. Boards!TypeOK BY DEF BoardsInv, BoardKinds
  <2>. QED BY <1>2, <2>1 DEF Boards!TypeOK, RowOf
<1>. HIDE DEF owner
<1>4. new \in LinkUnderWay BY <1>2, <1>3 DEF LinkUnderWay
<1>5. /\ new.step = "opened" /\ new.server = a.server /\ new.board = account /\ new.owner = owner
      /\ new.before = link[a.server] /\ new.crossed = a.crossed
  BY DEF LinkUnderWay
<1>6. OpenedAs(new)
  <2>1. owner \in NamesOf(account) BY <1>2 DEF NamesOf
  <2>2. link[a.server].board.on => meant[a.server] # NULL /\ ReadsIt(link[a.server], meant[a.server])
    BY DEF BoardsInv, LinkedAsMeant
  <2>. HIDE DEF new
  <2>. QED BY <1>2, <1>3, <1>5, <2>1, <2>2 DEF OpenedAs
<1>. HIDE DEF new
<1>. QED BY <1>1, <1>4, <1>6, OneLinkMoves DEF new

LEMMA LinksAsked ==
  ASSUME BoardsInv, NEW m \in Linkers,
         Boards!LinkBoard(m) \/ Boards!FollowLink(m) \/ Boards!CheckNobodyElses(m) \/ Boards!Abandon(m)
  PROVE  BoardsInv'
<1>. USE BoardSorts
<1>0. Boards!TypeOK /\ asking[m] \in LinkUnderWay /\ OpenedAs(asking[m])
      /\ \A s \in Boards!Servers : link[s] \in RowOf
  BY DEF BoardsInv, BoardKinds, LinksAreOpened, Boards!TypeOK, RowOf
<1>1. ASSUME Boards!LinkBoard(m) PROVE BoardsInv'
  <2>1. /\ orders' \in 0..MaxOrders
        /\ UNCHANGED <<login, owned, said, link, grants, wraps, letting, pass, moves, meant, crossed>>
    <3>1. orders < MaxOrders /\ orders' = orders + 1 /\ orders \in 0..MaxOrders
      BY <1>0, <1>1 DEF Boards!LinkBoard, Boards!Orders, Boards!TypeOK
    <3>2. UNCHANGED <<login, owned, said, link, grants, wraps, letting, pass, moves, meant, crossed>>
      BY <1>1 DEF Boards!LinkBoard, Boards!hubVars, Boards!memory
    <3>. QED BY <3>1, <3>2
  <2>2. PICK s \in Boards!Servers, typed \in {NULL} \cup {login[a] : a \in Boards!Accounts} :
          LET a == [Boards!Idle EXCEPT !.server = s, !.typed = typed] IN
          Boards!Open(m, a) \/ Boards!Invite(m, a) BY <1>1 DEF Boards!LinkBoard
  <2>. DEFINE a == [Boards!Idle EXCEPT !.server = s, !.typed = typed]
  <2>3. typed \in Boards!Logins \cup {NULL} BY <1>0 DEF Boards!TypeOK
  <2>4. a \in LinkUnderWay /\ a.server = s /\ ~a.crossed BY <2>3 DEF Boards!Idle, LinkUnderWay
  <2>5. grants' \subseteq Boards!Servers \X Linkers BY <1>0, <2>1 DEF Boards!TypeOK
  <2>. HIDE DEF a
  <2>6. CASE Boards!Open(m, a) BY <2>1, <2>4, <2>5, <2>6, OpenKeeps
  <2>7. CASE Boards!Invite(m, a)
    <3>. DEFINE under == IF a.typed = NULL THEN link[a.server].name ELSE NULL
                new == [a EXCEPT !.step = "invited", !.under = under]
    <3>0. under \in Boards!Logins \cup {NULL} BY <1>0, <2>4 DEF RowOf
    <3>. HIDE DEF under
    <3>1. new \in LinkUnderWay /\ new.step = "invited" /\ new.server = s /\ ~new.crossed
      BY <2>4, <3>0 DEF LinkUnderWay
    <3>2. asking' = [asking EXCEPT ![m] = new] BY <2>7 DEF Boards!Invite, under
    <3>. HIDE DEF new
    <3>3. OpenedAs(new) BY <3>1 DEF OpenedAs
    <3>. QED BY <2>1, <2>5, <3>1, <3>2, <3>3, OneLinkMoves
  <2>. QED BY <2>2, <2>6, <2>7 DEF a
<1>2. ASSUME Boards!FollowLink(m) PROVE BoardsInv'
  <2>1. /\ asking[m].step = "invited" /\ orders' = orders /\ asking[m].server \in Boards!Servers
        /\ grants' = grants \cup {<<asking[m].server, m>>}
        /\ UNCHANGED <<login, owned, said, link, wraps, letting, pass, moves, meant, crossed>>
        /\ Boards!Open(m, asking[m]) \/ asking' = [asking EXCEPT ![m] = Boards!Idle]
    BY <1>0, <1>2 DEF Boards!FollowLink, Boards!hubVars, Boards!memory, OpenedAs
  <2>2. grants' \subseteq Boards!Servers \X Linkers /\ orders' \in 0..MaxOrders
    BY <1>0, <2>1 DEF Boards!TypeOK
  <2>3. CASE asking' = [asking EXCEPT ![m] = Boards!Idle] BY <2>1, <2>2, <2>3, IdleIsOpened, OneLinkMoves
  <2>4. CASE Boards!Open(m, asking[m]) /\ ~asking[m].crossed BY <1>0, <2>1, <2>2, <2>4, OpenKeeps
  <2>5. ~asking[m].crossed BY <2>1 DEF BoardsInv, LinksAreOpened, OpenedAs
  <2>. QED BY <2>1, <2>3, <2>4, <2>5
<1>3. ASSUME Boards!CheckNobodyElses(m) PROVE BoardsInv'
  <2>1. /\ asking[m].step = "opened"
        /\ UNCHANGED <<login, owned, said, link, grants, wraps, letting, pass, moves, orders, meant, crossed>>
        /\ \/ asking' = [asking EXCEPT ![m] = [asking[m] EXCEPT !.step = "checked"]]
           \/ asking' = [asking EXCEPT ![m] = Boards!Idle]
    BY <1>3 DEF Boards!CheckNobodyElses, Boards!hubVars, Boards!memory
  <2>2. grants' \subseteq Boards!Servers \X Linkers /\ orders' \in 0..MaxOrders
    BY <1>0, <2>1 DEF Boards!TypeOK
  <2>. DEFINE new == [asking[m] EXCEPT !.step = "checked"]
  <2>3. /\ new \in LinkUnderWay /\ new.step = "checked" /\ new.server = asking[m].server
        /\ new.board = asking[m].board /\ new.owner = asking[m].owner /\ new.before = asking[m].before
        /\ new.crossed = asking[m].crossed BY <1>0 DEF LinkUnderWay
  <2>. HIDE DEF new
  <2>4. OpenedAs(new) BY <1>0, <2>1, <2>3 DEF OpenedAs
  <2>. QED BY <2>1, <2>2, <2>3, <2>4, IdleIsOpened, OneLinkMoves DEF new
<1>4. ASSUME Boards!Abandon(m) PROVE BoardsInv'
  <2>1. grants' \subseteq Boards!Servers \X Linkers /\ orders' \in 0..MaxOrders
    BY <1>0, <1>4 DEF Boards!Abandon, Boards!TypeOK
  <2>. QED BY <1>4, <2>1, IdleIsOpened, OneLinkMoves DEF Boards!Abandon, Boards!hubVars, Boards!memory
<1>. QED BY <1>1, <1>2, <1>3, <1>4

----
\* What writes: /board link, /board unlink, and the poller.

\* A row that is written again crosses whoever is between reading and writing it.
LEMMA StirredSo ==
  ASSUME BoardsInv, NEW s \in Boards!Servers, NEW ms, ms \subseteq Linkers
  PROVE  /\ Boards!Stirred(s, ms) \in [Linkers -> LinkUnderWay]
         /\ Boards!StirredPass(s) \in [Boards!Servers -> PassUnderWay]
         /\ \A k \in Linkers : LET a == asking[k]  b == Boards!Stirred(s, ms)[k] IN
              /\ b.step = a.step /\ b.server = a.server /\ b.board = a.board /\ b.owner = a.owner
              /\ b.before = a.before
              /\ b.crossed = a.crossed \/ (b.crossed = TRUE /\ a.step \in {"opened", "checked"})
              /\ k \in ms /\ a.step \in {"opened", "checked"} /\ a.server = s => b.crossed = TRUE
         /\ \A t \in Boards!Servers : LET p == pass[t]  q == Boards!StirredPass(s)[t] IN
              /\ t # s => q = p
              /\ q.step = p.step /\ q.owner = p.owner /\ q.board = p.board
              /\ t = s => (q.crossed <=> p.step # "idle")
<1>1. asking \in [Linkers -> LinkUnderWay] /\ pass \in [Boards!Servers -> PassUnderWay]
  BY DEF BoardsInv, BoardKinds
<1>2. \A k \in Linkers : LET a == asking[k]  b == [a EXCEPT !.crossed = TRUE] IN
        /\ b \in LinkUnderWay
        /\ b.step = a.step /\ b.server = a.server /\ b.board = a.board /\ b.owner = a.owner
        /\ b.before = a.before /\ b.crossed = TRUE BY <1>1 DEF LinkUnderWay
<1>3. \A k \in Linkers : Boards!Stirred(s, ms)[k] =
        IF k \in ms /\ asking[k].step \in {"opened", "checked"} /\ asking[k].server = s
        THEN [asking[k] EXCEPT !.crossed = TRUE] ELSE asking[k]
  BY DEF Boards!Stirred
<1>4. Boards!Stirred(s, ms) \in [Linkers -> LinkUnderWay] BY <1>1, <1>2 DEF Boards!Stirred
<1>5. Boards!StirredPass(s) = [pass EXCEPT ![s] = [pass[s] EXCEPT !.crossed = (pass[s].step # "idle")]]
  BY <1>1 DEF Boards!StirredPass
<1>6. [pass[s] EXCEPT !.crossed = (pass[s].step # "idle")] \in PassUnderWay BY <1>1 DEF PassUnderWay
<1>7. Boards!StirredPass(s) \in [Boards!Servers -> PassUnderWay] BY <1>1, <1>5, <1>6
<1>8. \A t \in Boards!Servers : LET p == pass[t]  q == Boards!StirredPass(s)[t] IN
                /\ t # s => q = p
                /\ q.step = p.step /\ q.owner = p.owner /\ q.board = p.board
                /\ t = s => (q.crossed <=> p.step # "idle")
  <2>1. \A t \in Boards!Servers : t # s => Boards!StirredPass(s)[t] = pass[t] BY <1>1, <1>5
  <2>2. Boards!StirredPass(s)[s] = [pass[s] EXCEPT !.crossed = (pass[s].step # "idle")] BY <1>1, <1>5
  <2>3. pass[s] \in PassUnderWay BY <1>1
  <2>. QED BY <2>1, <2>2, <2>3 DEF PassUnderWay
<1>9. \A k \in Linkers : LET a == asking[k]  b == Boards!Stirred(s, ms)[k] IN
        /\ b.step = a.step /\ b.server = a.server /\ b.board = a.board /\ b.owner = a.owner
        /\ b.before = a.before
        /\ b.crossed = a.crossed \/ (b.crossed = TRUE /\ a.step \in {"opened", "checked"})
        /\ k \in ms /\ a.step \in {"opened", "checked"} /\ a.server = s => b.crossed = TRUE
  <2>. TAKE k \in Linkers
  <2>1. CASE k \in ms /\ asking[k].step \in {"opened", "checked"} /\ asking[k].server = s
    <3>1. Boards!Stirred(s, ms)[k] = [asking[k] EXCEPT !.crossed = TRUE] BY <1>3, <2>1
    <3>. QED BY <1>2, <2>1, <3>1
  <2>2. CASE ~(k \in ms /\ asking[k].step \in {"opened", "checked"} /\ asking[k].server = s)
    <3>1. Boards!Stirred(s, ms)[k] = asking[k] BY <1>3, <2>2
    <3>. QED BY <2>2, <3>1
  <2>. QED BY <2>1, <2>2
<1>. QED BY <1>4, <1>7, <1>8, <1>9

\* The row of s is written, with the board that is meant by it: whoever read it before
\* has been crossed, and the cards of another board are forgotten.
LEMMA RowWritten ==
  ASSUME BoardsInv, NEW s \in Boards!Servers, NEW ms, ms \subseteq Linkers,
         NEW board \in [on : BOOLEAN, owner : Boards!Logins \cup {NULL}, by : Linkers \cup {NULL}],
         NEW m \in {NULL} \cup (Boards!Accounts \X Linkers), NEW c \in BOOLEAN,
         NEW w \in {NULL, wraps[s]},
         board.on => m # NULL /\ Boards!BoardOwner(board.owner, link[s].name) \in NamesOf(m[1])
                     /\ board.by \in {NULL, m[2]},
         ~board.on => m = NULL /\ board.by = NULL,
         w # NULL /\ ~c => m # NULL /\ w = m[1] /\ ~crossed[s] /\ wraps[s] = w,
         link' = [link EXCEPT ![s].board = board], wraps' = [wraps EXCEPT ![s] = w],
         meant' = [meant EXCEPT ![s] = m], crossed' = [crossed EXCEPT ![s] = c],
         pass' = Boards!StirredPass(s),
         asking' \in [Linkers -> LinkUnderWay],
         \A k \in Linkers : \/ asking'[k] = Boards!Idle
                            \/ k \in ms /\ asking'[k] = Boards!Stirred(s, ms)[k],
         letting' \in [Boards!Servers -> [step : {"idle", "read", "forget"}, by : Linkers \cup {NULL}]],
         UNCHANGED <<login, owned, said, grants, moves, orders>>
  PROVE  BoardsInv'
<1>. USE BoardSorts DEF BoardsInv
<1>0. /\ Boards!TypeOK /\ BoardKinds /\ LoginsStay
      /\ asking \in [Linkers -> LinkUnderWay] /\ pass \in [Boards!Servers -> PassUnderWay]
  BY DEF BoardKinds
<1>a. \A k \in Linkers : LET a == asking[k]  b == Boards!Stirred(s, ms)[k] IN
        /\ b.step = a.step /\ b.server = a.server /\ b.board = a.board /\ b.owner = a.owner
        /\ b.before = a.before
        /\ b.crossed = a.crossed \/ (b.crossed = TRUE /\ a.step \in {"opened", "checked"})
        /\ k \in ms /\ a.step \in {"opened", "checked"} /\ a.server = s => b.crossed = TRUE
  BY StirredSo
<1>b. /\ pass' \in [Boards!Servers -> PassUnderWay]
      /\ \A t \in Boards!Servers : LET p == pass[t]  q == pass'[t] IN
            /\ t # s => q = p
            /\ q.step = p.step /\ q.owner = p.owner /\ q.board = p.board
            /\ t = s => (q.crossed <=> p.step # "idle")
  <2>1. /\ Boards!StirredPass(s) \in [Boards!Servers -> PassUnderWay]
        /\ \A t \in Boards!Servers : LET p == pass[t]  q == Boards!StirredPass(s)[t] IN
                /\ t # s => q = p
                /\ q.step = p.step /\ q.owner = p.owner /\ q.board = p.board
                /\ t = s => (q.crossed <=> p.step # "idle") BY StirredSo
  <2>. QED BY <2>1
<1>1. /\ link \in [Boards!Servers -> RowOf] /\ meant \in [Boards!Servers -> {NULL} \cup (Boards!Accounts \X Linkers)]
      /\ crossed \in [Boards!Servers -> BOOLEAN] /\ wraps \in [Boards!Servers -> Boards!Accounts \cup {NULL}]
  BY <1>0 DEF Boards!TypeOK, RowOf
<1>2. /\ \A t \in Boards!Servers \ {s} : /\ link'[t] = link[t] /\ wraps'[t] = wraps[t]
                                         /\ meant'[t] = meant[t] /\ crossed'[t] = crossed[t]
      /\ wraps'[s] = w /\ meant'[s] = m /\ crossed'[s] = c
      /\ meant' \in [Boards!Servers -> {NULL} \cup (Boards!Accounts \X Linkers)]
      /\ crossed' \in [Boards!Servers -> BOOLEAN] /\ wraps' \in [Boards!Servers -> Boards!Accounts \cup {NULL}]
  BY <1>1
<1>3. /\ link'[s].board = board /\ link'[s].name = link[s].name /\ link'[s].id = link[s].id
      /\ link' \in [Boards!Servers -> RowOf]
  <2>1. link[s] \in RowOf /\ link' = [link EXCEPT ![s] = [link[s] EXCEPT !.board = board]] BY <1>1
  <2>2. LET r == [link[s] EXCEPT !.board = board] IN
        r \in RowOf /\ r.board = board /\ r.name = link[s].name /\ r.id = link[s].id
    BY <2>1 DEF RowOf
  <2>. QED BY <1>1, <2>1, <2>2
<1>4. BoardKinds'
  <2>1. \A k \in Linkers : asking'[k].step \in {"idle", "invited", "opened", "checked"} BY DEF LinkUnderWay
  <2>2. pass' \in [Boards!Servers -> PassUnderWay] BY <1>b
  <2>3. \A t \in Boards!Servers : letting'[t].step \in {"idle", "read", "forget"}
                                  /\ pass'[t].step \in {"idle", "listed", "read"}
    BY <2>2 DEF PassUnderWay
  <2>4. link' \in [Boards!Servers -> [name : Boards!Logins, id : Boards!Accounts \cup {NULL},
                             board : [on : BOOLEAN, owner : Boards!Logins \cup {NULL}, by : Linkers \cup {NULL}]]]
    BY <1>3 DEF RowOf
  <2>. QED BY <1>0, <1>2, <2>1, <2>2, <2>3, <2>4 DEF BoardKinds, Boards!TypeOK
<1>5. \A a : NamesOf(a)' = NamesOf(a) BY DEF NamesOf
<1>6. LoginsStay' BY <1>0, <1>5 DEF LoginsStay
<1>7. RowsAreNamed'
  <2>1. \A t \in Boards!Servers : link'[t].name = link[t].name /\ link'[t].id = link[t].id BY <1>2, <1>3
  <2>. QED BY <1>5, <2>1 DEF RowsAreNamed, Boards!Servers
<1>8. LinkedAsMeant'
  <2>1. ASSUME NEW t \in Boards!Servers, t # s
        PROVE  /\ link'[t].board.on => /\ meant'[t] # NULL /\ ReadsIt(link[t], meant[t])'
                                       /\ link'[t].board.by \in {NULL, meant'[t][2]}
               /\ ~link'[t].board.on => meant'[t] = NULL /\ link'[t].board.by = NULL
    BY <1>2, <1>5, <2>1 DEF LinkedAsMeant, ReadsIt, Boards!BoardOwner
  <2>2. /\ link'[s].board.on => /\ meant'[s] # NULL /\ ReadsIt(link[s], meant[s])'
                                /\ link'[s].board.by \in {NULL, meant'[s][2]}
        /\ ~link'[s].board.on => meant'[s] = NULL /\ link'[s].board.by = NULL
    BY <1>2, <1>3, <1>5 DEF ReadsIt, Boards!BoardOwner
  <2>. QED BY <2>1, <2>2 DEF LinkedAsMeant
<1>9. LinksAreOpened'
  <2>. SUFFICES ASSUME NEW k \in Linkers PROVE OpenedAs(asking[k])' BY DEF LinksAreOpened
  <2>1. CASE asking'[k] = Boards!Idle BY <2>1 DEF OpenedAs, Boards!Idle
  <2>2. CASE k \in ms /\ asking'[k] = Boards!Stirred(s, ms)[k]
    <3>1. OpenedAs(asking[k]) BY DEF LinksAreOpened
    <3>2. LET a == asking[k]  b == asking'[k] IN
                /\ b.step = a.step /\ b.server = a.server /\ b.board = a.board /\ b.owner = a.owner
                /\ b.before = a.before
                /\ b.crossed = a.crossed \/ (b.crossed = TRUE /\ a.step \in {"opened", "checked"})
                /\ a.step \in {"opened", "checked"} /\ a.server = s => b.crossed = TRUE
      BY <1>a, <2>2
    <3>3. asking[k].server \in Boards!Servers /\ asking[k].server # s => meant'[asking[k].server] = meant[asking[k].server]
      BY <1>2
    <3>. QED BY <1>5, <3>1, <3>2, <3>3 DEF OpenedAs, ReadsIt, Boards!BoardOwner
  <2>. QED BY <2>1, <2>2
<1>10. PassesAreListed'
  <2>. SUFFICES ASSUME NEW t \in Boards!Servers PROVE ListedAs(pass[t], meant[t])' BY DEF PassesAreListed
  <2>1. LET p == pass[t]  q == pass'[t] IN
                /\ t # s => q = p
                /\ q.step = p.step /\ q.owner = p.owner /\ q.board = p.board
                /\ t = s => (q.crossed <=> p.step # "idle") BY <1>b
  <2>2. ListedAs(pass[t], meant[t]) BY DEF PassesAreListed
  <2>. QED BY <1>2, <1>5, <2>1, <2>2 DEF ListedAs
<1>11. PairedAsMeant'
  <2>1. \A t \in Boards!Servers \ {s} : wraps'[t] # NULL /\ ~crossed'[t] =>
            meant'[t] # NULL /\ wraps'[t] = meant'[t][1]
    BY <1>2 DEF PairedAsMeant
  <2>2. wraps'[s] # NULL /\ ~crossed'[s] => meant'[s] # NULL /\ wraps'[s] = meant'[s][1] BY <1>2
  <2>. QED BY <2>1, <2>2 DEF PairedAsMeant
<1>12. NoneSharedInv'
  <2>. SUFFICES ASSUME login[Us] = Us, ~crossed'[Home], ~crossed'[Away]
                PROVE  CardsOf(Home)' \cap CardsOf(Away)' = {}
    BY DEF NoneSharedInv, NoneShared
  <2>1. \A t \in Boards!Servers : t # s => CardsOf(t)' = CardsOf(t) BY <1>2, <1>b DEF CardsOf
  <2>2. CardsOf(s)' \subseteq (IF w = NULL THEN {} ELSE {w}) BY <1>2, <1>b DEF CardsOf
  <2>3. CASE w = NULL BY <2>2, <2>3, <2>1 DEF Boards!Servers
  <2>4. CASE w # NULL
    <3>1. ~crossed[Home] /\ ~crossed[Away] /\ wraps[s] = w BY <1>2, <2>4 DEF Boards!Servers
    <3>2. CardsOf(Home) \cap CardsOf(Away) = {} BY <3>1 DEF NoneSharedInv, NoneShared
    <3>3. CardsOf(s)' \subseteq CardsOf(s) BY <2>2, <2>4, <3>1 DEF CardsOf
    <3>. QED BY <2>1, <3>2, <3>3 DEF Boards!Servers
  <2>. QED BY <2>3, <2>4
<1>. QED BY <1>4, <1>6, <1>7, <1>8, <1>9, <1>10, <1>11, <1>12

\* A link that was checked is written, if the name still means the board it opened.
LEMMA LinksWritten == ASSUME BoardsInv, NEW m \in Linkers, Boards!CommitLink(m) PROVE BoardsInv'
<1>. USE BoardSorts
<1>. DEFINE a == asking[m]
            s == a.server
<1>0. /\ Boards!TypeOK /\ BoardKinds /\ a \in LinkUnderWay /\ OpenedAs(a) /\ a.step = "checked"
      /\ s \in Boards!Servers /\ asking \in [Linkers -> LinkUnderWay]
      /\ letting \in [Boards!Servers -> [step : {"idle", "read", "forget"}, by : Linkers \cup {NULL}]]
  BY DEF BoardsInv, BoardKinds, LinksAreOpened, OpenedAs, Boards!CommitLink
<1>1. UNCHANGED <<login, owned, said, grants, letting, moves, orders>>
  BY DEF Boards!CommitLink, Boards!hubVars
<1>2. CASE Boards!MovedMeanwhile(a)
  <2>1. asking' = [asking EXCEPT ![m] = Boards!Idle] /\ UNCHANGED <<link, wraps, pass, meant, crossed>>
    BY <1>2 DEF Boards!CommitLink, Boards!memory
  <2>2. grants' \subseteq Boards!Servers \X Linkers /\ orders' \in 0..MaxOrders
    BY <1>0, <1>1 DEF Boards!TypeOK
  <2>. QED BY <1>1, <2>1, <2>2, IdleIsOpened, OneLinkMoves
<1>3. CASE ~Boards!MovedMeanwhile(a)
  <2>. DEFINE board == [on |-> TRUE, owner |-> a.typed, by |-> m]
              w == IF Boards!OtherBoard(a) THEN NULL ELSE wraps[s]
              c == ~Boards!OtherBoard(a) /\ (crossed[s] \/ a.crossed)
              p == <<a.board, m>>
              ms == Linkers \ {m}
  <2>1. /\ link' = [link EXCEPT ![s].board = board] /\ meant' = [meant EXCEPT ![s] = p]
        /\ wraps' = IF Boards!OtherBoard(a) THEN [wraps EXCEPT ![s] = NULL] ELSE wraps
        /\ crossed' = [crossed EXCEPT ![s] = c]
        /\ asking' = [Boards!Stirred(s, ms) EXCEPT ![m] = Boards!Idle]
        /\ pass' = Boards!StirredPass(s) BY <1>3 DEF Boards!CommitLink
  <2>2. wraps' = [wraps EXCEPT ![s] = w] BY <1>0, <2>1 DEF Boards!TypeOK
  <2>3. /\ board \in [on : BOOLEAN, owner : Boards!Logins \cup {NULL}, by : Linkers \cup {NULL}]
        /\ board.on /\ board.owner = a.typed /\ board.by = m
    BY <1>0 DEF LinkUnderWay
  <2>4. p \in Boards!Accounts \X Linkers /\ p[1] = a.board /\ p[2] = m /\ p # NULL
    <3>1. a.board \in Boards!Accounts BY <1>0 DEF OpenedAs
    <3>. QED BY <3>1
  <2>5. Boards!BoardOwner(board.owner, link[s].name) \in NamesOf(p[1])
    <3>1. Boards!BoardOwner(a.typed, link[s].name) = a.owner BY <1>3 DEF Boards!MovedMeanwhile
    <3>2. a.owner \in NamesOf(a.board) BY <1>0 DEF OpenedAs
    <3>. QED BY <2>3, <2>4, <3>1, <3>2
  <2>6. w # NULL /\ ~c => w = p[1] /\ ~crossed[s] /\ wraps[s] = w
    <3>. SUFFICES ASSUME w # NULL, ~c PROVE w = a.board /\ ~crossed[s] /\ wraps[s] = w BY <2>4
    <3>1. ~Boards!OtherBoard(a) /\ w = wraps[s] BY SMT
    <3>2. ~crossed[s] /\ ~a.crossed BY <1>0, <3>1 DEF Boards!TypeOK, LinkUnderWay
    <3>3. wraps[s] = meant[s][1] /\ meant[s] # NULL BY <1>0, <3>1, <3>2 DEF BoardsInv, PairedAsMeant
    <3>4. meant[s][1] \in Boards!Accounts BY <1>0, <3>3 DEF Boards!TypeOK
    <3>5. a.before.board.on /\ Boards!BoardOwner(a.before.board.owner, a.before.name) = a.owner
      BY <3>1 DEF Boards!OtherBoard
    <3>6. a.owner \in NamesOf(meant[s][1]) /\ a.owner \in NamesOf(a.board) /\ a.board \in Boards!Accounts
      BY <1>0, <3>2, <3>5 DEF OpenedAs, ReadsIt
    <3>7. meant[s][1] = a.board BY <3>4, <3>6, OneAccountEach DEF BoardsInv
    <3>. QED BY <3>1, <3>2, <3>3, <3>7
  <2>7. c \in BOOLEAN /\ w \in {NULL, wraps[s]} /\ ms \subseteq Linkers
    BY <1>0 DEF Boards!TypeOK, LinkUnderWay
  <2>8. /\ asking' \in [Linkers -> LinkUnderWay]
        /\ \A k \in Linkers : \/ asking'[k] = Boards!Idle
                              \/ k \in ms /\ asking'[k] = Boards!Stirred(s, ms)[k]
    <3>1. Boards!Stirred(s, ms) \in [Linkers -> LinkUnderWay] BY <1>0, <2>7, StirredSo
    <3>2. Boards!Idle \in LinkUnderWay BY IdleIsOpened
    <3>. HIDE DEF a, s
    <3>. QED BY <2>1, <3>1, <3>2
  <2>9. letting' \in [Boards!Servers -> [step : {"idle", "read", "forget"}, by : Linkers \cup {NULL}]]
    BY <1>0, <1>1
  <2>10. board.by \in {NULL, p[2]} /\ p \in {NULL} \cup (Boards!Accounts \X Linkers) BY <2>3, <2>4
  <2>. HIDE DEF board, w, c, p, ms, s, a
  <2>. QED BY <1>0, <1>1, <2>1, <2>2, <2>3, <2>4, <2>5, <2>6, <2>7, <2>8, <2>9, <2>10, RowWritten
<1>. QED BY <1>2, <1>3

LEMMA LinksUndone == ASSUME BoardsInv, NEW s \in Boards!Servers, Boards!CommitUnlink(s) PROVE BoardsInv'
<1>. USE BoardSorts
<1>0. /\ Boards!TypeOK /\ BoardKinds /\ asking \in [Linkers -> LinkUnderWay]
      /\ letting \in [Boards!Servers -> [step : {"idle", "read", "forget"}, by : Linkers \cup {NULL}]]
  BY DEF BoardsInv, BoardKinds
<1>1. /\ link' = [link EXCEPT ![s].board = Boards!NoBoard] /\ wraps' = [wraps EXCEPT ![s] = NULL]
      /\ meant' = [meant EXCEPT ![s] = NULL] /\ crossed' = [crossed EXCEPT ![s] = FALSE]
      /\ asking' = Boards!Stirred(s, Linkers) /\ pass' = Boards!StirredPass(s)
      /\ letting' = [letting EXCEPT ![s] = IF letting[s].by = NULL THEN Boards!Settled
                                           ELSE [letting[s] EXCEPT !.step = "forget"]]
      /\ UNCHANGED <<login, owned, said, grants, moves, orders>>
  BY <1>0 DEF Boards!CommitUnlink, Boards!hubVars
<1>2. /\ Boards!NoBoard \in [on : BOOLEAN, owner : Boards!Logins \cup {NULL}, by : Linkers \cup {NULL}]
      /\ ~Boards!NoBoard.on /\ Boards!NoBoard.by = NULL BY DEF Boards!NoBoard
<1>3. asking' \in [Linkers -> LinkUnderWay] BY <1>1, StirredSo
<1>4. letting' \in [Boards!Servers -> [step : {"idle", "read", "forget"}, by : Linkers \cup {NULL}]]
  <2>1. [letting[s] EXCEPT !.step = "forget"] \in [step : {"idle", "read", "forget"}, by : Linkers \cup {NULL}]
    BY <1>0
  <2>2. Boards!Settled \in [step : {"idle", "read", "forget"}, by : Linkers \cup {NULL}] BY DEF Boards!Settled
  <2>. QED BY <1>0, <1>1, <2>1, <2>2
<1>5. \A k \in Linkers : k \in Linkers /\ asking'[k] = Boards!Stirred(s, Linkers)[k] BY <1>1
<1>6. FALSE \in BOOLEAN /\ NULL \in {NULL, wraps[s]} /\ NULL \in {NULL} \cup (Boards!Accounts \X Linkers)
      /\ Linkers \subseteq Linkers OBVIOUS
<1>. QED BY <1>1, <1>2, <1>3, <1>4, <1>5, <1>6, RowWritten

\* Letting go of an authorisation writes no row.
LEMMA GrantsMove ==
  ASSUME BoardsInv, orders' \in 0..MaxOrders, grants' \subseteq Boards!Servers \X Linkers,
         letting' \in [Boards!Servers -> [step : {"idle", "read", "forget"}, by : Linkers \cup {NULL}]],
         UNCHANGED <<login, owned, said, link, wraps, asking, pass, moves, meant, crossed>>
  PROVE  BoardsInv'
<1>1. Boards!TypeOK /\ BoardKinds /\ \A m \in Linkers : OpenedAs(asking[m])
  BY DEF BoardsInv, BoardKinds, LinksAreOpened
<1>2. BoardKinds' BY <1>1 DEF BoardKinds, Boards!TypeOK
<1>. QED BY <1>1, <1>2, OnlyLinksUnderWay

LEMMA LetGoOf ==
  ASSUME BoardsInv, NEW s \in Boards!Servers, Boards!Unlink(s) \/ Boards!LetGo(s) PROVE BoardsInv'
<1>. USE BoardSorts
<1>0. /\ Boards!TypeOK /\ link[s].board.by \in Linkers \cup {NULL}
      /\ letting \in [Boards!Servers -> [step : {"idle", "read", "forget"}, by : Linkers \cup {NULL}]]
  BY DEF BoardsInv, BoardKinds, Boards!TypeOK
<1>1. CASE Boards!Unlink(s)
  <2>1. orders' \in 0..MaxOrders /\ grants' \subseteq Boards!Servers \X Linkers
    BY <1>0, <1>1 DEF Boards!Unlink, Boards!Orders, Boards!TypeOK
  <2>2. letting' \in [Boards!Servers -> [step : {"idle", "read", "forget"}, by : Linkers \cup {NULL}]]
    BY <1>0, <1>1 DEF Boards!Unlink
  <2>. QED BY <1>1, <2>1, <2>2, GrantsMove DEF Boards!Unlink, Boards!hubVars, Boards!memory
<1>2. CASE Boards!LetGo(s)
  <2>1. orders' \in 0..MaxOrders /\ grants' \subseteq Boards!Servers \X Linkers
    BY <1>0, <1>2 DEF Boards!LetGo, Boards!TypeOK
  <2>2. letting' \in [Boards!Servers -> [step : {"idle", "read", "forget"}, by : Linkers \cup {NULL}]]
    BY <1>0, <1>2 DEF Boards!LetGo, Boards!Settled
  <2>. QED BY <1>2, <2>1, <2>2, GrantsMove DEF Boards!LetGo, Boards!hubVars, Boards!memory
<1>. QED BY <1>1, <1>2

LEMMA Withdrawn == ASSUME BoardsInv, NEW m \in Linkers, Boards!Withdraw(m) PROVE BoardsInv'
<1>0. /\ Boards!TypeOK
      /\ letting \in [Boards!Servers -> [step : {"idle", "read", "forget"}, by : Linkers \cup {NULL}]]
  BY DEF BoardsInv, BoardKinds
<1>1. orders' \in 0..MaxOrders /\ grants' \subseteq Boards!Servers \X Linkers
  BY <1>0, BoardSorts DEF Boards!Withdraw, Boards!Orders, Boards!TypeOK
<1>2. letting' = letting BY DEF Boards!Withdraw
<1>. QED BY <1>0, <1>1, <1>2, GrantsMove DEF Boards!Withdraw, Boards!hubVars, Boards!memory

\* Whoever a board is read as is the linker of the one server that mirrors it.
LEMMA OnlyOneMirrors ==
  ASSUME NEW owner, Boards!ReadAs(owner) # {}, NEW s, NEW t,
         s \in Boards!Mirroring(owner), t \in Boards!Mirroring(owner)
  PROVE  s = t
<1>1. Boards!Cardinality(Boards!Mirroring(owner)) = 1 BY DEF Boards!ReadAs
<1>2. Cardinality(Boards!Mirroring(owner)) = 1 BY <1>1 DEF Boards!Cardinality, Cardinality
<1>3. IsFiniteSet(Boards!Servers)
  <2>1. IsFiniteSet({Home}) BY FS_Singleton
  <2>2. IsFiniteSet({Home} \cup {Away}) BY <2>1, FS_AddElement
  <2>3. {Home} \cup {Away} = Boards!Servers BY DEF Boards!Servers
  <2>. QED BY <2>2, <2>3
<1>4. IsFiniteSet(Boards!Mirroring(owner))
  <2>1. Boards!Mirroring(owner) \subseteq Boards!Servers BY DEF Boards!Mirroring
  <2>. QED BY <1>3, <2>1, FS_Subset
<1>5. \E x : Boards!Mirroring(owner) = {x} BY <1>2, <1>4, FS_Singleton
<1>. QED BY <1>5

\* The poller's pass changes what is kept for its own server.
LEMMA OnePassMoves ==
  ASSUME BoardsInv, NEW s \in Boards!Servers, NEW q \in PassUnderWay, ListedAs(q, meant[s]),
         NEW w \in Boards!Accounts \cup {NULL}, NEW c \in BOOLEAN,
         w # NULL /\ ~c => meant[s] # NULL /\ w = meant[s][1],
         pass' = [pass EXCEPT ![s] = q], wraps' = [wraps EXCEPT ![s] = w],
         crossed' = [crossed EXCEPT ![s] = c],
         NoneSharedInv',
         UNCHANGED <<login, owned, said, link, grants, asking, letting, moves, orders, meant>>
  PROVE  BoardsInv'
<1>. USE DEF BoardsInv
<1>0. /\ Boards!TypeOK /\ BoardKinds /\ pass \in [Boards!Servers -> PassUnderWay]
      /\ wraps \in [Boards!Servers -> Boards!Accounts \cup {NULL}] /\ crossed \in [Boards!Servers -> BOOLEAN]
  BY DEF BoardKinds, Boards!TypeOK
<1>1. pass' \in [Boards!Servers -> PassUnderWay] BY <1>0
<1>2. \A t \in Boards!Servers : pass'[t].step \in {"idle", "listed", "read"} BY <1>1 DEF PassUnderWay
<1>3. /\ wraps' \in [Boards!Servers -> Boards!Accounts \cup {NULL}] /\ crossed' \in [Boards!Servers -> BOOLEAN]
      /\ \A t \in Boards!Servers \ {s} : wraps'[t] = wraps[t] /\ crossed'[t] = crossed[t] /\ pass'[t] = pass[t]
      /\ wraps'[s] = w /\ crossed'[s] = c /\ pass'[s] = q BY <1>0
<1>4. BoardKinds' BY <1>0, <1>1, <1>2, <1>3 DEF BoardKinds, Boards!TypeOK
<1>5. LoginsStay' /\ RowsAreNamed' /\ LinkedAsMeant' /\ LinksAreOpened'
  BY DEF LoginsStay, NamesOf, RowsAreNamed, LinkedAsMeant, ReadsIt, LinksAreOpened, OpenedAs, Boards!BoardOwner
<1>6. \A a : NamesOf(a)' = NamesOf(a) BY DEF NamesOf
<1>7. PassesAreListed'
  <2>1. \A t \in Boards!Servers : ListedAs(pass'[t], meant[t]) BY <1>3 DEF PassesAreListed
  <2>. QED BY <1>6, <2>1 DEF PassesAreListed, ListedAs
<1>8. PairedAsMeant' BY <1>3 DEF PairedAsMeant
<1>. QED BY <1>4, <1>5, <1>7, <1>8

\* While nobody has another name, what is meant by a row is what it reads under.
LEMMA OwnNamesOnly ==
  ASSUME BoardsInv, login[Us] = Us
  PROVE  /\ \A a \in Boards!Accounts : NamesOf(a) = {a} /\ login[a] = a
         /\ \A s \in Boards!Servers : meant[s] # NULL =>
              meant[s][1] \in Boards!Accounts /\ s \in Boards!Mirroring(meant[s][1])
<1>1. \A a \in Boards!Accounts : NamesOf(a) = {a} /\ login[a] = a
  BY DEF BoardsInv, LoginsStay, NamesOf, Boards!Accounts
<1>2. ASSUME NEW s \in Boards!Servers, meant[s] # NULL
      PROVE  meant[s][1] \in Boards!Accounts /\ s \in Boards!Mirroring(meant[s][1])
  <2>1. meant[s][1] \in Boards!Accounts BY <1>2 DEF BoardsInv, BoardKinds, Boards!TypeOK
  <2>2. link[s].board.on /\ ReadsIt(link[s], meant[s])
    BY <1>2 DEF BoardsInv, LinkedAsMeant, BoardKinds, Boards!TypeOK
  <2>3. Boards!ReadUnder(s) = meant[s][1] BY <1>1, <2>1, <2>2 DEF ReadsIt, Boards!ReadUnder
  <2>. QED BY <2>1, <2>2, <2>3 DEF Boards!Mirroring
<1>. QED BY <1>1, <1>2

\* What is kept for a server, or about to be, is of the board that is meant by its row.
LEMMA OnlyTheMeant ==
  ASSUME BoardsInv, login[Us] = Us, NEW t \in Boards!Servers, ~crossed[t]
  PROVE  CardsOf(t) \subseteq (IF meant[t] = NULL THEN {} ELSE {meant[t][1]})
<1>1. wraps[t] # NULL => meant[t] # NULL /\ wraps[t] = meant[t][1] BY DEF BoardsInv, PairedAsMeant
<1>2. ASSUME pass[t].step = "read", ~pass[t].crossed PROVE meant[t] # NULL /\ pass[t].board = meant[t][1]
  <2>1. /\ meant[t] # NULL /\ pass[t].owner \in NamesOf(meant[t][1])
        /\ pass[t].board \in Boards!Accounts /\ pass[t].owner \in NamesOf(pass[t].board)
    BY <1>2 DEF BoardsInv, PassesAreListed, ListedAs
  <2>2. meant[t][1] \in Boards!Accounts BY <2>1, OwnNamesOnly
  <2>. QED BY <2>1, <2>2, OneAccountEach DEF BoardsInv
<1>. QED BY <1>1, <1>2 DEF CardsOf

\* A board that is listed is read as the one server's that mirrors it.
LEMMA BoardsRead ==
  ASSUME BoardsInv, NEW s \in Boards!Servers, Boards!ListBoards(s) \/ Boards!ReadBoard(s) PROVE BoardsInv'
<1>. USE BoardSorts
<1>. DEFINE p == pass[s]
<1>0. /\ Boards!TypeOK /\ p \in PassUnderWay /\ ListedAs(p, meant[s]) /\ pass \in [Boards!Servers -> PassUnderWay]
      /\ wraps \in [Boards!Servers -> Boards!Accounts \cup {NULL}] /\ crossed \in [Boards!Servers -> BOOLEAN]
      /\ (wraps[s] # NULL /\ ~crossed[s] => meant[s] # NULL /\ wraps[s] = meant[s][1])
  BY DEF BoardsInv, BoardKinds, Boards!TypeOK, PassesAreListed, PairedAsMeant
<1>1. /\ UNCHANGED <<login, owned, said, link, grants, wraps, asking, letting, moves, orders, meant, crossed>>
      /\ wraps' = [wraps EXCEPT ![s] = wraps[s]] /\ crossed' = [crossed EXCEPT ![s] = crossed[s]]
  BY <1>0 DEF Boards!ListBoards, Boards!ReadBoard, Boards!hubVars, Boards!memory
\* Nothing new is about to be kept.
<1>2. ASSUME NEW q \in PassUnderWay, q.step # "read", pass' = [pass EXCEPT ![s] = q] PROVE NoneSharedInv'
  <2>1. \A t \in Boards!Servers : CardsOf(t)' \subseteq CardsOf(t) BY <1>0, <1>1, <1>2 DEF CardsOf
  <2>. QED BY <1>1, <2>1 DEF BoardsInv, NoneSharedInv, NoneShared, Boards!Servers
<1>3. /\ Boards!NotPolled \in PassUnderWay /\ ListedAs(Boards!NotPolled, meant[s])
      /\ Boards!NotPolled.step = "idle"
  BY DEF Boards!NotPolled, PassUnderWay, ListedAs
<1>4. ASSUME pass' = [pass EXCEPT ![s] = Boards!NotPolled] PROVE BoardsInv'
  <2>1. NoneSharedInv' BY <1>2, <1>3, <1>4
  <2>. QED BY <1>0, <1>1, <1>3, <1>4, <2>1, OnePassMoves
<1>5. ASSUME Boards!ListBoards(s) PROVE BoardsInv'
  <2>. DEFINE q == [Boards!NotPolled EXCEPT !.step = "listed", !.owner = Boards!ReadUnder(s)]
  <2>1. pass' = [pass EXCEPT ![s] = q] /\ link[s].board.on BY <1>5 DEF Boards!ListBoards
  <2>2. meant[s] # NULL /\ Boards!ReadUnder(s) \in NamesOf(meant[s][1])
    BY <2>1 DEF BoardsInv, LinkedAsMeant, ReadsIt, Boards!ReadUnder
  <2>3. Boards!ReadUnder(s) \in Boards!Logins \cup {NULL}
    BY <1>0 DEF Boards!ReadUnder, Boards!BoardOwner, Boards!TypeOK
  <2>4. q \in PassUnderWay /\ q.step = "listed" /\ q.owner = Boards!ReadUnder(s) /\ ~q.crossed
    BY <1>3, <2>3 DEF Boards!NotPolled, PassUnderWay
  <2>. HIDE DEF q
  <2>5. ListedAs(q, meant[s]) BY <2>2, <2>4 DEF ListedAs
  <2>6. NoneSharedInv' BY <1>2, <2>1, <2>4
  <2>7. q \in PassUnderWay /\ crossed[s] \in BOOLEAN /\ wraps[s] \in Boards!Accounts \cup {NULL} BY <1>0, <2>4
  <2>. QED BY <1>0, <1>1, <2>1, <2>5, <2>6, <2>7, OnePassMoves
<1>6. ASSUME NEW a \in Boards!Opens(p.owner), Boards!ReadAs(p.owner) # {}, p.step = "listed",
             pass' = [pass EXCEPT ![s] = [p EXCEPT !.step = "read", !.board = a, !.seen = wraps[s]]]
      PROVE  BoardsInv'
  <2>. DEFINE q == [p EXCEPT !.step = "read", !.board = a, !.seen = wraps[s]]
  <2>1. a \in Boards!Accounts /\ login[a] = p.owner /\ p.owner \in NamesOf(a)
    BY <1>6 DEF Boards!Opens, NamesOf
  <2>2. /\ q \in PassUnderWay /\ q.step = "read" /\ q.owner = p.owner /\ q.crossed = p.crossed
        /\ q.board = a /\ q.seen = wraps[s] /\ pass' = [pass EXCEPT ![s] = q]
    BY <1>0, <1>6, <2>1 DEF PassUnderWay
  <2>. HIDE DEF q
  <2>3. ListedAs(q, meant[s]) BY <1>0, <1>6, <2>1, <2>2 DEF ListedAs
  <2>4. NoneSharedInv'
    <3>. SUFFICES ASSUME login[Us] = Us, ~crossed[Home], ~crossed[Away]
                  PROVE  CardsOf(Home)' \cap CardsOf(Away)' = {}
      BY <1>1 DEF NoneSharedInv, NoneShared
    <3>0. login[Us] = Us /\ ~crossed[Home] /\ ~crossed[Away] BY <1>1
    <3>1. CardsOf(Home) \cap CardsOf(Away) = {} BY <3>0 DEF BoardsInv, NoneSharedInv, NoneShared
    <3>2. \A t \in Boards!Servers \ {s} : CardsOf(t)' = CardsOf(t) BY <1>0, <1>1, <2>2 DEF CardsOf
    <3>3. CardsOf(s)' \subseteq CardsOf(s) \cup (IF p.crossed THEN {} ELSE {a})
      BY <1>0, <1>1, <2>2 DEF CardsOf
    <3>4. ASSUME ~p.crossed, NEW t \in Boards!Servers, t # s PROVE a \notin CardsOf(t)
      <4>1. meant[s] # NULL /\ p.owner \in NamesOf(meant[s][1]) BY <1>0, <1>6, <3>4 DEF ListedAs
      <4>2. \A x \in Boards!Servers : meant[x] # NULL =>
              meant[x][1] \in Boards!Accounts /\ x \in Boards!Mirroring(meant[x][1])
        BY <3>0, OwnNamesOnly
      <4>3. p.owner = a /\ p.owner = meant[s][1] BY <2>1, <3>0, <4>1, <4>2, OwnNamesOnly
      <4>4. s \in Boards!Mirroring(a) BY <4>1, <4>2, <4>3
      <4>5. t \notin Boards!Mirroring(a) BY <1>6, <3>4, <4>3, <4>4, OnlyOneMirrors
      <4>6. meant[t] # NULL => meant[t][1] # a BY <4>2, <4>5
      <4>7. CardsOf(t) \subseteq (IF meant[t] = NULL THEN {} ELSE {meant[t][1]})
        BY <3>0, OnlyTheMeant DEF Boards!Servers
      <4>. QED BY <4>6, <4>7
    <3>. QED BY <3>1, <3>2, <3>3, <3>4 DEF Boards!Servers
  <2>7. q \in PassUnderWay /\ crossed[s] \in BOOLEAN /\ wraps[s] \in Boards!Accounts \cup {NULL} BY <1>0, <2>2
  <2>. QED BY <1>0, <1>1, <2>2, <2>3, <2>4, <2>7, OnePassMoves
<1>. QED BY <1>4, <1>5, <1>6 DEF Boards!ReadBoard

\* What was read is kept, and by a pass nobody crossed it is of the board that is meant.
LEMMA CardsPaired == ASSUME BoardsInv, NEW s \in Boards!Servers, Boards!Pair(s) PROVE BoardsInv'
<1>. USE BoardSorts
<1>. DEFINE p == pass[s]
            written == p.seen # p.board
            w == IF written THEN p.board ELSE wraps[s]
            c == crossed[s] \/ (written /\ p.crossed)
<1>0. /\ Boards!TypeOK /\ p \in PassUnderWay /\ p.step = "read" /\ ListedAs(p, meant[s])
      /\ pass \in [Boards!Servers -> PassUnderWay]
      /\ wraps \in [Boards!Servers -> Boards!Accounts \cup {NULL}] /\ crossed \in [Boards!Servers -> BOOLEAN]
      /\ (wraps[s] # NULL /\ ~crossed[s] => meant[s] # NULL /\ wraps[s] = meant[s][1])
  BY DEF BoardsInv, BoardKinds, Boards!TypeOK, PassesAreListed, PairedAsMeant, Boards!Pair
<1>1. /\ UNCHANGED <<login, owned, said, link, grants, asking, letting, moves, orders, meant>>
      /\ pass' = [pass EXCEPT ![s] = Boards!NotPolled]
      /\ wraps' = IF written THEN [wraps EXCEPT ![s] = p.board] ELSE wraps
      /\ crossed' = [crossed EXCEPT ![s] = c]
  BY <1>0 DEF Boards!Pair, Boards!hubVars
<1>2. wraps' = [wraps EXCEPT ![s] = w] BY <1>0, <1>1
<1>3. /\ Boards!NotPolled \in PassUnderWay /\ ListedAs(Boards!NotPolled, meant[s])
      /\ Boards!NotPolled.step = "idle"
  BY DEF Boards!NotPolled, PassUnderWay, ListedAs
<1>4. c \in BOOLEAN /\ w \in Boards!Accounts \cup {NULL} /\ p.board \in Boards!Accounts
  BY <1>0 DEF PassUnderWay, ListedAs
<1>5. ~p.crossed => meant[s] # NULL /\ p.board = meant[s][1]
  <2>1. ~p.crossed => /\ meant[s] # NULL /\ p.owner \in NamesOf(meant[s][1])
                      /\ meant[s][1] \in Boards!Accounts /\ p.owner \in NamesOf(p.board)
    BY <1>0 DEF ListedAs, Boards!TypeOK
  <2>. QED BY <1>4, <2>1, OneAccountEach DEF BoardsInv
<1>6. w # NULL /\ ~c => meant[s] # NULL /\ w = meant[s][1] BY <1>0, <1>5
<1>7. NoneSharedInv'
  <2>. SUFFICES ASSUME login[Us] = Us, ~crossed'[Home], ~crossed'[Away]
                PROVE  CardsOf(Home)' \cap CardsOf(Away)' = {}
    BY <1>1 DEF NoneSharedInv, NoneShared
  <2>1. ~c /\ ~crossed[Home] /\ ~crossed[Away] BY <1>0, <1>1 DEF Boards!Servers
  <2>2. CardsOf(Home) \cap CardsOf(Away) = {} BY <2>1 DEF BoardsInv, NoneSharedInv, NoneShared
  <2>3. \A t \in Boards!Servers \ {s} : CardsOf(t)' = CardsOf(t) BY <1>0, <1>1, <1>2 DEF CardsOf
  <2>4. CardsOf(s)' \subseteq (IF w = NULL THEN {} ELSE {w}) BY <1>0, <1>1, <1>2, <1>3 DEF CardsOf
  <2>5. CardsOf(s)' \subseteq CardsOf(s)
    <3>1. CASE written BY <1>0, <2>1, <2>4, <3>1 DEF CardsOf
    <3>2. CASE ~written BY <2>4, <3>2 DEF CardsOf
    <3>. QED BY <3>1, <3>2
  <2>. QED BY <2>2, <2>3, <2>5 DEF Boards!Servers
<1>. HIDE DEF p, w, c, written
<1>. QED BY <1>0, <1>1, <1>2, <1>3, <1>4, <1>6, <1>7, OnePassMoves

LEMMA BoardsStep == BoardsInv /\ Boards!Next => BoardsInv'
<1>. SUFFICES ASSUME BoardsInv, Boards!Next PROVE BoardsInv' OBVIOUS
<1>1. CASE Boards!Transfer \/ Boards!RenameAccount BY <1>1, HubMoves
<1>2. CASE Boards!FollowRename BY <1>2, RenamesFollowed
<1>3. ASSUME NEW m \in Linkers,
             Boards!LinkBoard(m) \/ Boards!FollowLink(m) \/ Boards!CheckNobodyElses(m) \/ Boards!Abandon(m)
      PROVE  BoardsInv' BY <1>3, LinksAsked
<1>4. ASSUME NEW m \in Linkers, Boards!CommitLink(m) \/ Boards!Withdraw(m) PROVE BoardsInv'
  BY <1>4, LinksWritten, Withdrawn
<1>5. ASSUME NEW s \in Boards!Servers, Boards!Unlink(s) \/ Boards!CommitUnlink(s) \/ Boards!LetGo(s)
      PROVE  BoardsInv' BY <1>5, LinksUndone, LetGoOf
<1>6. ASSUME NEW s \in Boards!Servers, Boards!ListBoards(s) \/ Boards!ReadBoard(s) \/ Boards!Pair(s)
      PROVE  BoardsInv' BY <1>6, BoardsRead, CardsPaired
<1>. QED BY <1>1, <1>2, <1>3, <1>4, <1>5, <1>6 DEF Boards!Next

----
\* Moved cards.  A status is written under the item's lock and shown
\* before anything else sees to it, so while row and card disagree, and no
\* excuse is noted, somebody is on the way to make them agree.

InHand   == {"again", "storing", "rendering", "locking"}
Halves   == {"rendering", "locking", "card", "noting", "remember"}
Stages   == InHand \cup Halves \cup {"idle", "ended", "listed", "judging", "located", "labels", "waiting"}
RunKinds ==
    [want : Cards!Statuses \cup {NULL}, to : Cards!Columns \cup {NULL},
     status : Cards!Statuses \cup {NULL}, column : Cards!Columns \cup {NULL, Cards!Blank},
     card : BOOLEAN, labels : SUBSET Cards!Statuses, closed : BOOLEAN,
     previous : Cards!Statuses \cup {NULL}, again : BOOLEAN]
PollKinds ==
    [column : Cards!Columns \cup {Cards!Blank}, readable : BOOLEAN,
     status : Cards!Statuses \cup {NULL}, seen : Cards!Columns \cup {NULL, Cards!Blank}]

\* What the type invariant says of everything but the workers.
CardThings ==
    /\ column \in Cards!Columns \cup {Cards!Blank} /\ label \in SUBSET Cards!Statuses
    /\ merged \in BOOLEAN /\ status \in Cards!Statuses
    /\ seen \in Cards!Columns \cup {NULL, Cards!Blank}
    /\ paired \in BOOLEAN /\ news \in BOOLEAN /\ shut \in BOOLEAN /\ apart \in BOOLEAN
    /\ owed \in {"no", "owed", "lost"} /\ events \in 0 .. MaxEvents

CardKinds ==
    /\ Cards!TypeOK
    /\ at \in [Cards!Workers -> Stages] /\ run \in [Cards!Workers -> RunKinds]
    /\ poll \in PollKinds

\* A command asks for a column that says its status; the poller wants what the column it
\* read says; and whoever shows a status or sees to the lock has written that status.
Asked == {"located", "labels", "waiting", "again", "storing", "rendering", "locking"}
RunIs(w) ==
    /\ w # Poller => /\ at[w] \notin {"listed", "judging", "remember"}
                     /\ run[w].to # NULL => ReadsAs[run[w].to] = run[w].want
    /\ w = Poller => /\ at[w] \notin {"ended", "card", "noting"} /\ run[w].to = NULL
                     /\ run[w].want \in {NULL, Cards!Wanted}
    /\ at[w] \in Asked \cup {"card", "noting"} => run[w].want # NULL
    /\ at[w] \in {"rendering", "locking"} => status = run[w].want
    /\ at[w] = "rendering" => run[w].previous # NULL
    /\ at[w] = "noting" => run[w].to # NULL
RunsAre == \A w \in Cards!Workers : RunIs(w)

\* What the poller writes down only, it has a reason to.
NotedOnly == at[Poller] = "remember" /\ run[Poller].want = NULL
JudgedSo ==
    /\ at[Poller] \in Asked =>
          MaySetStatus /\ poll.column # poll.seen /\ poll.column \in Cards!Columns
    /\ NotedOnly => /\ poll.seen = NULL \/ Cards!Wanted = NULL \/ ~MaySetStatus
                    /\ apart \/ Cards!Wanted \in {NULL, poll.status}

Tells(s) == seen = column /\ column \in Cards!Columns /\ ReadsAs[column] \notin {NULL, s}
Half(w)  == at[w] \in Halves

AgreeInv ==
    ~apart =>
        /\ Tells(status) => \E w \in Cards!Workers : Half(w)
        /\ \A w \in Cards!Workers :
              at[w] = "rendering" /\ Tells(run[w].previous) /\ ReadsAs[column] # run[w].want =>
                  \E v \in Cards!Workers \ {w} : Half(v)

\* The row a poll compared its first look with has not moved, or somebody is moving it.
FirstLookHolds ==
    at[Poller] = "judging" \/ NotedOnly =>
        (poll.seen = NULL /\ seen = NULL /\ ~apart =>
            \/ poll.status = status
            \/ \E w \in Commands : \/ at[w] \in {"locking", "card", "noting"}
                                   \/ at[w] = "rendering" /\ poll.status = run[w].previous)

LockSays(s) == (s = Done => shut) /\ (shut # (s = Done \/ merged) => news)
LockInv ==
    /\ owed = "no" =>
          /\ \A w \in Cards!Workers : at[w] = "rendering" => LockSays(run[w].previous)
          /\ (\A w \in Cards!Workers : at[w] \notin {"rendering", "locking"}) => LockSays(status)
    /\ owed = "owed" =>
          seen # column /\ \A w \in Cards!Workers : at[w] \notin {"card", "noting", "remember"}

CardsInv ==
    /\ CardKinds /\ RunsAre /\ JudgedSo
    /\ AgreeInv /\ FirstLookHolds /\ LockInv

LEMMA CardSorts ==
  /\ Poller \notin Commands /\ Poller \in Cards!Workers /\ Commands \subseteq Cards!Workers
  /\ \A w \in Cards!Workers : w # NULL /\ (w # Poller => w \in Commands)
  /\ Cards!Blank \notin Cards!Columns /\ NULL \notin Cards!Columns /\ Cards!Blank # NULL
  /\ NotReviewed # Done /\ NULL \notin Cards!Statuses /\ NotReviewed \in Cards!Statuses
  /\ ReadsAs \in [Cards!Columns -> Cards!Statuses \cup {NULL}]
  /\ MaySetStatus \in BOOLEAN /\ MaxEvents \in Nat
BY PartsAssumption DEF Cards!CardMovesAssumption, Cards!Workers, Cards!Statuses

LEMMA CardRecords ==
  /\ Cards!Resting \in RunKinds /\ Cards!Unread \in PollKinds
  /\ Cards!Resting.want = NULL /\ Cards!Resting.to = NULL /\ Cards!Resting.previous = NULL
  /\ Cards!Unread.seen = NULL
BY CardSorts DEF Cards!Resting, Cards!Unread, RunKinds, PollKinds

LEMMA CardsInit == Cards!Init => CardsInv
<1>. SUFFICES ASSUME Cards!Init PROVE CardsInv OBVIOUS
<1>. USE CardSorts, CardRecords DEF Cards!Init
<1>2. \A w \in Cards!Workers : at[w] = "idle" /\ run[w] = Cards!Resting OBVIOUS
<1>1. CardKinds
  <2>1. at \in [Cards!Workers -> Stages] /\ run \in [Cards!Workers -> RunKinds] /\ poll \in PollKinds
    BY DEF Stages
  <2>4. events \in 0 .. MaxEvents OBVIOUS
  <2>2. CardThings BY <2>4 DEF CardThings
  <2>3. Cards!TypeOK BY <1>2, <2>2 DEF CardThings, Cards!TypeOK
  <2>. QED BY <2>1, <2>3 DEF CardKinds
<1>3. RunsAre BY <1>2 DEF RunsAre, RunIs, Asked
<1>4. JudgedSo BY <1>2 DEF JudgedSo, NotedOnly, Asked
<1>5. AgreeInv BY <1>2 DEF AgreeInv, Tells
<1>6. FirstLookHolds BY <1>2 DEF FirstLookHolds, NotedOnly
<1>7. LockInv BY <1>2 DEF LockInv, LockSays
<1>. QED BY <1>1, <1>3, <1>4, <1>5, <1>6, <1>7 DEF CardsInv

LEMMA CardsAre == CardsInv => Cards!TypeOK /\ Cards!MovedWhenQuiet
<1>. SUFFICES ASSUME CardsInv PROVE Cards!TypeOK /\ Cards!MovedWhenQuiet OBVIOUS
<1>1. Cards!TypeOK BY DEF CardsInv, CardKinds
<1>2. ASSUME Cards!Quiet
      PROVE  /\ \A w \in Cards!Workers : at[w] \in {"idle", "ended"}
             /\ seen = column /\ ~news BY <1>2, CardSorts DEF Cards!Quiet
<1>3. Cards!AgreesWhenQuiet
  <2>. SUFFICES ASSUME Cards!Quiet, column \in Cards!Columns, ~apart PROVE ReadsAs[column] \in {NULL, status}
    BY <1>1 DEF Cards!AgreesWhenQuiet, Cards!TypeOK
  <2>1. \A w \in Cards!Workers : ~Half(w) BY <1>2 DEF Half, Halves
  <2>. QED BY <1>2, <2>1 DEF CardsInv, AgreeInv, Tells
<1>4. Cards!LockFollows
  <2>. SUFFICES ASSUME Cards!Quiet, owed # "lost" PROVE shut = Cards!Finished BY DEF Cards!LockFollows
  <2>1. owed = "no" BY <1>1, <1>2 DEF CardsInv, LockInv, Cards!TypeOK
  <2>2. LockSays(status) BY <1>2, <2>1 DEF CardsInv, LockInv
  <2>3. shut \in BOOLEAN /\ merged \in BOOLEAN BY <1>1 DEF Cards!TypeOK
  <2>. QED BY <1>2, <2>2, <2>3 DEF LockSays, Cards!Finished
<1>. QED BY <1>1, <1>3, <1>4 DEF Cards!MovedWhenQuiet

----
\* What each part of the invariant asks of a step.

\* One worker moves.
Moves(w, x, r) == at' = [at EXCEPT ![w] = x] /\ run' = [run EXCEPT ![w] = r]

LEMMA WorkerMoves ==
  ASSUME CardsInv, NEW w \in Cards!Workers, NEW x \in Stages, NEW r \in RunKinds, Moves(w, x, r)
  PROVE  /\ at' \in [Cards!Workers -> Stages] /\ run' \in [Cards!Workers -> RunKinds]
         /\ at'[w] = x /\ run'[w] = r
         /\ \A v \in Cards!Workers \ {w} : at'[v] = at[v] /\ run'[v] = run[v]
BY DEF CardsInv, CardKinds, Moves

\* No worker leaves a half done, and none starts to show a status.
LEMMA AgreeKept ==
  ASSUME CardsInv, UNCHANGED <<column, status, seen>>, apart => apart',
         \A v \in Cards!Workers : Half(v) => Half(v)',
         \A v \in Cards!Workers : at'[v] = "rendering" => at[v] = "rendering" /\ run'[v] = run[v]
  PROVE  AgreeInv' BY DEF CardsInv, AgreeInv, Tells

LEMMA FirstLookKept ==
  ASSUME CardsInv, UNCHANGED <<status, seen, poll>>, apart => apart',
         at'[Poller] = "judging" \/ NotedOnly' => at[Poller] = "judging" \/ NotedOnly,
         \A v \in Commands :
            /\ at[v] \in {"locking", "card", "noting"} => at'[v] \in {"locking", "card", "noting"}
            /\ at[v] = "rendering" =>
                  \/ at'[v] \in {"locking", "card"}
                  \/ at'[v] = "rendering" /\ run'[v] = run[v]
  PROVE  FirstLookHolds' BY DEF CardsInv, FirstLookHolds

LEMMA NoLook ==
  ASSUME at'[Poller] # "judging", ~NotedOnly' PROVE FirstLookHolds' BY DEF FirstLookHolds

\* The lock stays as it is said to be while nobody is at it.
LEMMA LockKept ==
  ASSUME CardsInv, UNCHANGED <<column, status, seen, shut, merged, news>>, owed' \in {owed, "lost"},
         \A v \in Cards!Workers : at'[v] = "rendering" => at[v] = "rendering" /\ run'[v] = run[v],
         \A v \in Cards!Workers : at[v] \in {"rendering", "locking"} => at'[v] \in {"rendering", "locking"},
         owed' = "owed" => \A v \in Cards!Workers : at'[v] \notin {"card", "noting", "remember"}
  PROVE  LockInv' BY DEF CardsInv, LockInv, LockSays

\* Everything but the workers has its type, and one worker moved and keeps to the lock.
LEMMA KindsKept ==
  ASSUME CardsInv, NEW w \in Cards!Workers, NEW x \in Stages, NEW r \in RunKinds, Moves(w, x, r),
         CardThings', poll' \in PollKinds,
         IF x \in InHand THEN holder' = w /\ holder \in {w, NULL}
                         ELSE holder' = IF holder = w THEN NULL ELSE holder,
         x \in {"idle", "ended", "listed", "judging"} => r = Cards!Resting
  PROVE  CardKinds'
<1>1. /\ at' \in [Cards!Workers -> Stages] /\ run' \in [Cards!Workers -> RunKinds]
      /\ at'[w] = x /\ run'[w] = r
      /\ \A v \in Cards!Workers \ {w} : at'[v] = at[v] /\ run'[v] = run[v]
  BY WorkerMoves
<1>2. /\ holder \in Cards!Workers \cup {NULL}
      /\ \A v \in Cards!Workers : holder = v <=> at[v] \in InHand
      /\ \A v \in Cards!Workers : at[v] \in {"idle", "ended", "listed", "judging"} => run[v] = Cards!Resting
  BY DEF CardsInv, CardKinds, Cards!TypeOK, InHand
<1>3. holder' \in Cards!Workers \cup {NULL} BY <1>2
<1>4. \A v \in Cards!Workers : holder' = v <=> at'[v] \in InHand BY <1>1, <1>2, CardSorts
<1>5. \A v \in Cards!Workers : at'[v] \in {"idle", "ended", "listed", "judging"} => run'[v] = Cards!Resting
  BY <1>1, <1>2
<1>6. {paired', news', shut', apart'} \subseteq BOOLEAN BY DEF CardThings
<1>7. Cards!TypeOK' BY <1>3, <1>4, <1>5, <1>6 DEF CardThings, Cards!TypeOK, InHand
<1>. QED BY <1>1, <1>7 DEF CardKinds

LEMMA ThingsAre == CardsInv => CardThings
BY DEF CardsInv, CardKinds, Cards!TypeOK, CardThings

\* One at a time has the lock.
LEMMA OneHolds ==
  ASSUME CardsInv, NEW w \in Cards!Workers, NEW v \in Cards!Workers,
         at[w] \in InHand, at[v] \in InHand
  PROVE  v = w BY DEF CardsInv, CardKinds, Cards!TypeOK, InHand

LEMMA RunsKept ==
  ASSUME CardsInv, NEW w \in Cards!Workers, NEW x \in Stages, NEW r \in RunKinds, Moves(w, x, r),
         RunIs(w)', status' = status \/ at[w] \in InHand, poll' = poll \/ w = Poller
  PROVE  RunsAre'
<1>1. /\ at'[w] = x /\ run'[w] = r
      /\ \A v \in Cards!Workers \ {w} : at'[v] = at[v] /\ run'[v] = run[v]
  BY WorkerMoves
<1>2. ASSUME NEW v \in Cards!Workers, v # w PROVE RunIs(v)'
  <2>1. RunIs(v) BY DEF CardsInv, RunsAre
  <2>2. at[v] \in {"rendering", "locking"} => status' = status BY <1>2, OneHolds DEF InHand
  <2>3. v = Poller => Cards!Wanted' = Cards!Wanted BY <1>2 DEF Cards!Wanted
  <2>. QED BY <1>1, <1>2, <2>1, <2>2, <2>3 DEF RunIs
<1>. QED BY <1>2 DEF RunsAre

LEMMA JudgedKept ==
  ASSUME CardsInv, UNCHANGED poll, apart => apart',
         at'[Poller] \in Asked => at[Poller] \in Asked, NotedOnly' => NotedOnly
  PROVE  JudgedSo' BY DEF CardsInv, JudgedSo, Cards!Wanted

\* The conjuncts of the invariant, one at a time.
LEMMA CardsParts ==
  ASSUME CardsInv
  PROVE  /\ CardThings /\ RunsAre /\ JudgedSo /\ AgreeInv /\ FirstLookHolds /\ LockInv
         /\ at \in [Cards!Workers -> Stages] /\ run \in [Cards!Workers -> RunKinds]
         /\ poll \in PollKinds /\ holder \in Cards!Workers \cup {NULL}
         /\ \A v \in Cards!Workers : holder = v <=> at[v] \in InHand
         /\ \A v \in Cards!Workers :
               at[v] \in {"idle", "ended", "listed", "judging"} => run[v] = Cards!Resting
BY ThingsAre DEF CardsInv, CardKinds, Cards!TypeOK, InHand

----
\* Runs that end, or are written off, before the row is touched.

\* Where a run that ends goes.
EndsAt(w) == IF w = Poller THEN "idle" ELSE "ended"

LEMMA LeavesWell ==
  ASSUME CardsInv, NEW w \in Cards!Workers, Cards!Leaves(w), apart => apart',
         holder' = IF holder = w THEN NULL ELSE holder, CardThings',
         status' = status \/ at[w] \in InHand
  PROVE  /\ Moves(w, EndsAt(w), Cards!Resting) /\ EndsAt(w) \in Stages
         /\ CardKinds' /\ RunsAre' /\ JudgedSo'
<1>1. Moves(w, EndsAt(w), Cards!Resting) /\ EndsAt(w) \in Stages /\ EndsAt(w) \notin InHand
  BY DEF Cards!Leaves, Cards!Goes, Moves, EndsAt, Stages, InHand
<1>2. poll' = (IF w = Poller THEN Cards!Unread ELSE poll) /\ poll' \in PollKinds
  BY CardsParts, CardRecords DEF Cards!Leaves
<1>3. /\ at'[w] = EndsAt(w) /\ run'[w] = Cards!Resting
      /\ \A v \in Cards!Workers \ {w} : at'[v] = at[v] /\ run'[v] = run[v]
  BY <1>1, WorkerMoves, CardRecords
<1>4. CardKinds' BY <1>1, <1>2, KindsKept, CardRecords
<1>5. RunIs(w)' BY <1>3, CardRecords DEF RunIs, EndsAt, Asked
<1>6. RunsAre' BY <1>1, <1>2, <1>5, RunsKept, CardRecords
<1>7. JudgedSo'
  <2>1. CASE w = Poller BY <2>1, <1>3 DEF JudgedSo, NotedOnly, EndsAt, Asked
  <2>2. CASE w # Poller BY <2>2, <1>2, <1>3, JudgedKept, CardSorts DEF NotedOnly
  <2>. QED BY <2>1, <2>2
<1>. QED BY <1>1, <1>4, <1>6, <1>7

\* The row and the lock were not touched yet.
LEMMA LeavesEarly ==
  ASSUME CardsInv, NEW w \in Cards!Workers, Cards!Leaves(w), apart => apart',
         holder' = IF holder = w THEN NULL ELSE holder, CardThings',
         at[w] \in {"located", "labels", "waiting", "again"},
         UNCHANGED <<column, status, seen, shut, merged, news>>, owed' \in {owed, "lost"}
  PROVE  CardsInv'
<1>1. Moves(w, EndsAt(w), Cards!Resting) /\ CardKinds' /\ RunsAre' /\ JudgedSo' BY LeavesWell
<1>2. /\ at'[w] = EndsAt(w)
      /\ \A v \in Cards!Workers \ {w} : at'[v] = at[v] /\ run'[v] = run[v]
  BY LeavesWell, WorkerMoves, CardRecords
<1>3. EndsAt(w) \in {"idle", "ended"} BY DEF EndsAt
<1>4. AgreeInv'
  <2>1. \A v \in Cards!Workers : Half(v) => Half(v)' BY <1>2 DEF Half, Halves
  <2>. QED BY <1>2, <1>3, <2>1, AgreeKept
<1>5. FirstLookHolds'
  <2>1. CASE w = Poller BY <2>1, <1>2, NoLook DEF EndsAt, NotedOnly
  <2>2. CASE w # Poller
    <3>1. poll' = poll /\ at'[Poller] = at[Poller] /\ run'[Poller] = run[Poller]
      BY <2>2, <1>2, CardSorts DEF Cards!Leaves
    <3>2. NotedOnly' => NotedOnly BY <3>1 DEF NotedOnly
    <3>3. \A v \in Commands :
              /\ at[v] \in {"locking", "card", "noting"} => at'[v] \in {"locking", "card", "noting"}
              /\ at[v] = "rendering" => at'[v] = "rendering" /\ run'[v] = run[v]
      BY <1>2, CardSorts
    <3>. QED BY <3>1, <3>2, <3>3, FirstLookKept
  <2>. QED BY <2>1, <2>2
<1>6. LockInv'
  <2>1. \A v \in Cards!Workers : at'[v] = "rendering" => at[v] = "rendering" /\ run'[v] = run[v] BY <1>2, <1>3
  <2>2. \A v \in Cards!Workers : at[v] \in {"rendering", "locking"} => at'[v] \in {"rendering", "locking"}
    BY <1>2
  <2>3. owed' = "owed" => \A v \in Cards!Workers : at[v] \notin {"card", "noting", "remember"}
    BY CardsParts DEF LockInv
  <2>4. owed' = "owed" => \A v \in Cards!Workers : at'[v] \notin {"card", "noting", "remember"}
    BY <1>2, <1>3, <2>3
  <2>. QED BY <2>1, <2>2, <2>4, LockKept
<1>. QED BY <1>1, <1>4, <1>5, <1>6 DEF CardsInv

\* The poller gives a move up for good, and notes its column.
LEMMA WrittenOff ==
  ASSUME CardsInv, at[Poller] \in Asked, Cards!Goes(Poller, "remember"), UNCHANGED <<run, poll>>,
         apart', owed' # "owed", CardThings',
         holder' = IF holder = Poller THEN NULL ELSE holder,
         status' = status \/ at[Poller] \in InHand,
         LockInv'
  PROVE  CardsInv'
<1>1. Moves(Poller, "remember", run[Poller]) /\ run[Poller] \in RunKinds /\ "remember" \in Stages
  BY CardsParts, CardSorts DEF Cards!Goes, Moves, Stages, Halves
<1>2. /\ at'[Poller] = "remember" /\ run'[Poller] = run[Poller]
      /\ \A v \in Cards!Workers \ {Poller} : at'[v] = at[v] /\ run'[v] = run[v]
  BY <1>1, WorkerMoves, CardSorts
<1>3. CardKinds' BY <1>1, KindsKept, CardSorts, CardsParts DEF InHand
<1>4. RunIs(Poller) /\ run[Poller].want # NULL BY CardsParts, CardSorts DEF RunsAre, RunIs
<1>5. RunIs(Poller)' BY <1>2, <1>4 DEF RunIs, Asked, Cards!Wanted
<1>6. RunsAre' BY <1>1, <1>5, RunsKept, CardSorts
<1>7. ~NotedOnly' BY <1>2, <1>4 DEF NotedOnly
<1>8. JudgedSo' BY <1>2, <1>7 DEF JudgedSo, Asked
<1>9. AgreeInv' /\ FirstLookHolds' BY DEF AgreeInv, FirstLookHolds
<1>. QED BY <1>3, <1>6, <1>8, <1>9 DEF CardsInv

----
\* Steps that touch neither row nor thread.

\* On its way to the row, a run goes from one early place to the next.
LEMMA EarlyStep ==
  ASSUME CardsInv, NEW w \in Cards!Workers, NEW x \in Stages, NEW r \in RunKinds, Moves(w, x, r),
         at[w] \notin Halves, x \notin Halves, w = Poller => x # "judging",
         IF x \in InHand THEN holder' = w /\ holder \in {w, NULL}
                         ELSE holder' = IF holder = w THEN NULL ELSE holder,
         x \in {"idle", "ended", "listed", "judging"} => r = Cards!Resting,
         CardThings', RunIs(w)', UNCHANGED <<column, merged, status, seen, news, shut, apart, owed>>,
         IF w = Poller THEN poll' \in PollKinds /\ JudgedSo' ELSE poll' = poll
  PROVE  CardsInv'
<1>1. /\ at'[w] = x /\ run'[w] = r
      /\ \A v \in Cards!Workers \ {w} : at'[v] = at[v] /\ run'[v] = run[v]
  BY WorkerMoves
<1>2. poll' \in PollKinds /\ (poll' = poll \/ w = Poller) BY CardsParts
<1>3. CardKinds' BY <1>2, KindsKept
<1>4. RunsAre' BY <1>2, RunsKept
<1>5. w # Poller => at'[Poller] = at[Poller] /\ run'[Poller] = run[Poller] /\ poll' = poll BY <1>1, CardSorts
<1>6. w # Poller => (NotedOnly' => NotedOnly) BY <1>5 DEF NotedOnly
<1>7. JudgedSo' BY <1>5, <1>6, JudgedKept
<1>8. AgreeInv'
  <2>1. \A v \in Cards!Workers : Half(v) => Half(v)' BY <1>1 DEF Half, Halves
  <2>2. \A v \in Cards!Workers : at'[v] = "rendering" => at[v] = "rendering" /\ run'[v] = run[v]
    BY <1>1 DEF Halves
  <2>. QED BY <2>1, <2>2, AgreeKept
<1>9. FirstLookHolds'
  <2>1. CASE w = Poller BY <2>1, <1>1, NoLook DEF NotedOnly, Halves
  <2>2. CASE w # Poller
    <3>1. \A v \in Commands :
              /\ at[v] \in {"locking", "card", "noting"} => at'[v] \in {"locking", "card", "noting"}
              /\ at[v] = "rendering" => at'[v] = "rendering" /\ run'[v] = run[v]
      BY <1>1, CardSorts DEF Halves
    <3>. QED BY <2>2, <1>5, <1>6, <3>1, FirstLookKept
  <2>. QED BY <2>1, <2>2
<1>10. LockInv'
  <2>1. \A v \in Cards!Workers : at'[v] = "rendering" => at[v] = "rendering" /\ run'[v] = run[v]
    BY <1>1 DEF Halves
  <2>2. \A v \in Cards!Workers : at[v] \in {"rendering", "locking"} => at'[v] \in {"rendering", "locking"}
    BY <1>1 DEF Halves
  <2>3. owed' = "owed" => \A v \in Cards!Workers : at[v] \notin {"card", "noting", "remember"}
    BY CardsParts DEF LockInv
  <2>4. owed' = "owed" => \A v \in Cards!Workers : at'[v] \notin {"card", "noting", "remember"}
    BY <1>1, <2>3 DEF Halves
  <2>. QED BY <2>1, <2>2, <2>4, LockKept
<1>. QED BY <1>3, <1>4, <1>7, <1>8, <1>9, <1>10 DEF CardsInv

\* The poller's judgement stands while its run is under way.
LEMMA StillJudged ==
  ASSUME CardsInv, at[Poller] \in Asked, at'[Poller] # "remember", UNCHANGED poll, apart => apart'
  PROVE  JudgedSo' BY JudgedKept DEF NotedOnly

LEMMA AskKeeps ==
  ASSUME CardsInv, NEW w \in Cards!Workers, Cards!Ask(w) PROVE CardsInv'
<1>. USE DEF Cards!Ask
<1>1. PICK s \in Cards!Statuses, c \in Cards!Columns \cup {NULL} :
         /\ Cards!Located(w, s, c)
         /\ c # NULL => ReadsAs[c] = s BY DEF Cards!ColumnsFor
<1>. DEFINE r == [Cards!Resting EXCEPT !.want = s, !.to = c, !.status = status, !.column = seen,
                                       !.card = paired]
<1>2. /\ r \in RunKinds /\ r.want = s /\ r.to = c /\ r.want # NULL
  BY CardsParts, CardSorts DEF CardThings, RunKinds, Cards!Resting
<1>3. Moves(w, "located", r) /\ "located" \in Stages BY <1>1 DEF Moves, Cards!Located, Cards!Goes, Stages
<1>. HIDE DEF r
<1>4. at'[w] = "located" /\ run'[w] = r BY <1>2, <1>3, WorkerMoves
<1>5. RunIs(w)' BY <1>1, <1>2, <1>4, CardSorts DEF RunIs, Asked
<1>6. CardThings' BY CardsParts DEF CardThings, Cards!github, Cards!row, Cards!history
<1>7. holder # w BY CardsParts DEF InHand
<1>8. w # Poller BY CardSorts
<1>. QED
  BY <1>2, <1>3, <1>5, <1>6, <1>7, <1>8, EarlyStep DEF Halves, InHand, Cards!github, Cards!row, Cards!history

LEMMA FetchedKeeps ==
  ASSUME CardsInv, NEW w \in Cards!Workers, at[w] = "located", Cards!Fetched(w), events' \in 0 .. MaxEvents,
         UNCHANGED <<column, label, merged, status, seen, paired, news, shut, holder, poll, apart, owed>>
  PROVE  CardsInv'
<1>1. PICK again \in BOOLEAN :
         /\ run' = [run EXCEPT ![w].labels = label, ![w].closed = merged, ![w].again = again,
                               ![w].status = NULL, ![w].column = NULL]
         /\ Cards!Goes(w, IF again THEN "waiting" ELSE "labels")
  BY DEF Cards!Fetched
<1>. DEFINE r == [run[w] EXCEPT !.labels = label, !.closed = merged, !.again = again,
                                !.status = NULL, !.column = NULL]
            x == IF again THEN "waiting" ELSE "labels"
<1>2. r \in RunKinds /\ r.want = run[w].want /\ r.to = run[w].to
  <2>1. run[w] \in RunKinds /\ label \in SUBSET Cards!Statuses /\ merged \in BOOLEAN
    BY CardsParts DEF CardThings
  <2>. QED BY <2>1 DEF RunKinds
<1>3. Moves(w, x, r) /\ x \in Stages BY <1>1, CardsParts DEF Moves, Cards!Goes, Stages
<1>4. x \in {"waiting", "labels"} OBVIOUS
<1>. HIDE DEF r, x
<1>5. at'[w] = x /\ run'[w] = r BY <1>2, <1>3, WorkerMoves
<1>6. RunIs(w) BY CardsParts DEF RunsAre
<1>7. RunIs(w)' BY <1>2, <1>4, <1>5, <1>6 DEF RunIs, Asked, Cards!Wanted
<1>8. CardThings' BY CardsParts DEF CardThings
<1>9. holder # w BY CardsParts DEF InHand
<1>10. w = Poller => JudgedSo' /\ poll' \in PollKinds BY <1>4, <1>5, StillJudged, CardsParts DEF Asked
<1>. QED BY <1>2, <1>3, <1>4, <1>7, <1>8, <1>9, <1>10, EarlyStep DEF Halves, InHand

LEMMA FetchKeeps ==
  ASSUME CardsInv, NEW w \in Cards!Workers, Cards!Fetch(w) \/ Cards!FetchUnjudged(w) PROVE CardsInv'
<1>1. events' \in 0 .. MaxEvents
  <2>1. events \in 0 .. MaxEvents BY CardsParts DEF CardThings
  <2>. QED BY <2>1, CardSorts DEF Cards!Fetch, Cards!FetchUnjudged, Cards!Happens
<1>. QED BY <1>1, FetchedKeeps DEF Cards!Fetch, Cards!FetchUnjudged, Cards!github, Cards!row, Cards!history

LEMMA ApplyKeeps ==
  ASSUME CardsInv, NEW w \in Cards!Workers, Cards!Apply(w) PROVE CardsInv'
<1>. DEFINE r == [run[w] EXCEPT !.labels = {}]
<1>1. r \in RunKinds /\ r.want = run[w].want /\ r.to = run[w].to BY CardsParts DEF RunKinds
<1>2. Moves(w, "waiting", r) /\ "waiting" \in Stages BY CardsParts DEF Moves, Cards!Apply, Cards!Goes, Stages
<1>. HIDE DEF r
<1>3. at'[w] = "waiting" /\ run'[w] = r BY <1>1, <1>2, WorkerMoves
<1>4. RunIs(w) /\ run[w].want \in Cards!Statuses
  BY CardsParts DEF RunsAre, RunIs, Cards!Apply, Asked, RunKinds
<1>5. RunIs(w)' BY <1>1, <1>3, <1>4 DEF RunIs, Asked, Cards!Wanted, Cards!Apply
<1>6. label' \subseteq Cards!Statuses BY <1>4, CardsParts DEF CardThings, Cards!Apply, Cards!Added
<1>7. CardThings' BY <1>6, CardsParts DEF CardThings, Cards!Apply, Cards!row, Cards!history
<1>8. holder # w BY CardsParts DEF InHand, Cards!Apply
<1>9. w = Poller => JudgedSo' /\ poll' \in PollKinds
  BY <1>3, StillJudged, CardsParts DEF Asked, Cards!Apply, Cards!history
<1>. QED
  BY <1>1, <1>2, <1>5, <1>7, <1>8, <1>9, EarlyStep DEF Halves, InHand, Cards!Apply, Cards!row, Cards!history

LEMMA TakeLockKeeps ==
  ASSUME CardsInv, NEW w \in Cards!Workers, Cards!TakeLock(w) PROVE CardsInv'
<1>. DEFINE x == IF run[w].again THEN "again" ELSE "storing"
<1>1. Moves(w, x, run[w]) /\ x \in Stages /\ run[w] \in RunKinds /\ x \in {"again", "storing"}
  BY CardsParts DEF Moves, Cards!TakeLock, Cards!Goes, Stages, InHand
<1>. HIDE DEF x
<1>3. at'[w] = x /\ run'[w] = run[w] BY <1>1, WorkerMoves
<1>4. RunIs(w) BY CardsParts DEF RunsAre
<1>5. RunIs(w)' BY <1>1, <1>3, <1>4 DEF RunIs, Asked, Cards!Wanted, Cards!TakeLock
<1>7. CardThings' BY CardsParts DEF CardThings, Cards!TakeLock, Cards!github, Cards!row, Cards!history
<1>9. w = Poller => JudgedSo' /\ poll' \in PollKinds
  BY <1>1, <1>3, StillJudged, CardsParts DEF Asked, Cards!TakeLock, Cards!history
<1>. QED BY <1>1, <1>5, <1>7, <1>9, EarlyStep
  DEF Halves, InHand, Cards!TakeLock, Cards!github, Cards!row, Cards!history

LEMMA EndsEarly ==
  ASSUME CardsInv, NEW w \in Cards!Workers, Cards!Refuse(w) \/ Cards!Busy(w) \/ Cards!ItemMoved(w)
  PROVE  CardsInv'
<1>1. events' \in 0 .. MaxEvents
  <2>1. events \in 0 .. MaxEvents BY CardsParts DEF CardThings
  <2>. QED BY <2>1, CardSorts DEF Cards!Refuse, Cards!Busy, Cards!ItemMoved, Cards!Happens
<1>2. CardThings' BY <1>1, CardsParts
  DEF CardThings, Cards!Refuse, Cards!Busy, Cards!ItemMoved, Cards!github, Cards!row, Cards!history
<1>3. holder' = IF holder = w THEN NULL ELSE holder
  BY CardsParts DEF InHand, Cards!Refuse, Cards!Busy, Cards!ItemMoved
<1>. QED BY <1>2, <1>3, LeavesEarly
  DEF Cards!Refuse, Cards!Busy, Cards!ItemMoved, Cards!github, Cards!row, Cards!history

----
\* Steps under the lock.

\* The holder goes on, and the row stays as it is.
LEMMA GoesOn ==
  ASSUME CardsInv, NEW w \in Cards!Workers, NEW x, x \in {"locking", "card", "remember"},
         at[w] \in {"again", "rendering", "locking"}, Cards!Goes(w, x), UNCHANGED <<run, poll>>,
         w = Poller => x # "card", w # Poller => x # "remember",
         holder' = IF x = "locking" THEN holder ELSE NULL, CardThings',
         UNCHANGED <<column, status, seen>>, apart => apart',
         x = "locking" => status = run[w].want, LockInv'
  PROVE  CardsInv'
<1>1. Moves(w, x, run[w]) /\ x \in Stages /\ run[w] \in RunKinds
  BY CardsParts DEF Moves, Cards!Goes, Stages, InHand, Halves
<1>2. /\ at'[w] = x /\ run'[w] = run[w]
      /\ \A v \in Cards!Workers \ {w} : at'[v] = at[v] /\ run'[v] = run[v]
  BY <1>1, WorkerMoves
<1>3. holder = w BY CardsParts DEF InHand
<1>4. CardKinds' BY <1>1, <1>3, KindsKept, CardsParts DEF InHand
<1>5. RunIs(w) /\ run[w].want # NULL BY CardsParts DEF RunsAre, RunIs, Asked
<1>6. RunIs(w)' BY <1>2, <1>5 DEF RunIs, Asked, Cards!Wanted
<1>7. RunsAre' BY <1>1, <1>6, RunsKept
<1>8. NotedOnly' => NotedOnly BY <1>2, <1>5, CardSorts DEF NotedOnly
<1>9. JudgedSo'
  <2>1. at'[Poller] \in Asked => at[Poller] \in Asked BY <1>2, CardSorts DEF Asked
  <2>. QED BY <1>8, <2>1, JudgedKept
<1>10. AgreeInv'
  <2>1. \A v \in Cards!Workers : Half(v) => Half(v)' BY <1>2 DEF Half, Halves
  <2>2. \A v \in Cards!Workers : at'[v] = "rendering" => at[v] = "rendering" /\ run'[v] = run[v] BY <1>2
  <2>. QED BY <2>1, <2>2, AgreeKept
<1>11. FirstLookHolds'
  <2>1. at'[Poller] = "judging" => at[Poller] = "judging" BY <1>2, CardSorts
  <2>2. \A v \in Commands :
              /\ at[v] \in {"locking", "card", "noting"} => at'[v] \in {"locking", "card", "noting"}
              /\ at[v] = "rendering" =>
                    \/ at'[v] \in {"locking", "card"}
                    \/ at'[v] = "rendering" /\ run'[v] = run[v]
    BY <1>2, CardSorts
  <2>. QED BY <1>8, <2>1, <2>2, FirstLookKept
<1>. QED BY <1>4, <1>7, <1>9, <1>10, <1>11 DEF CardsInv

LEMMA StoreKeeps ==
  ASSUME CardsInv, NEW w \in Cards!Workers, Cards!Store(w) PROVE CardsInv'
<1>. DEFINE r == [run[w] EXCEPT !.previous = status]
<1>1. status \in Cards!Statuses /\ run[w] \in RunKinds /\ at[w] = "storing"
  BY CardsParts DEF CardThings, Cards!Store
<1>2. r \in RunKinds /\ r.want = run[w].want /\ r.to = run[w].to /\ r.previous = status BY <1>1 DEF RunKinds
<1>3. Moves(w, "rendering", r) /\ "rendering" \in Stages
  BY CardsParts DEF Moves, Cards!Store, Cards!Goes, Stages, InHand
<1>. HIDE DEF r
<1>4. /\ at'[w] = "rendering" /\ run'[w] = r
      /\ \A v \in Cards!Workers \ {w} : at'[v] = at[v] /\ run'[v] = run[v]
  BY <1>2, <1>3, WorkerMoves
<1>5. RunIs(w) /\ run[w].want \in Cards!Statuses BY <1>1, CardsParts DEF RunsAre, RunIs, Asked, RunKinds
<1>6. holder = w /\ \A v \in Cards!Workers \ {w} : at[v] \notin InHand
  BY <1>1, CardsParts, OneHolds DEF InHand
<1>7. CardThings' BY <1>5, CardsParts DEF CardThings, Cards!Store, Cards!github, Cards!history
<1>8. CardKinds' BY <1>2, <1>3, <1>6, <1>7, KindsKept, CardsParts DEF InHand, Cards!Store
<1>9. RunIs(w)' BY <1>1, <1>2, <1>4, <1>5, CardSorts DEF RunIs, Asked, Cards!Wanted, Cards!Store
<1>10. RunsAre' BY <1>1, <1>2, <1>3, <1>9, RunsKept DEF Cards!Store, InHand
<1>11. NotedOnly' => NotedOnly BY <1>4, CardSorts DEF NotedOnly
<1>12. JudgedSo'
  <2>1. at'[Poller] \in Asked => at[Poller] \in Asked BY <1>1, <1>4, CardSorts DEF Asked
  <2>. QED BY <1>11, <2>1, JudgedKept DEF Cards!Store, Cards!history
<1>13. AgreeInv'
  <2>1. Half(w)' /\ ~Half(w) BY <1>1, <1>4 DEF Half, Halves
  <2>2. ASSUME NEW v \in Cards!Workers, at'[v] = "rendering", ~apart',
               Tells(run[v].previous)', ReadsAs[column]' # run'[v].want
        PROVE  \E u \in Cards!Workers \ {v} : Half(u)'
    <3>1. v = w BY <1>4, <1>6, <2>2 DEF InHand
    <3>2. ~apart /\ Tells(status)
      BY <1>2, <1>4, <2>2, <3>1 DEF Tells, Cards!Store, Cards!github, Cards!history
    <3>3. PICK u \in Cards!Workers : Half(u) BY <3>2, CardsParts DEF AgreeInv
    <3>. QED BY <1>4, <2>1, <3>1, <3>3 DEF Half
  <2>. QED BY <2>1, <2>2 DEF AgreeInv
<1>14. FirstLookHolds'
  <2>. SUFFICES ASSUME at'[Poller] = "judging" \/ NotedOnly', poll.seen = NULL, seen = NULL, ~apart
                PROVE  \E v \in Commands : \/ at'[v] \in {"locking", "card", "noting"}
                                           \/ at'[v] = "rendering" /\ poll.status = run'[v].previous
    BY DEF FirstLookHolds, Cards!Store, Cards!history
  <2>1. w \in Commands BY <1>4, CardSorts DEF NotedOnly
  <2>2. at[Poller] = "judging" \/ NotedOnly BY <1>4, <1>11, <2>1, CardSorts
  <2>3. \/ poll.status = status
        \/ \E v \in Commands : \/ at[v] \in {"locking", "card", "noting"}
                               \/ at[v] = "rendering" /\ poll.status = run[v].previous
    BY <2>2, CardsParts DEF FirstLookHolds
  <2>4. CASE poll.status = status BY <1>2, <1>4, <2>1, <2>4
  <2>5. ASSUME NEW v \in Commands,
               \/ at[v] \in {"locking", "card", "noting"}
               \/ at[v] = "rendering" /\ poll.status = run[v].previous
        PROVE  at'[v] \in {"locking", "card", "noting"}
    BY <1>1, <1>4, <1>6, <2>5, CardSorts DEF InHand
  <2>. QED BY <2>3, <2>4, <2>5
<1>15. LockInv'
  <2>1. ASSUME owed = "no" PROVE LockSays(status)
    <3>1. \A v \in Cards!Workers : at[v] \notin {"rendering", "locking"} BY <1>1, <1>6 DEF InHand
    <3>. QED BY <2>1, <3>1, CardsParts DEF LockInv
  <2>2. ASSUME NEW v \in Cards!Workers, at'[v] = "rendering" PROVE run'[v].previous = status
    BY <1>2, <1>4, <1>6, <2>2 DEF InHand
  <2>3. owed = "owed" =>
            seen # column /\ \A v \in Cards!Workers : at'[v] \notin {"card", "noting", "remember"}
    BY <1>4, CardsParts DEF LockInv
  <2>4. ASSUME owed = "no", NEW v \in Cards!Workers, at'[v] = "rendering" PROVE LockSays(run[v].previous)'
    BY <2>1, <2>2, <2>4 DEF LockSays, Cards!Store, Cards!github
  <2>. QED BY <1>4, <2>3, <2>4 DEF LockInv, Cards!Store, Cards!github, Cards!history
<1>. QED BY <1>8, <1>10, <1>12, <1>13, <1>14, <1>15 DEF CardsInv

LEMMA RenderKeeps ==
  ASSUME CardsInv, NEW w \in Cards!Workers, Cards!Render(w) PROVE CardsInv'
<1>1. at[w] = "rendering" /\ RunIs(w) BY CardsParts DEF RunsAre, Cards!Render
<1>2. \A v \in Cards!Workers \ {w} : at[v] \notin InHand BY <1>1, OneHolds DEF InHand
<1>3. at' = [at EXCEPT ![w] = Cards!Onward(w)] /\ owed' \in {owed, "lost"} /\ owed' # "owed"
  BY CardsParts DEF Cards!Render, Cards!Goes, Cards!Forgets, CardThings
<1>4. CardThings' BY <1>3, CardsParts DEF CardThings, Cards!Render, Cards!github, Cards!row
<1>5. LockInv'
  <2>. SUFFICES ASSUME owed' = "no"
                PROVE  /\ \A v \in Cards!Workers : at'[v] = "rendering" => LockSays(run[v].previous)'
                       /\ LockSays(status)' BY <1>3 DEF LockInv
  <2>1. LockSays(run[w].previous) BY <1>1, <1>3, CardsParts DEF LockInv
  <2>2. \A v \in Cards!Workers : at'[v] # "rendering" BY <1>2, <1>3, CardsParts DEF Cards!Onward, InHand
  <2>3. LockSays(status) BY <1>1, <2>1 DEF LockSays, RunIs, Cards!Render, Cards!Touched
  <2>. QED BY <2>2, <2>3 DEF LockSays, Cards!Render, Cards!row, Cards!github
<1>. QED BY <1>1, <1>4, <1>5, GoesOn DEF Cards!Render, Cards!row, Cards!github, Cards!Onward

LEMMA ToTheLock ==
  ASSUME CardsInv, NEW w \in Cards!Workers, Cards!RenderThenLock(w) \/ Cards!Repeat(w) PROVE CardsInv'
<1>. USE DEF Cards!RenderThenLock, Cards!Repeat, Cards!github, Cards!row, Cards!history
<1>1. at[w] \in {"rendering", "again"} /\ RunIs(w) /\ status = run[w].want
  BY CardsParts DEF RunsAre, RunIs, Cards!StillThere
<1>2. at' = [at EXCEPT ![w] = "locking"] /\ owed' = owed BY DEF Cards!Goes
<1>3. /\ at'[w] = "locking"
      /\ \A v \in Cards!Workers \ {w} : at'[v] = at[v] BY <1>2, CardsParts
<1>4. CardThings' BY CardsParts DEF CardThings
<1>5. LockInv'
  <2>1. owed = "owed" => \A v \in Cards!Workers : at'[v] \notin {"card", "noting", "remember"}
    BY <1>3, CardsParts DEF LockInv
  <2>2. \A v \in Cards!Workers : at'[v] = "rendering" => at[v] = "rendering" /\ run'[v] = run[v] BY <1>3
  <2>3. \A v \in Cards!Workers : at[v] \in {"rendering", "locking"} => at'[v] \in {"rendering", "locking"}
    BY <1>3
  <2>. QED BY <2>1, <2>2, <2>3, LockKept
<1>. QED BY <1>1, <1>4, <1>5, GoesOn

LEMMA SetLockKeeps ==
  ASSUME CardsInv, NEW w \in Cards!Workers, Cards!SetLock(w) PROVE CardsInv'
<1>. USE DEF Cards!SetLock, Cards!github, Cards!row
<1>1. at[w] = "locking" /\ RunIs(w) /\ status = run[w].want BY CardsParts DEF RunsAre, RunIs
<1>2. \A v \in Cards!Workers \ {w} : at[v] \notin InHand BY <1>1, OneHolds DEF InHand
<1>3. at' = [at EXCEPT ![w] = Cards!Onward(w)] /\ owed' \in {"no", "lost"} BY DEF Cards!Goes
<1>4. shut' \in BOOLEAN
  <2>1. run[w] \in RunKinds BY CardsParts
  <2>. QED BY <2>1 DEF RunKinds, Cards!WantsLock
<1>5. CardThings' BY <1>3, <1>4, CardsParts DEF CardThings
<1>6. LockInv'
  <2>. SUFFICES ASSUME owed' = "no"
                PROVE  /\ \A v \in Cards!Workers : at'[v] = "rendering" => LockSays(run[v].previous)'
                       /\ LockSays(status)' BY <1>3 DEF LockInv
  <2>1. \A v \in Cards!Workers : at'[v] # "rendering" BY <1>1, <1>2, <1>3, CardsParts DEF Cards!Onward, InHand
  <2>2. shut' = (run[w].want = Done \/ merged) OBVIOUS
  <2>. QED BY <1>1, <2>1, <2>2 DEF LockSays
<1>. QED BY <1>1, <1>5, <1>6, GoesOn DEF Cards!Onward

LEMMA LockDeniedKeeps ==
  ASSUME CardsInv, NEW w \in Cards!Workers, Cards!LockDenied(w) PROVE CardsInv'
<1>. USE DEF Cards!LockDenied, Cards!github, Cards!row
<1>1. events' \in 0 .. MaxEvents
  <2>1. events \in 0 .. MaxEvents BY CardsParts DEF CardThings
  <2>. QED BY <2>1, CardSorts DEF Cards!Happens
<1>2. CardThings' BY <1>1, CardsParts DEF CardThings
<1>3. LockInv' BY DEF LockInv
<1>. QED BY <1>2, <1>3, GoesOn DEF Cards!Onward

LEMMA EventsKept == CardsInv /\ Cards!Happens => events' \in 0 .. MaxEvents
<1>. SUFFICES ASSUME CardsInv, Cards!Happens PROVE events' \in 0 .. MaxEvents OBVIOUS
<1>1. events \in 0 .. MaxEvents BY CardsParts DEF CardThings
<1>. QED BY <1>1, CardSorts DEF Cards!Happens

LEMMA LockLaterKeeps ==
  ASSUME CardsInv, NEW w \in Cards!Workers, Cards!LockLater(w) PROVE CardsInv'
<1>. USE DEF Cards!LockLater, Cards!github, Cards!row
<1>1. at[w] = "locking" /\ holder = w BY CardsParts DEF InHand
<1>2. Cards!Overtaken(w) \in BOOLEAN BY DEF Cards!Overtaken
<1>3. CardThings' BY <1>2, EventsKept, CardsParts DEF CardThings
<1>4. CASE w # Poller
  <2>1. LockInv' BY <1>4 DEF LockInv
  <2>. QED BY <1>1, <1>3, <1>4, <2>1, GoesOn
<1>5. CASE w = Poller
  <2>1. Moves(w, EndsAt(w), Cards!Resting) /\ CardKinds' /\ RunsAre' /\ JudgedSo'
    BY <1>1, <1>3, <1>5, LeavesWell
  <2>2. /\ at'[w] = "idle" /\ \A v \in Cards!Workers \ {w} : at'[v] = at[v] /\ run'[v] = run[v]
    BY <1>5, <2>1, LeavesWell, WorkerMoves, CardRecords DEF EndsAt, Stages
  <2>3. poll.column # poll.seen /\ poll.column \in Cards!Columns BY <1>1, <1>5, CardsParts DEF JudgedSo, Asked
  <2>4. ASSUME ~Cards!Overtaken(w) PROVE seen # column /\ \A c \in Commands : at[c] \in {"idle", "ended"}
    BY <1>5, <2>3, <2>4 DEF Cards!Overtaken
  <2>5. AgreeInv' BY <2>4 DEF AgreeInv, Tells
  <2>6. FirstLookHolds' BY <1>5, <2>2, NoLook DEF NotedOnly
  <2>7. LockInv'
    <3>. SUFFICES ASSUME owed' = "owed"
                  PROVE  seen # column /\ \A v \in Cards!Workers : at'[v] \notin {"card", "noting", "remember"}
      BY DEF LockInv
    <3>1. ~Cards!Overtaken(w) OBVIOUS
    <3>2. \A v \in Cards!Workers \ {w} : at[v] \in {"idle", "ended"} BY <1>5, <2>4, <3>1, CardSorts
    <3>. QED BY <2>2, <2>4, <3>1, <3>2
  <2>. QED BY <2>1, <2>5, <2>6, <2>7 DEF CardsInv
<1>. QED BY <1>4, <1>5

----
\* The card, and what is remembered of it.

LEMMA MoveCardKeeps ==
  ASSUME CardsInv, NEW w \in Cards!Workers, Cards!MoveCard(w) PROVE CardsInv'
<1>. USE DEF Cards!MoveCard, Cards!row, Cards!history
<1>1. at[w] = "card" /\ run[w].to \in Cards!Columns /\ RunIs(w) /\ w # Poller
  BY CardsParts DEF RunsAre, RunIs, RunKinds, Cards!HasCard
<1>2. Moves(w, "noting", run[w]) /\ "noting" \in Stages /\ run[w] \in RunKinds
  BY CardsParts DEF Moves, Cards!Goes, Stages, Halves
<1>3. /\ at'[w] = "noting" /\ run'[w] = run[w]
      /\ \A v \in Cards!Workers \ {w} : at'[v] = at[v] /\ run'[v] = run[v]
  BY <1>2, WorkerMoves
<1>4. CardThings' BY <1>1, CardsParts DEF CardThings
<1>5. CardKinds' BY <1>1, <1>2, <1>4, KindsKept, CardsParts DEF InHand
<1>6. RunIs(w)' BY <1>1, <1>3, CardSorts DEF RunIs, Asked
<1>7. RunsAre' BY <1>2, <1>6, RunsKept
<1>8. NotedOnly' => NotedOnly BY <1>1, <1>3, CardSorts DEF NotedOnly
<1>9. JudgedSo' BY <1>1, <1>3, <1>8, JudgedKept, CardSorts
<1>10. AgreeInv'
  <2>1. Half(w)' BY <1>3 DEF Half, Halves
  <2>2. \A v \in Cards!Workers : at'[v] = "rendering" => v # w BY <1>3
  <2>. QED BY <2>1, <2>2 DEF AgreeInv
<1>11. FirstLookHolds'
  <2>1. \A v \in Commands :
              /\ at[v] \in {"locking", "card", "noting"} => at'[v] \in {"locking", "card", "noting"}
              /\ at[v] = "rendering" => at'[v] = "rendering" /\ run'[v] = run[v]
    BY <1>1, <1>3, CardSorts
  <2>. QED BY <1>1, <1>3, <1>8, <2>1, FirstLookKept, CardSorts
<1>12. LockInv'
  <2>1. owed # "owed" BY <1>1, CardsParts DEF LockInv
  <2>2. \A v \in Cards!Workers : at'[v] \in {"rendering", "locking"} <=> at[v] \in {"rendering", "locking"}
    BY <1>1, <1>3
  <2>3. \A v \in Cards!Workers : at'[v] = "rendering" => at[v] = "rendering" /\ run'[v] = run[v] BY <1>3
  <2>. QED BY <2>1, <2>2, <2>3, CardsParts DEF LockInv, LockSays
<1>. QED BY <1>5, <1>7, <1>9, <1>10, <1>11, <1>12 DEF CardsInv

\* The lock is nobody's business when a run that had let go of it ends.
LEMMA LockUntouched ==
  ASSUME CardsInv, NEW w \in Cards!Workers, at[w] \in {"card", "noting", "remember"},
         at'[w] \in {"idle", "ended"},
         \A v \in Cards!Workers \ {w} : at'[v] = at[v] /\ run'[v] = run[v],
         UNCHANGED <<status, shut, merged, news>>, owed' \in {owed, "lost"}
  PROVE  LockInv'
<1>1. owed # "owed" BY CardsParts DEF LockInv
<1>2. \A v \in Cards!Workers : at'[v] \in {"rendering", "locking"} <=> at[v] \in {"rendering", "locking"}
  OBVIOUS
<1>3. \A v \in Cards!Workers : at'[v] = "rendering" => at[v] = "rendering" /\ run'[v] = run[v] OBVIOUS
<1>. QED BY <1>1, <1>2, <1>3, CardsParts DEF LockInv, LockSays

LEMMA NoCardKeeps ==
  ASSUME CardsInv, NEW w \in Cards!Workers, Cards!NoCard(w) \/ Cards!CardFails(w) PROVE CardsInv'
<1>. USE DEF Cards!NoCard, Cards!CardFails, Cards!github, Cards!row
<1>1. CardThings' BY EventsKept, CardsParts DEF CardThings
<1>2. Moves(w, EndsAt(w), Cards!Resting) /\ CardKinds' /\ RunsAre' /\ JudgedSo'
  BY <1>1, LeavesWell, CardsParts DEF InHand
<1>3. /\ at'[w] \in {"idle", "ended"}
      /\ \A v \in Cards!Workers \ {w} : at'[v] = at[v] /\ run'[v] = run[v]
  BY <1>2, WorkerMoves, CardRecords DEF EndsAt, Stages
<1>4. AgreeInv' /\ FirstLookHolds' BY DEF AgreeInv, FirstLookHolds
<1>5. LockInv' BY <1>3, LockUntouched
<1>. QED BY <1>2, <1>4, <1>5 DEF CardsInv

LEMMA NoteKeeps ==
  ASSUME CardsInv, NEW w \in Cards!Workers, Cards!Note(w) PROVE CardsInv'
<1>. USE DEF Cards!Note, Cards!github
<1>1. at[w] = "noting" /\ run[w].to \in Cards!Columns /\ RunIs(w)
  <2>1. run[w] \in RunKinds /\ RunIs(w) BY CardsParts DEF RunsAre
  <2>. QED BY <2>1 DEF RunIs, RunKinds
<1>2. w # Poller /\ ReadsAs[run[w].to] = run[w].want BY <1>1, CardSorts DEF RunIs
<1>3. owed' \in {owed, "lost"} BY DEF Cards!Forgets
<1>4. CardThings' BY <1>1, <1>3, CardsParts DEF CardThings
<1>5. Moves(w, EndsAt(w), Cards!Resting) /\ CardKinds' /\ RunsAre' /\ JudgedSo'
  BY <1>1, <1>4, LeavesWell, CardsParts DEF InHand
<1>6. /\ at'[w] \in {"idle", "ended"}
      /\ \A v \in Cards!Workers \ {w} : at'[v] = at[v] /\ run'[v] = run[v]
  BY <1>5, WorkerMoves, CardRecords DEF EndsAt, Stages
<1>7. AgreeInv'
  <2>. SUFFICES ASSUME ~apart'
                PROVE  /\ ~Tells(status)'
                       /\ \A v \in Cards!Workers : at'[v] = "rendering" => run'[v].want = status'
    BY <1>1, <1>2 DEF AgreeInv, Tells
  <2>1. status = run[w].want OBVIOUS
  <2>2. ~Tells(status)' BY <1>1, <1>2, <2>1 DEF Tells
  <2>3. \A v \in Cards!Workers : at'[v] = "rendering" => run'[v].want = status'
    BY <1>6, CardsParts DEF RunsAre, RunIs
  <2>. QED BY <2>2, <2>3
<1>8. FirstLookHolds' BY <1>1, CardSorts DEF FirstLookHolds
<1>9. LockInv' BY <1>1, <1>3, <1>6, LockUntouched
<1>. QED BY <1>5, <1>7, <1>8, <1>9 DEF CardsInv

LEMMA RememberKeeps == CardsInv /\ Cards!Remember => CardsInv'
<1>. SUFFICES ASSUME CardsInv, Cards!Remember PROVE CardsInv' OBVIOUS
<1>. USE DEF Cards!Remember, Cards!github
<1>1. at[Poller] = "remember" /\ Poller \in Cards!Workers BY CardSorts
<1>2. apart' \in BOOLEAN /\ (apart => apart') BY CardsParts DEF CardThings, Cards!Overtaken, Cards!LeftApart
<1>3. seen' \in Cards!Columns \cup {NULL, Cards!Blank} BY CardsParts DEF CardThings, PollKinds
<1>4. CardThings' BY <1>2, <1>3, CardsParts DEF CardThings
<1>5. Moves(Poller, EndsAt(Poller), Cards!Resting) /\ CardKinds' /\ RunsAre' /\ JudgedSo'
  BY <1>1, <1>2, <1>4, LeavesWell, CardsParts DEF InHand
<1>6. /\ at'[Poller] = "idle"
      /\ \A v \in Cards!Workers \ {Poller} : at'[v] = at[v] /\ run'[v] = run[v]
  BY <1>1, <1>5, WorkerMoves, CardRecords DEF EndsAt, Stages
<1>7. AgreeInv'
  <2>. SUFFICES ASSUME ~apart'
                PROVE  /\ ~Tells(status)'
                       /\ \A v \in Cards!Workers : at'[v] # "rendering"
    BY DEF AgreeInv
  <2>1. /\ seen = poll.seen /\ ~(seen = column /\ column # poll.column)
        /\ \A c \in Commands : at[c] \in {"idle", "ended"}
        /\ run[Poller].want \in {NULL, status} /\ ~Cards!LeftApart /\ ~apart
    BY DEF Cards!Overtaken
  <2>2. \A v \in Cards!Workers : at'[v] # "rendering" BY <1>6, <2>1, CardSorts
  <2>3. ASSUME Tells(status)' PROVE FALSE
    <3>1. seen' = column /\ column \in Cards!Columns /\ ReadsAs[column] \notin {NULL, status}
      BY <2>3 DEF Tells
    <3>2. ~Cards!Disbelieved BY <2>1, <3>1, CardSorts DEF Cards!Disbelieved
    <3>3. column = poll.column /\ Cards!Wanted = ReadsAs[column] BY <3>1, <3>2 DEF Cards!Wanted
    <3>4. RunIs(Poller) BY <1>1, CardsParts DEF RunsAre
    <3>5. run[Poller].want = NULL BY <2>1, <3>1, <3>3, <3>4 DEF RunIs
    <3>6. NotedOnly BY <1>1, <3>5 DEF NotedOnly
    <3>7. poll.seen = NULL /\ Cards!Wanted \in {NULL, poll.status}
      BY <2>1, <3>1, <3>3, <3>6, CardsParts DEF JudgedSo, Cards!LeftApart
    <3>8. poll.status = status BY <2>1, <3>6, <3>7, CardsParts DEF FirstLookHolds
    <3>. QED BY <3>1, <3>3, <3>7, <3>8
  <2>. QED BY <2>2, <2>3
<1>8. FirstLookHolds' BY <1>6, NoLook DEF NotedOnly
<1>9. LockInv' BY <1>1, <1>6, LockUntouched
<1>. QED BY <1>5, <1>7, <1>8, <1>9 DEF CardsInv

----
\* Failures, and deaths.

LEMMA EarlyFailures ==
  ASSUME CardsInv, NEW w \in Cards!Workers, Cards!FetchFails(w) \/ Cards!ApplyFails(w) PROVE CardsInv'
<1>. USE DEF Cards!github, Cards!row
<1>1. PICK final \in BOOLEAN : Cards!GivesUp(w, final) /\ Cards!Excused(w, final, FALSE)
  BY DEF Cards!FetchFails, Cards!ApplyFails
<1>2. /\ at[w] \in {"located", "labels"} /\ Cards!Happens
      /\ UNCHANGED <<column, merged, status, seen, paired, news, shut, holder>>
      /\ label' \in SUBSET Cards!Statuses
  BY CardsParts DEF CardThings, Cards!FetchFails, Cards!ApplyFails
<1>3. holder # w BY <1>2, CardsParts DEF InHand
<1>4. apart' \in BOOLEAN /\ (apart => apart') /\ owed' \in {owed, "lost"}
  BY <1>1, CardsParts DEF CardThings, Cards!Excused, Cards!Forgets
<1>5. CardThings' BY <1>2, <1>4, EventsKept, CardsParts DEF CardThings
<1>6. CASE ~(w = Poller /\ final) BY <1>1, <1>2, <1>3, <1>4, <1>5, <1>6, LeavesEarly DEF Cards!GivesUp
<1>7. CASE w = Poller /\ final
  <2>1. apart' /\ owed' # "owed" BY <1>1, <1>7 DEF Cards!Excused, Cards!Forgets
  <2>2. Cards!Goes(Poller, "remember") /\ UNCHANGED <<run, poll>> BY <1>1, <1>7 DEF Cards!GivesUp
  <2>3. /\ at'[w] = "remember" /\ \A v \in Cards!Workers \ {w} : at'[v] = at[v]
    BY <1>7, <2>2, CardsParts DEF Cards!Goes
  <2>4. LockInv'
    <3>1. \A v \in Cards!Workers : at'[v] = "rendering" => at[v] = "rendering" /\ run'[v] = run[v]
      BY <2>2, <2>3
    <3>2. \A v \in Cards!Workers : at[v] \in {"rendering", "locking"} => at'[v] \in {"rendering", "locking"}
      BY <1>2, <2>3
    <3>. QED BY <1>2, <1>4, <2>1, <3>1, <3>2, LockKept
  <2>. QED BY <1>2, <1>3, <1>5, <1>7, <2>1, <2>2, <2>4, WrittenOff DEF Asked
<1>. QED BY <1>6, <1>7

LEMMA RenderFailsKeeps ==
  ASSUME CardsInv, NEW w \in Cards!Workers, Cards!RenderFails(w) PROVE CardsInv'
<1>. USE DEF Cards!github
<1>1. PICK final \in BOOLEAN :
         Cards!GivesUp(w, final) /\ Cards!Excused(w, final, Cards!Overtaken(w) \/ Cards!Compared(w))
  BY DEF Cards!RenderFails
<1>2. /\ at[w] = "rendering" /\ Cards!Happens
      /\ UNCHANGED <<column, label, merged, seen, paired, news, shut>>
      /\ holder' = NULL /\ status' = Cards!GivenBack(w) BY DEF Cards!RenderFails
<1>3. RunIs(w) /\ run[w] \in RunKinds BY CardsParts DEF RunsAre
<1>4. status = run[w].want /\ run[w].want # NULL /\ run[w].previous \in Cards!Statuses
  BY <1>2, <1>3 DEF RunIs, RunKinds, Asked
<1>5. status' = run[w].previous BY <1>2, <1>4 DEF Cards!GivenBack
<1>6. holder = w /\ \A v \in Cards!Workers \ {w} : at[v] \notin InHand
  BY <1>2, CardsParts, OneHolds DEF InHand
<1>7. /\ apart' \in BOOLEAN /\ (apart => apart') /\ owed' \in {owed, "lost"}
      /\ ~apart' => ~apart /\ ~Cards!Overtaken(w) /\ ~Cards!Compared(w)
  BY <1>1, CardsParts DEF CardThings, Cards!Excused, Cards!Forgets
<1>8. CardThings' BY <1>2, <1>4, <1>5, <1>7, EventsKept, CardsParts DEF CardThings
<1>9. /\ at'[w] \in {"idle", "ended", "remember"}
      /\ \A v \in Cards!Workers \ {w} : at'[v] = at[v] /\ run'[v] = run[v]
  BY <1>1, CardsParts DEF Cards!GivesUp, Cards!Leaves, Cards!Goes
<1>10. \A v \in Cards!Workers : at'[v] \notin {"rendering", "locking"} BY <1>6, <1>9 DEF InHand
<1>11. LockInv'
  <2>1. owed = "no" => LockSays(run[w].previous) BY <1>2, CardsParts DEF LockInv
  <2>2. owed' = "no" => LockSays(status)' BY <1>2, <1>5, <1>7, <2>1 DEF LockSays
  <2>3. ASSUME owed' = "owed"
        PROVE  seen' # column' /\ \A v \in Cards!Workers : at'[v] \notin {"card", "noting", "remember"}
    <3>1. owed = "owed" BY <1>7, <2>3
    <3>2. at'[w] # "remember" BY <1>1, <2>3, CardsParts
      DEF Cards!GivesUp, Cards!Leaves, Cards!Goes, Cards!Excused, Cards!Forgets
    <3>. QED BY <1>2, <1>9, <3>1, <3>2, CardsParts DEF LockInv
  <2>. QED BY <1>10, <2>2, <2>3 DEF LockInv
<1>12. CASE w = Poller /\ final
  <2>1. apart' /\ owed' # "owed" BY <1>1, <1>12 DEF Cards!Excused, Cards!Forgets
  <2>2. Cards!Goes(Poller, "remember") /\ UNCHANGED <<run, poll>> BY <1>1, <1>12 DEF Cards!GivesUp
  <2>3. at[Poller] \in Asked \cap InHand BY <1>2, <1>12 DEF Asked, InHand
  <2>. QED BY <1>2, <1>6, <1>8, <1>11, <1>12, <2>1, <2>2, <2>3, WrittenOff
<1>13. CASE ~(w = Poller /\ final)
  <2>1. Cards!Leaves(w) BY <1>1, <1>13 DEF Cards!GivesUp
  <2>2. CardKinds' /\ RunsAre' /\ JudgedSo' BY <1>2, <1>6, <1>7, <1>8, <2>1, LeavesWell DEF InHand
  <2>3. at'[w] \in {"idle", "ended"} /\ poll' = (IF w = Poller THEN Cards!Unread ELSE poll)
    BY <2>1, CardsParts DEF Cards!Leaves, Cards!Goes
  <2>4. AgreeInv'
    <3>. SUFFICES ASSUME ~apart', Tells(status)' PROVE \E v \in Cards!Workers : Half(v)' BY <1>10 DEF AgreeInv
    <3>1. Tells(run[w].previous) /\ ReadsAs[column] # run[w].want
      BY <1>2, <1>5, <1>7 DEF Tells, Cards!Compared
    <3>2. PICK v \in Cards!Workers \ {w} : Half(v) BY <1>2, <1>7, <3>1, CardsParts DEF AgreeInv
    <3>. QED BY <1>9, <3>2 DEF Half
  <2>5. FirstLookHolds'
    <3>1. CASE w = Poller BY <2>3, <3>1, NoLook DEF NotedOnly
    <3>2. CASE w # Poller
      <4>1. poll' = poll /\ at'[Poller] = at[Poller] /\ run'[Poller] = run[Poller] /\ w \in Commands
        BY <1>9, <2>3, <3>2, CardSorts
      <4>. SUFFICES ASSUME at[Poller] = "judging" \/ NotedOnly, poll.seen = NULL, seen = NULL, ~apart'
                    PROVE  \/ poll.status = status'
                           \/ \E v \in Commands : at'[v] \in {"locking", "card", "noting"}
        BY <1>2, <4>1 DEF FirstLookHolds, NotedOnly
      <4>2. \/ poll.status = status
            \/ \E v \in Commands : \/ at[v] \in {"locking", "card", "noting"}
                                   \/ at[v] = "rendering" /\ poll.status = run[v].previous
        BY <1>7, CardsParts DEF FirstLookHolds
      <4>3. poll.status # status BY <1>4, <1>7 DEF Cards!Compared
      <4>4. PICK v \in Commands : \/ at[v] \in {"locking", "card", "noting"}
                                  \/ at[v] = "rendering" /\ poll.status = run[v].previous
        BY <4>2, <4>3
      <4>5. CASE v = w BY <1>2, <1>5, <4>4, <4>5
      <4>6. CASE v # w BY <1>6, <1>9, <4>4, <4>6, CardSorts DEF InHand
      <4>. QED BY <4>5, <4>6
    <3>. QED BY <3>1, <3>2
  <2>. QED BY <1>11, <2>2, <2>4, <2>5 DEF CardsInv
<1>. QED BY <1>12, <1>13

LEMMA DieKeeps == CardsInv /\ Cards!Die => CardsInv'
<1>. SUFFICES ASSUME CardsInv, Cards!Die PROVE CardsInv' OBVIOUS
<1>. USE DEF Cards!Die, Cards!github, Cards!row
<1>1. /\ at' \in [Cards!Workers -> Stages] /\ run' \in [Cards!Workers -> RunKinds]
      /\ \A v \in Cards!Workers : at'[v] \in {"idle", "ended"} /\ run'[v] = Cards!Resting
      /\ at'[Poller] = "idle" BY CardSorts, CardRecords DEF Stages
<1>2. apart' \in BOOLEAN /\ (apart => apart') /\ owed' \in {owed, "lost"} BY CardsParts DEF CardThings
<1>3. CardThings' BY <1>2, EventsKept, CardsParts DEF CardThings
<1>4. CardKinds'
  <2>1. {paired', news', shut', apart'} \subseteq BOOLEAN BY <1>3 DEF CardThings
  <2>2. Cards!TypeOK' BY <1>1, <1>3, <2>1, CardSorts DEF CardThings, Cards!TypeOK
  <2>. QED BY <1>1, <2>2, CardRecords DEF CardKinds
<1>5. RunsAre' BY <1>1, CardRecords DEF RunsAre, RunIs, Asked
<1>6. JudgedSo' /\ FirstLookHolds' BY <1>1 DEF JudgedSo, FirstLookHolds, NotedOnly, Asked
<1>7. AgreeInv'
  <2>1. ~apart' => \A v \in Cards!Workers : ~Half(v) BY DEF Half, Halves, Cards!Halfway
  <2>2. ~apart' => ~Tells(status) BY <1>2, <2>1, CardsParts DEF AgreeInv
  <2>. QED BY <1>1, <2>2 DEF AgreeInv, Tells
<1>8. LockInv'
  <2>1. owed' = "no" => LockSays(status) BY CardsParts DEF LockInv
  <2>2. owed' = "owed" => seen # column BY CardsParts DEF LockInv
  <2>. QED BY <1>1, <2>1, <2>2 DEF LockInv, LockSays
<1>. QED BY <1>4, <1>5, <1>6, <1>7, <1>8 DEF CardsInv

----
\* GitHub, and the poll.

\* Nobody moves.
LEMMA NobodyMoves ==
  ASSUME CardsInv, UNCHANGED <<at, run, poll, holder, status>>, CardThings', apart => apart',
         UNCHANGED seen, AgreeInv', LockInv'
  PROVE  CardsInv'
<1>1. CardKinds'
  <2>1. {paired', news', shut', apart'} \subseteq BOOLEAN BY DEF CardThings
  <2>2. Cards!TypeOK' BY <2>1, CardsParts DEF CardThings, Cards!TypeOK, InHand
  <2>. QED BY <2>2, CardsParts DEF CardKinds
<1>2. RunsAre' BY CardsParts DEF RunsAre, RunIs, Cards!Wanted
<1>3. JudgedSo' BY JudgedKept DEF NotedOnly
<1>4. FirstLookHolds' BY FirstLookKept DEF NotedOnly
<1>. QED BY <1>1, <1>2, <1>3, <1>4 DEF CardsInv

LEMMA DragKeeps == CardsInv /\ Cards!Drag => CardsInv'
<1>. SUFFICES ASSUME CardsInv, Cards!Drag PROVE CardsInv' OBVIOUS
<1>. USE DEF Cards!row
<1>1. PICK c \in (Cards!Columns \cup {Cards!Blank}) \ {column} :
         /\ column' = c
         /\ apart' = (apart \/ (c = seen /\ c \in Cards!Columns /\ ReadsAs[c] \notin {NULL, status}))
         /\ Cards!Forgets(c = seen) BY DEF Cards!Drag
<1>2. /\ Cards!Happens
      /\ UNCHANGED <<label, merged, status, seen, paired, news, shut, holder, at, run, poll>>
  BY DEF Cards!Drag
<1>3. apart' \in BOOLEAN /\ (apart => apart') /\ owed' \in {owed, "lost"}
  BY <1>1, CardsParts DEF CardThings, Cards!Forgets
<1>4. CardThings' BY <1>1, <1>2, <1>3, EventsKept, CardsParts DEF CardThings
<1>5. AgreeInv'
  <2>1. ~apart' => ~(c = seen /\ c \in Cards!Columns /\ ReadsAs[c] \notin {NULL, status}) BY <1>1
  <2>2. ~apart' => ~Tells(status)' BY <1>1, <1>2, <2>1 DEF Tells
  <2>3. \A v \in Cards!Workers : at[v] = "rendering" => run[v].want = status BY CardsParts DEF RunsAre, RunIs
  <2>. QED BY <1>1, <1>2, <2>1, <2>2, <2>3 DEF AgreeInv, Tells
<1>6. LockInv'
  <2>1. owed' = "owed" => c # seen BY <1>1 DEF Cards!Forgets
  <2>. QED BY <1>1, <1>2, <1>3, <2>1, CardsParts DEF LockInv, LockSays
<1>. QED BY <1>2, <1>3, <1>4, <1>5, <1>6, NobodyMoves

LEMMA OutsideKeeps == CardsInv /\ (Cards!Flip \/ Cards!Deliver) => CardsInv'
<1>. SUFFICES ASSUME CardsInv, Cards!Flip \/ Cards!Deliver PROVE CardsInv' OBVIOUS
<1>. USE DEF Cards!Flip, Cards!Deliver, Cards!github, Cards!history
<1>1. UNCHANGED <<column, status, seen, paired, holder, at, run, poll, apart, owed>> OBVIOUS
<1>2. merged' \in BOOLEAN /\ news' \in BOOLEAN /\ shut' \in BOOLEAN BY CardsParts DEF CardThings
<1>3. CardThings' BY <1>1, <1>2, EventsKept, CardsParts DEF CardThings
<1>4. AgreeInv' BY <1>1, CardsParts DEF AgreeInv, Tells, Half
<1>5. LockInv'
  <2>1. CASE Cards!Flip BY <2>1, CardsParts DEF LockInv, LockSays
  <2>2. CASE Cards!Deliver
    <3>1. \A v \in Cards!Workers : at[v] \notin {"rendering", "locking"}
      BY <2>2, CardsParts, CardSorts DEF InHand
    <3>2. owed = "no" => (status = Done => shut) BY <3>1, CardsParts DEF LockInv, LockSays
    <3>3. owed = "no" => LockSays(status)' BY <2>2, <3>2, CardsParts DEF LockSays, CardThings
    <3>. QED BY <1>1, <3>1, <3>3, CardsParts DEF LockInv
  <2>. QED BY <2>1, <2>2
<1>. QED BY <1>1, <1>3, <1>4, <1>5, NobodyMoves

\* The poller keeps its run and goes somewhere.
LEMMA PollerMoves ==
  ASSUME CardsInv, NEW x \in Stages, Cards!Goes(Poller, x), UNCHANGED run
  PROVE  /\ Moves(Poller, x, run[Poller]) /\ run[Poller] \in RunKinds
         /\ at'[Poller] = x /\ run'[Poller] = run[Poller]
         /\ \A v \in Cards!Workers \ {Poller} : at'[v] = at[v] /\ run'[v] = run[v]
<1>1. Moves(Poller, x, run[Poller]) /\ run[Poller] \in RunKinds BY CardsParts, CardSorts DEF Moves, Cards!Goes
<1>. QED BY <1>1, WorkerMoves, CardSorts

LEMMA ListKeeps == CardsInv /\ (Cards!ListBoard \/ Cards!ListBlank \/ Cards!PassOver) => CardsInv'
<1>. SUFFICES ASSUME CardsInv, Cards!ListBoard \/ Cards!ListBlank \/ Cards!PassOver PROVE CardsInv' OBVIOUS
<1>. USE CardSorts DEF Cards!github, Cards!row, Cards!history
<1>1. PICK x \in {"idle", "listed"} :
         /\ Cards!Goes(Poller, x) /\ UNCHANGED run
         /\ at[Poller] \in {"idle", "judging"} /\ poll' \in PollKinds
         /\ UNCHANGED <<column, label, merged, status, seen, news, shut, holder, apart, owed>>
  <2>1. CASE Cards!PassOver BY <2>1, CardRecords DEF Cards!PassOver, Cards!Judged
  <2>2. CASE Cards!ListBoard \/ Cards!ListBlank
    <3>4. column \in Cards!Columns \cup {Cards!Blank} BY CardsParts DEF CardThings
    <3>5. \E c \in Cards!Columns \cup {Cards!Blank}, readable \in BOOLEAN : Cards!Listed(c, readable)
      <4>1. CASE Cards!ListBoard
        <5>1. PICK readable \in IF column = Cards!Blank THEN BOOLEAN ELSE {TRUE} :
                 Cards!Listed(column, readable) BY <4>1 DEF Cards!ListBoard
        <5>2. readable \in BOOLEAN OBVIOUS
        <5>. QED BY <3>4, <5>1, <5>2
      <4>2. CASE Cards!ListBlank BY <4>2 DEF Cards!ListBlank
      <4>. QED BY <2>2, <4>1, <4>2
    <3>1. PICK c \in Cards!Columns \cup {Cards!Blank}, readable \in BOOLEAN : Cards!Listed(c, readable)
      BY <3>5
    <3>2. poll' = [Cards!Unread EXCEPT !.column = c, !.readable = readable] /\ poll' \in PollKinds
      BY <3>1 DEF Cards!Listed, Cards!Unread, PollKinds
    <3>3. Cards!Goes(Poller, "listed") /\ at[Poller] = "idle"
      BY <2>2, <3>1 DEF Cards!Listed, Cards!ListBoard, Cards!ListBlank
    <3>. QED BY <3>1, <3>2, <3>3 DEF Cards!Listed
  <2>. QED BY <2>1, <2>2
<1>2. x \in Stages /\ x \notin Halves /\ x \notin InHand BY DEF Stages, Halves, InHand
<1>3. /\ Moves(Poller, x, run[Poller]) /\ run[Poller] \in RunKinds
      /\ at'[Poller] = x /\ run'[Poller] = run[Poller]
  BY <1>1, <1>2, PollerMoves
<1>4. run[Poller] = Cards!Resting BY <1>1, CardsParts
<1>5. paired' \in BOOLEAN /\ events' \in 0 .. MaxEvents BY EventsKept, CardsParts
  DEF CardThings, Cards!ListBoard, Cards!ListBlank, Cards!Listed, Cards!PassOver, Cards!Judged
<1>6. CardThings' BY <1>1, <1>5, CardsParts DEF CardThings
<1>7. RunIs(Poller)' BY <1>1, <1>3, <1>4, CardRecords DEF RunIs, Asked
<1>8. JudgedSo' BY <1>1, <1>3 DEF JudgedSo, NotedOnly, Asked
<1>9. holder # Poller /\ at[Poller] \notin Halves BY <1>1, CardsParts DEF InHand, Halves
<1>. QED BY <1>1, <1>2, <1>3, <1>4, <1>6, <1>7, <1>8, <1>9, EarlyStep

LEMMA CarryKeeps == CardsInv /\ Cards!Carry => CardsInv'
<1>. SUFFICES ASSUME CardsInv, Cards!Carry PROVE CardsInv' OBVIOUS
<1>. USE CardSorts DEF Cards!github, Cards!row, Cards!history, Cards!Carry, Cards!Judged
<1>1. /\ Cards!Wanted # NULL /\ MaySetStatus /\ poll.column # poll.seen
      /\ poll.column \in Cards!Columns
  BY DEF Cards!OnlyNoted, Cards!SameColumn, Cards!Wanted
<1>2. Cards!Wanted \in Cards!Statuses BY <1>1 DEF Cards!Wanted
<1>. DEFINE r == [Cards!Resting EXCEPT !.want = Cards!Wanted, !.to = NULL, !.status = status,
                                       !.column = seen, !.card = paired]
<1>3. status \in Cards!Statuses /\ seen \in Cards!Columns \cup {NULL, Cards!Blank} /\ paired \in BOOLEAN
  BY CardsParts DEF CardThings
<1>4. r \in RunKinds /\ r.want = Cards!Wanted /\ r.to = NULL BY <1>2, <1>3 DEF RunKinds, Cards!Resting
<1>5. Moves(Poller, "located", r) /\ "located" \in Stages BY DEF Moves, Cards!Located, Cards!Goes, Stages
<1>. HIDE DEF r
<1>6. at'[Poller] = "located" /\ run'[Poller] = r BY <1>4, <1>5, WorkerMoves
<1>7. CardThings' BY <1>3, CardsParts DEF CardThings
<1>8. Cards!Wanted' = Cards!Wanted BY DEF Cards!Wanted
<1>9. RunIs(Poller)' BY <1>1, <1>4, <1>6, <1>8 DEF RunIs, Asked
<1>10. JudgedSo' BY <1>1, <1>6 DEF JudgedSo, NotedOnly, Asked
<1>11. holder # Poller /\ at[Poller] \notin Halves /\ poll' \in PollKinds BY CardsParts DEF InHand, Halves
<1>. QED BY <1>4, <1>5, <1>7, <1>9, <1>10, <1>11, EarlyStep DEF InHand, Halves

LEMMA ReadRowsKeeps == CardsInv /\ Cards!ReadRows => CardsInv'
<1>. SUFFICES ASSUME CardsInv, Cards!ReadRows PROVE CardsInv' OBVIOUS
<1>. USE CardSorts DEF Cards!github, Cards!row, Cards!history, Cards!ReadRows
<1>1. "judging" \in Stages BY DEF Stages
<1>2. /\ Moves(Poller, "judging", run[Poller]) /\ run[Poller] \in RunKinds
      /\ at'[Poller] = "judging" /\ run'[Poller] = run[Poller]
      /\ \A v \in Cards!Workers \ {Poller} : at'[v] = at[v] /\ run'[v] = run[v]
  BY <1>1, PollerMoves
<1>3. run[Poller] = Cards!Resting BY CardsParts
<1>4. CardThings' BY CardsParts DEF CardThings
<1>5. poll' \in PollKinds /\ poll'.status = status BY CardsParts DEF PollKinds, CardThings
<1>6. CardKinds' BY <1>1, <1>2, <1>3, <1>4, <1>5, KindsKept, CardsParts DEF InHand
<1>7. RunIs(Poller)' BY <1>2, <1>3, CardRecords DEF RunIs, Asked
<1>8. RunsAre' BY <1>1, <1>2, <1>7, RunsKept
<1>9. JudgedSo' BY <1>2 DEF JudgedSo, NotedOnly, Asked
<1>10. FirstLookHolds' BY <1>5 DEF FirstLookHolds
<1>11. \A v \in Cards!Workers : at[v] \in Halves \/ at'[v] \in Halves => at'[v] = at[v] /\ run'[v] = run[v]
  BY <1>2 DEF Halves
<1>12. AgreeInv' BY <1>11, AgreeKept DEF Half, Halves
<1>13. LockInv' BY <1>11, LockKept, CardsParts DEF LockInv, Halves
<1>. QED BY <1>6, <1>8, <1>9, <1>10, <1>12, <1>13 DEF CardsInv

LEMMA WriteDownKeeps == CardsInv /\ Cards!WriteDown => CardsInv'
<1>. SUFFICES ASSUME CardsInv, Cards!WriteDown PROVE CardsInv' OBVIOUS
<1>. USE CardSorts DEF Cards!github, Cards!WriteDown, Cards!Judged
<1>1. "remember" \in Stages /\ at[Poller] = "judging" BY DEF Stages, Halves
<1>2. /\ Moves(Poller, "remember", run[Poller]) /\ run[Poller] \in RunKinds
      /\ at'[Poller] = "remember" /\ run'[Poller] = run[Poller]
      /\ \A v \in Cards!Workers \ {Poller} : at'[v] = at[v] /\ run'[v] = run[v]
  BY <1>1, PollerMoves
<1>3. run[Poller] = Cards!Resting BY CardsParts
<1>4. apart' \in BOOLEAN /\ (apart => apart') /\ owed' \in {owed, "lost"} /\ owed' # "owed"
  BY CardsParts DEF CardThings, Cards!Forgets
<1>5. CardThings' BY <1>4, CardsParts DEF CardThings
<1>6. CardKinds' BY <1>1, <1>2, <1>5, KindsKept, CardsParts DEF InHand
<1>7. RunIs(Poller)' BY <1>2, <1>3, CardRecords DEF RunIs, Asked
<1>8. RunsAre' BY <1>1, <1>2, <1>7, RunsKept
<1>9. JudgedSo'
  <2>1. poll.seen = NULL \/ Cards!Wanted = NULL \/ ~MaySetStatus BY DEF Cards!OnlyNoted, Cards!FirstLook
  <2>2. apart' \/ Cards!Wanted \in {NULL, poll.status} OBVIOUS
  <2>. QED BY <1>2, <2>1, <2>2 DEF JudgedSo, Asked, Cards!Wanted
<1>10. FirstLookHolds' BY <1>1, <1>2, <1>4, FirstLookKept
<1>11. \A v \in Cards!Workers : at'[v] = "rendering" => at[v] = "rendering" /\ run'[v] = run[v] BY <1>2
<1>12. \A v \in Cards!Workers : Half(v) => Half(v)' BY <1>1, <1>2 DEF Half, Halves
<1>13. AgreeInv' BY <1>4, <1>11, <1>12, AgreeKept
<1>14. LockInv' BY <1>1, <1>2, <1>4, <1>11, LockKept
<1>. QED BY <1>6, <1>8, <1>9, <1>10, <1>13, <1>14 DEF CardsInv

----
\* Every step.

LEMMA CardsStep == CardsInv /\ Cards!Next => CardsInv'
<1>. SUFFICES ASSUME CardsInv, Cards!Next PROVE CardsInv' OBVIOUS
<1>1. ASSUME NEW w \in Cards!Workers, Cards!SetStatus(w) PROVE CardsInv'
  BY <1>1, AskKeeps, FetchKeeps, EndsEarly, ApplyKeeps, TakeLockKeeps, StoreKeeps, RenderKeeps, ToTheLock,
    SetLockKeeps, MoveCardKeeps, NoCardKeeps, NoteKeeps DEF Cards!SetStatus
<1>2. ASSUME NEW w \in Cards!Workers, Cards!Fails(w) PROVE CardsInv'
  BY <1>2, EarlyFailures, EndsEarly, RenderFailsKeeps, LockLaterKeeps, LockDeniedKeeps, NoCardKeeps
  DEF Cards!Fails
<1>3. CASE Cards!Poll
  BY <1>3, ListKeeps, ReadRowsKeeps, WriteDownKeeps, CarryKeeps, RememberKeeps DEF Cards!Poll
<1>4. CASE Cards!Drag \/ Cards!Flip \/ Cards!Deliver \/ Cards!Die BY <1>4, DragKeeps, OutsideKeeps, DieKeeps
<1>. QED BY <1>1, <1>2, <1>3, <1>4 DEF Cards!Next

----
\* Draft cards.  A row that is as new as its card was written by whoever
\* has shown it, or is about to; and the lock is the row's, or a pass
\* stands between the two.

RowStates == {NULL, "open", "archived", "deleted"}
FoundKind == [card : Drafts!AnyCard \cup {NULL}, pointer : {"none", "live", "dead", "former"},
              state : RowStates, stored : 0 .. MaxVersions]
Settling  == {"asking", "shutting", "reopening", "shut", "reopened"}
Syncing   == {"syncing", "showing", "forgetting"}
DraftSteps == Settling \cup Syncing \cup {"idle", "settling", "mirroring", "handing", "done"}

\* What the types say of everything but the two mirrors.
DraftThings ==
    /\ card \in Drafts!AnyCard /\ cardState \in RowStates
    /\ stamp \in 0 .. MaxVersions /\ block \in 0 .. MaxVersions
    /\ pointer \in {"none", "live", "dead"} /\ thread \in {"none", "open", "locked"}
    /\ pointer = "live" <=> thread # "none"
    /\ goneOnce \in BOOLEAN /\ unshown \in BOOLEAN /\ astray \in BOOLEAN /\ blinks \in Nat
DraftsAt ==
    /\ where \in [Drafts!Mirrors -> DraftSteps] /\ found \in [Drafts!Mirrors -> FoundKind]
    /\ keeper \in Drafts!Mirrors \cup {NULL}
    /\ \A m \in Drafts!Mirrors :
          /\ keeper = m <=> where[m] = "showing"
          /\ where[m] \in Syncing => found[m].card # NULL
    /\ where[Refreshing] \notin Settling

\* A card only grows newer, and nothing is newer than it.
NothingNewer ==
    /\ stamp <= card.version /\ block <= card.version
    /\ \A m \in Drafts!Mirrors :
          /\ found[m].stored <= card.version
          /\ found[m].card # NULL => found[m].card.version <= card.version

ShowsOrWill ==
    /\ \A m \in Drafts!Mirrors :
          where[m] = "showing" /\ stamp = card.version =>
              unshown \/ found[m].card.version = card.version
    /\ pointer = "live" /\ stamp = card.version =>
          \/ unshown \/ block = card.version
          \/ \E m \in Drafts!Mirrors : where[m] \in {"showing", "forgetting"}

\* The pass is at the thread its row has, and has locked or opened it.
AtItsThread == where[Polling] \in Settling /\ found[Polling].pointer = "live"
LockIsTheRows ==
    /\ AtItsThread => /\ pointer = "live"
                      /\ where[Polling] = "shut" => thread = "locked"
                      /\ where[Polling] = "reopened" => thread = "open"
    /\ pointer = "live" =>
          \/ astray \/ (thread = "locked" <=> cardState = "archived")
          \/ AtItsThread /\ where[Polling] \in {"shut", "reopened"}
    /\ \A m \in Drafts!Mirrors : where[m] = "showing" => astray \/ cardState # "archived"

DeniedTwice ==
    /\ goneOnce => ~Drafts!Exists \/ blinks >= 1
    /\ Drafts!LetGoForAReason

DraftsInv ==
    /\ DraftThings /\ DraftsAt /\ NothingNewer /\ ShowsOrWill /\ LockIsTheRows /\ DeniedTwice

LEMMA DraftSorts ==
  /\ Polling # Refreshing /\ NULL \notin Drafts!Mirrors /\ NULL \notin Drafts!AnyCard \cup {"deleted"}
  /\ Drafts!Mirrors = {Polling, Refreshing}
  /\ MaxVersions \in Nat \ {0} /\ MaxMishaps \in Nat
BY PartsAssumption DEF Drafts!DraftCardsAssumption, Drafts!Mirrors

LEMMA DraftsInit == Drafts!Init => DraftsInv
<1>. SUFFICES ASSUME Drafts!Init PROVE DraftsInv OBVIOUS
<1>. USE DraftSorts DEF Drafts!Init
<1>1. Drafts!Nothing \in FoundKind /\ Drafts!Nothing.stored = 0 /\ Drafts!Nothing.card = NULL
  BY DEF Drafts!Nothing, FoundKind, RowStates
<1>2. \A m \in Drafts!Mirrors : where[m] = "idle" /\ found[m] = Drafts!Nothing OBVIOUS
<1>3. card \in Drafts!AnyCard /\ card.version = 1 BY DEF Drafts!AnyCard, Drafts!Versions
<1>4. DraftThings
  <2>1. 0 \in 0 .. MaxVersions /\ 0 \in Nat OBVIOUS
  <2>. QED BY <1>3, <2>1 DEF DraftThings, RowStates
<1>5. DraftsAt BY <1>1, <1>2 DEF DraftsAt, DraftSteps, Settling, Syncing
<1>7. NothingNewer
  <2>1. 0 <= card.version BY <1>3
  <2>. QED BY <1>1, <1>2, <2>1 DEF NothingNewer
<1>8. ShowsOrWill /\ LockIsTheRows BY <1>2 DEF ShowsOrWill, LockIsTheRows, AtItsThread, Settling
<1>9. DeniedTwice BY DEF DeniedTwice, Drafts!LetGoForAReason
<1>. QED BY <1>4, <1>5, <1>7, <1>8, <1>9 DEF DraftsInv

LEMMA DraftsAre == DraftsInv => Drafts!TypeOK /\ DraftsAreAsTheirCards
<1>. SUFFICES ASSUME DraftsInv PROVE Drafts!TypeOK /\ DraftsAreAsTheirCards OBVIOUS
<1>. USE DraftSorts DEF DraftsInv
<1>1. Drafts!TypeOK BY DEF DraftThings, DraftsAt, Drafts!TypeOK, RowStates
<1>2. stamp \in Nat /\ block \in Nat /\ card.version \in Nat
  BY DEF DraftThings, Drafts!AnyCard, Drafts!Versions
<1>3. ASSUME Drafts!Idle PROVE \A m \in Drafts!Mirrors : where[m] = "idle" BY <1>3 DEF Drafts!Idle
<1>4. Drafts!PassedOverIsShown
  <2>. SUFFICES ASSUME Drafts!Idle, ~Drafts!HasMoved(card), pointer = "live"
                PROVE  unshown \/ block = card.version
    BY DEF Drafts!PassedOverIsShown, DraftThings
  <2>1. ~(card.version > stamp) /\ stamp <= card.version BY DEF Drafts!HasMoved, NothingNewer
  <2>2. stamp = card.version BY <1>2, <2>1
  <2>. QED BY <1>3, <2>2 DEF ShowsOrWill
<1>5. Drafts!LockFollowsTheCard
  <2>. SUFFICES ASSUME Drafts!Idle, pointer = "live", card.archived <=> cardState = "archived", ~astray
                PROVE  thread = "locked" <=> card.archived
    BY DEF Drafts!LockFollowsTheCard, DraftThings
  <2>1. ~AtItsThread BY <1>3 DEF AtItsThread, Settling
  <2>. QED BY <2>1 DEF LockIsTheRows
<1>6. Drafts!LetGoForAReason BY DEF DeniedTwice
<1>. QED BY <1>1, <1>4, <1>5, <1>6 DEF DraftsAreAsTheirCards, Drafts!ShownAsItsCardIs

----
\* One mirror moves.

Turns(m, x, f) == where' = [where EXCEPT ![m] = x] /\ found' = [found EXCEPT ![m] = f]

LEMMA MirrorTurns ==
  ASSUME DraftsInv, NEW m \in Drafts!Mirrors, NEW x \in DraftSteps, NEW f \in FoundKind, Turns(m, x, f)
  PROVE  /\ where' \in [Drafts!Mirrors -> DraftSteps] /\ found' \in [Drafts!Mirrors -> FoundKind]
         /\ where'[m] = x /\ found'[m] = f
         /\ \A n \in Drafts!Mirrors \ {m} : where'[n] = where[n] /\ found'[n] = found[n]
BY DEF DraftsInv, DraftsAt, Turns

\* What a mirror keeps in mind is no newer than the card.
NoNewer(f) == f.stored <= card.version /\ (f.card # NULL => f.card.version <= card.version)

\* It is not, and does not come to be, between a row and its thread.
LEMMA TurnsElsewhere ==
  ASSUME DraftsInv, NEW m \in Drafts!Mirrors, NEW x \in DraftSteps, NEW f \in FoundKind, Turns(m, x, f),
         {where[m], x} \cap {"showing", "forgetting"} = {},
         x = "syncing" => f.card # NULL, m = Refreshing => x \notin Settling, NoNewer(f),
         UNCHANGED <<card, stamp, keeper, unshown>>,
         block' \in {block, 0}, pointer' = "live" => pointer = "live" /\ block' = block
  PROVE  DraftsAt' /\ NothingNewer' /\ ShowsOrWill'
<1>1. /\ where' \in [Drafts!Mirrors -> DraftSteps] /\ found' \in [Drafts!Mirrors -> FoundKind]
      /\ where'[m] = x /\ found'[m] = f
      /\ \A n \in Drafts!Mirrors \ {m} : where'[n] = where[n] /\ found'[n] = found[n]
  BY MirrorTurns
<1>2. DraftsAt' BY <1>1, DraftSorts DEF DraftsInv, DraftsAt, Syncing
<1>3. NothingNewer'
  <2>1. 0 <= card.version BY DEF DraftsInv, DraftThings, Drafts!AnyCard, Drafts!Versions
  <2>. QED BY <1>1, <2>1 DEF DraftsInv, NothingNewer, NoNewer
<1>4. ShowsOrWill'
  <2>1. \A n \in Drafts!Mirrors : where'[n] \in {"showing", "forgetting"} \/ where[n] \in {"showing", "forgetting"} =>
            where'[n] = where[n] /\ found'[n] = found[n] BY <1>1
  <2>. QED BY <2>1 DEF DraftsInv, ShowsOrWill
<1>. QED BY <1>2, <1>3, <1>4

\* Neither the row nor the thread is touched.
LEMMA TurnsOnly ==
  ASSUME DraftsInv, NEW m \in Drafts!Mirrors, NEW x \in DraftSteps, NEW f \in FoundKind, Turns(m, x, f),
         {where[m], x} \cap {"showing", "forgetting", "shut", "reopened"} = {},
         x = "syncing" => f.card # NULL, m = Refreshing => x \notin Settling, NoNewer(f),
         x \in Settling /\ f.pointer = "live" => pointer = "live",
         UNCHANGED <<card, stamp, keeper, unshown, cardState, pointer, thread, block, astray, blinks>>,
         goneOnce' \in {goneOnce, FALSE}
  PROVE  DraftsInv'
<1>1. /\ where'[m] = x /\ found'[m] = f
      /\ \A n \in Drafts!Mirrors \ {m} : where'[n] = where[n] /\ found'[n] = found[n]
  BY MirrorTurns
<1>2. DraftsAt' /\ NothingNewer' /\ ShowsOrWill' BY TurnsElsewhere
<1>3. DraftThings' BY DEF DraftsInv, DraftThings
<1>4. DeniedTwice'
  <2>1. goneOnce' => goneOnce OBVIOUS
  <2>. QED BY <2>1 DEF DraftsInv, DeniedTwice, Drafts!LetGoForAReason, Drafts!Exists
<1>5. LockIsTheRows'
  <2>1. CASE m = Polling BY <1>1, <2>1, DraftSorts DEF DraftsInv, LockIsTheRows, AtItsThread
  <2>2. CASE m # Polling
    <3>1. where'[Polling] = where[Polling] /\ found'[Polling] = found[Polling] BY <1>1, <2>2, DraftSorts
    <3>. QED BY <1>1, <3>1, DraftSorts DEF DraftsInv, LockIsTheRows, AtItsThread
  <2>. QED BY <2>1, <2>2
<1>. QED BY <1>2, <1>3, <1>4, <1>5 DEF DraftsInv

LEMMA DraftParts ==
  ASSUME DraftsInv
  PROVE  /\ DraftThings /\ DraftsAt /\ NothingNewer /\ ShowsOrWill /\ LockIsTheRows /\ DeniedTwice
         /\ \A m \in Drafts!Mirrors :
               /\ where[m] \in DraftSteps /\ found[m] \in FoundKind /\ NoNewer(found[m])
               /\ found[m].card \in Drafts!AnyCard \cup {NULL}
               /\ found[m].pointer \in {"none", "live", "dead", "former"}
         /\ card.version \in Nat /\ card \in Drafts!AnyCard /\ card # NULL /\ Polling \in Drafts!Mirrors
         /\ where \in [Drafts!Mirrors -> DraftSteps] /\ found \in [Drafts!Mirrors -> FoundKind]
<1>. USE DEF DraftsInv
<1>1. \A m \in Drafts!Mirrors : where[m] \in DraftSteps /\ found[m] \in FoundKind BY DEF DraftsAt
<1>2. \A m \in Drafts!Mirrors : NoNewer(found[m]) BY DEF NothingNewer, NoNewer
<1>3. \A m \in Drafts!Mirrors :
         /\ found[m].card \in Drafts!AnyCard \cup {NULL}
         /\ found[m].pointer \in {"none", "live", "dead", "former"}
  BY <1>1 DEF FoundKind
<1>4. card.version \in Nat /\ card \in Drafts!AnyCard BY DEF DraftThings, Drafts!AnyCard, Drafts!Versions
<1>. QED BY <1>1, <1>2, <1>3, <1>4, DraftSorts DEF DraftsAt

LEMMA NothingFound == Drafts!Nothing \in FoundKind /\ (DraftsInv => NoNewer(Drafts!Nothing))
<1>1. Drafts!Nothing \in FoundKind BY DraftSorts DEF Drafts!Nothing, FoundKind, RowStates
<1>2. DraftsInv => NoNewer(Drafts!Nothing)
  <2>1. DraftsInv => 0 <= card.version BY DraftParts
  <2>. QED BY <2>1 DEF Drafts!Nothing, NoNewer
<1>. QED BY <1>1, <1>2

LEMMA CardListed ==
  ASSUME DraftsInv, NEW c \in {card, NULL}
  PROVE  [Drafts!Nothing EXCEPT !.card = c] \in FoundKind /\ NoNewer([Drafts!Nothing EXCEPT !.card = c])
<1>1. [Drafts!Nothing EXCEPT !.card = c] \in FoundKind
  BY DraftSorts, DraftParts DEF Drafts!Nothing, FoundKind, RowStates
<1>2. 0 <= card.version /\ card.version <= card.version BY DraftParts
<1>. QED BY <1>1, <1>2 DEF Drafts!Nothing, NoNewer

LEMMA ListDrafts == DraftsInv /\ (Drafts!List \/ Drafts!ListWithout) => DraftsInv'
<1>. SUFFICES ASSUME DraftsInv, Drafts!List \/ Drafts!ListWithout PROVE DraftsInv' OBVIOUS
<1>. USE DraftSorts DEF Drafts!List, Drafts!ListWithout, Drafts!github, Drafts!theRow, Drafts!discord,
                        Drafts!notes
<1>1. "settling" \in DraftSteps /\ "settling" \notin Settling BY DEF DraftSteps, Settling
<1>2. CASE Drafts!List
  <2>1. PICK c \in {card, NULL} : Turns(Polling, "settling", [Drafts!Nothing EXCEPT !.card = c])
    BY <1>2 DEF Drafts!Finds, Drafts!Now, Turns
  <2>2. /\ [Drafts!Nothing EXCEPT !.card = c] \in FoundKind /\ NoNewer([Drafts!Nothing EXCEPT !.card = c])
    BY CardListed
  <2>. QED BY <1>1, <1>2, <2>1, <2>2, DraftParts, TurnsOnly
<1>3. CASE Drafts!ListWithout
  <2>1. Turns(Polling, "settling", found[Polling]) BY <1>3, DraftParts DEF Drafts!Now, Turns
  <2>. QED BY <1>1, <1>3, <2>1, DraftParts, TurnsOnly
<1>. QED BY <1>2, <1>3

LEMMA FateIs ==
  ASSUME NEW c, NEW said2 PROVE Drafts!Fate(c, said2) \in {"mirroring", "shutting", "reopening"}
BY DEF Drafts!Fate

LEMMA SettleDrafts == DraftsInv /\ Drafts!Settle => DraftsInv'
<1>. SUFFICES ASSUME DraftsInv, Drafts!Settle PROVE DraftsInv' OBVIOUS
<1>. USE DraftSorts DEF Drafts!Settle, Drafts!github, Drafts!theRow, Drafts!discord, Drafts!notes
<1>. DEFINE seen1 == [found[Polling] EXCEPT !.pointer = pointer, !.state = cardState]
<1>1. seen1 \in FoundKind /\ seen1.pointer = pointer
      /\ seen1.stored = found[Polling].stored /\ seen1.card = found[Polling].card
  <2>1. found[Polling] \in FoundKind /\ pointer \in {"none", "live", "dead"} /\ cardState \in RowStates
    BY DraftParts DEF DraftThings
  <2>. QED BY <2>1 DEF FoundKind
<1>2. NoNewer(seen1)
  <2>1. NoNewer(found[Polling]) BY DraftParts
  <2>. QED BY <1>1, <2>1 DEF NoNewer
<1>3. PICK x \in {"mirroring", "asking", "shutting", "reopening"}, f \in {found[Polling], seen1} :
         Turns(Polling, x, f) /\ (x # "mirroring" => f = seen1)
  <2>1. CASE pointer = "none"
    <3>1. Turns(Polling, "mirroring", found[Polling]) BY <2>1, DraftParts DEF Drafts!Now, Turns
    <3>. QED BY <3>1
  <2>2. CASE pointer # "none" /\ Drafts!Missing
    <3>1. Turns(Polling, "asking", seen1) BY <2>2 DEF Drafts!Now, Drafts!Finds, Turns
    <3>. QED BY <3>1
  <2>3. CASE pointer # "none" /\ ~Drafts!Missing
    <3>1. Turns(Polling, Drafts!Fate(Drafts!Listed(Polling), cardState), seen1)
      BY <2>3 DEF Drafts!Now, Drafts!Finds, Turns
    <3>2. Drafts!Fate(Drafts!Listed(Polling), cardState) \in {"mirroring", "shutting", "reopening"} BY FateIs
    <3>. QED BY <3>1, <3>2
  <2>. QED BY <2>1, <2>2, <2>3
<1>4. goneOnce' \in {goneOnce, FALSE} OBVIOUS
<1>5. UNCHANGED <<card, stamp, keeper, unshown, cardState, pointer, thread, block, astray, blinks>>
      /\ where[Polling] = "settling" OBVIOUS
<1>. HIDE DEF seen1, Drafts!Settle
<1>6. x \in DraftSteps /\ (x \in Settling => x # "mirroring") BY DEF DraftSteps, Settling
<1>7. f \in FoundKind /\ NoNewer(f) BY <1>1, <1>2, DraftParts
<1>. QED BY <1>1, <1>3, <1>4, <1>5, <1>6, <1>7, DraftParts, TurnsOnly

LEMMA SettlesNothing == DraftsInv /\ (Drafts!SettleNothing \/ Drafts!AskNothing \/ Drafts!ShutLater) => DraftsInv'
<1>. SUFFICES ASSUME DraftsInv, Drafts!SettleNothing \/ Drafts!AskNothing \/ Drafts!ShutLater PROVE DraftsInv'
  OBVIOUS
<1>. USE DraftSorts DEF Drafts!SettleNothing, Drafts!AskNothing, Drafts!ShutLater, Drafts!KeptBack,
                        Drafts!Shutting, Drafts!github, Drafts!theRow, Drafts!discord, Drafts!notes
<1>1. PICK x \in {"idle", "mirroring"}, f \in {found[Polling], Drafts!Nothing} : Turns(Polling, x, f)
  BY DraftParts DEF Drafts!Ends, Drafts!Now, Drafts!Finds, Turns
<1>2. UNCHANGED <<card, stamp, keeper, unshown, cardState, pointer, thread, block, astray, blinks, goneOnce>>
      /\ where[Polling] \in {"settling", "asking", "shutting", "reopening"}
  OBVIOUS
<1>3. x \in DraftSteps /\ x \notin Settling BY DEF DraftSteps, Settling
<1>4. f \in FoundKind /\ NoNewer(f) BY NothingFound, DraftParts
<1>. QED BY <1>1, <1>2, <1>3, <1>4, DraftParts, TurnsOnly

LEMMA AskOnce == DraftsInv /\ Drafts!Ask => DraftsInv'
<1>. SUFFICES ASSUME DraftsInv, Drafts!Ask PROVE DraftsInv' OBVIOUS
<1>. USE DraftSorts DEF Drafts!Ask, Drafts!github, Drafts!theRow, Drafts!discord, Drafts!notes
<1>1. PICK x \in {"idle", "shutting", "reopening"}, f \in {found[Polling], Drafts!Nothing} :
         Turns(Polling, x, f) /\ (x # "idle" => f = found[Polling])
  <2>1. CASE Drafts!Fate(card, found[Polling].state) = "mirroring"
    <3>1. Turns(Polling, "idle", Drafts!Nothing) BY <2>1 DEF Drafts!Ends, Drafts!Now, Drafts!Finds, Turns
    <3>. QED BY <3>1
  <2>2. CASE Drafts!Fate(card, found[Polling].state) # "mirroring"
    <3>1. Turns(Polling, Drafts!Fate(card, found[Polling].state), found[Polling])
      BY <2>2, DraftParts DEF Drafts!Now, Turns
    <3>. QED BY <2>2, <3>1, FateIs
  <2>. QED BY <2>1, <2>2
<1>2. UNCHANGED <<card, stamp, keeper, unshown, cardState, pointer, thread, block, astray, blinks>>
      /\ where[Polling] = "asking" /\ goneOnce' = FALSE OBVIOUS
<1>. HIDE DEF Drafts!Ask
<1>3. x \in DraftSteps /\ (x \in Settling => x # "idle") BY DEF DraftSteps, Settling
<1>4. f \in FoundKind /\ NoNewer(f) BY NothingFound, DraftParts
<1>5. found[Polling].pointer = "live" => pointer = "live"
  BY <1>2, DraftParts DEF LockIsTheRows, AtItsThread, Settling
<1>. QED BY <1>1, <1>2, <1>3, <1>4, <1>5, DraftParts, TurnsOnly

LEMMA MirrorDraft == DraftsInv /\ Drafts!Mirror => DraftsInv'
<1>. SUFFICES ASSUME DraftsInv, Drafts!Mirror PROVE DraftsInv' OBVIOUS
<1>. USE DraftSorts DEF Drafts!Mirror, Drafts!github, Drafts!theRow, Drafts!discord, Drafts!notes
<1>. DEFINE f1 == [found[Polling] EXCEPT !.stored = stamp, !.pointer = pointer]
<1>1. f1 \in FoundKind /\ f1.stored = stamp /\ f1.card = found[Polling].card
  <2>1. found[Polling] \in FoundKind /\ pointer \in {"none", "live", "dead"} /\ stamp \in 0 .. MaxVersions
    BY DraftParts DEF DraftThings
  <2>. QED BY <2>1 DEF FoundKind
<1>2. NoNewer(f1)
  <2>1. NoNewer(found[Polling]) /\ stamp <= card.version BY DraftParts DEF NothingNewer
  <2>. QED BY <1>1, <2>1 DEF NoNewer
<1>3. PICK x \in {"syncing", "handing"}, f \in {found[Polling], f1} :
         Turns(Polling, x, f) /\ (x = "syncing" => f = f1 /\ found[Polling].card # NULL)
  <2>1. CASE LET c == Drafts!Listed(Polling) IN c # NULL /\ c.kind = "draft" /\ ~c.archived /\ Drafts!HasMoved(c)
    <3>1. Turns(Polling, "syncing", f1) BY <2>1 DEF Drafts!Now, Drafts!Finds, Turns
    <3>2. found[Polling].card # NULL BY <2>1 DEF Drafts!Listed
    <3>. QED BY <3>1, <3>2
  <2>2. CASE ~LET c == Drafts!Listed(Polling) IN c # NULL /\ c.kind = "draft" /\ ~c.archived /\ Drafts!HasMoved(c)
    <3>1. Turns(Polling, "handing", found[Polling]) BY <2>2, DraftParts DEF Drafts!Now, Turns
    <3>. QED BY <3>1
  <2>. QED BY <2>1, <2>2
<1>4. UNCHANGED <<card, stamp, keeper, unshown, cardState, pointer, thread, block, astray, blinks, goneOnce>>
      /\ where[Polling] = "mirroring" OBVIOUS
<1>. HIDE DEF f1, Drafts!Mirror
<1>5. x \in DraftSteps /\ x \notin Settling BY DEF DraftSteps, Settling, Syncing
<1>6. f \in FoundKind /\ NoNewer(f) BY <1>1, <1>2, DraftParts
<1>. QED BY <1>1, <1>3, <1>4, <1>5, <1>6, DraftParts, TurnsOnly

LEMMA RefreshDraft == DraftsInv /\ (Drafts!Refresh \/ Drafts!RefreshEnds) => DraftsInv'
<1>. SUFFICES ASSUME DraftsInv, Drafts!Refresh \/ Drafts!RefreshEnds PROVE DraftsInv' OBVIOUS
<1>. USE DraftSorts DEF Drafts!Refresh, Drafts!RefreshEnds, Drafts!github, Drafts!theRow, Drafts!discord,
                        Drafts!notes
<1>1. {"syncing", "idle"} \subseteq DraftSteps /\ {"syncing", "idle"} \cap Settling = {}
  BY DEF DraftSteps, Settling, Syncing
<1>2. CASE Drafts!Refresh
  <2>1. Turns(Refreshing, "syncing", [Drafts!Nothing EXCEPT !.card = card])
    BY <1>2 DEF Drafts!Finds, Drafts!Now, Turns
  <2>2. [Drafts!Nothing EXCEPT !.card = card] \in FoundKind
        /\ NoNewer([Drafts!Nothing EXCEPT !.card = card]) BY CardListed
  <2>3. [Drafts!Nothing EXCEPT !.card = card].card = card /\ card # NULL BY DraftParts DEF Drafts!Nothing
  <2>. QED BY <1>1, <1>2, <2>1, <2>2, <2>3, TurnsOnly
<1>3. CASE Drafts!RefreshEnds
  <2>1. Turns(Refreshing, "idle", Drafts!Nothing) BY <1>3 DEF Drafts!Finds, Drafts!Now, Drafts!Ends, Turns
  <2>. QED BY <1>1, <1>3, <2>1, NothingFound, TurnsOnly
<1>. QED BY <1>2, <1>3

----
\* What a pass does to the row and its thread.

LEMMA ShutsOrOpens == DraftsInv /\ Drafts!Shut => DraftsInv'
<1>. SUFFICES ASSUME DraftsInv, Drafts!Shut PROVE DraftsInv' OBVIOUS
<1>. USE DraftSorts DEF Drafts!Shut, Drafts!github, Drafts!theRow, Drafts!notes, Drafts!Shutting,
                        Drafts!Mine, Drafts!WantedLock
<1>1. PICK x \in {"shut", "reopened"} :
         Turns(Polling, x, found[Polling]) /\ thread' = (IF x = "shut" THEN "locked" ELSE "open")
  BY DraftParts DEF Drafts!Now, Turns
<1>2. where[Polling] \in {"shutting", "reopening"} /\ found[Polling].pointer = "live" /\ pointer = "live"
  BY DraftParts DEF LockIsTheRows, AtItsThread, Settling
<1>3. x \in DraftSteps /\ x \in Settling BY DEF DraftSteps, Settling
<1>4. /\ where'[Polling] = x /\ found'[Polling] = found[Polling]
      /\ \A n \in Drafts!Mirrors \ {Polling} : where'[n] = where[n] /\ found'[n] = found[n]
  BY <1>1, <1>3, MirrorTurns, DraftParts
<1>5. DraftsAt' /\ NothingNewer' /\ ShowsOrWill' BY <1>1, <1>2, <1>3, DraftParts, TurnsElsewhere
<1>6. DraftThings' BY <1>1, <1>2, DraftParts DEF DraftThings
<1>7. DeniedTwice' BY DraftParts DEF DeniedTwice, Drafts!LetGoForAReason, Drafts!Exists
<1>8. LockIsTheRows' BY <1>1, <1>2, <1>3, <1>4, DraftParts DEF LockIsTheRows, AtItsThread
<1>. QED BY <1>5, <1>6, <1>7, <1>8 DEF DraftsInv

\* The pass goes on, past the thread its row had.
LEMMA PassGoesOn ==
  ASSUME DraftsInv, NEW x \in {"mirroring", "idle"}, NEW f \in {found[Polling], Drafts!Nothing},
         Turns(Polling, x, f),
         where[Polling] \notin Syncing, UNCHANGED <<card, stamp, keeper, unshown>>,
         block' \in {block, 0}, pointer' = "live" => pointer = "live" /\ block' = block,
         DraftThings', DeniedTwice',
         pointer' = "live" => astray' \/ (thread' = "locked" <=> cardState' = "archived"),
         astray => astray', cardState' = "archived" => cardState = "archived" \/ astray' \/ keeper = NULL
  PROVE  DraftsInv'
<1>1. x \in DraftSteps /\ x \notin Settling \cup Syncing BY DEF DraftSteps, Settling, Syncing
<1>2. f \in FoundKind /\ NoNewer(f) BY NothingFound, DraftParts
<1>3. /\ where'[Polling] = x
      /\ \A n \in Drafts!Mirrors \ {Polling} : where'[n] = where[n] /\ found'[n] = found[n]
  BY <1>1, <1>2, MirrorTurns, DraftParts
<1>4. DraftsAt' /\ NothingNewer' /\ ShowsOrWill'
  BY <1>1, <1>2, TurnsElsewhere, DraftParts, DraftSorts DEF Syncing
<1>5. LockIsTheRows'
  <2>1. \A m \in Drafts!Mirrors : where'[m] = "showing" => where[m] = "showing" /\ keeper # NULL
    BY <1>1, <1>3, DraftParts, DraftSorts DEF DraftsAt, Syncing
  <2>2. \A m \in Drafts!Mirrors : where'[m] = "showing" => astray' \/ cardState' # "archived"
    BY <2>1, DraftParts DEF LockIsTheRows
  <2>3. ~AtItsThread' BY <1>1, <1>3 DEF AtItsThread
  <2>. QED BY <2>2, <2>3 DEF LockIsTheRows
<1>. QED BY <1>4, <1>5 DEF DraftsInv

LEMMA ShutsGone == DraftsInv /\ Drafts!ShutGone => DraftsInv'
<1>. SUFFICES ASSUME DraftsInv, Drafts!ShutGone PROVE DraftsInv' OBVIOUS
<1>. USE DraftSorts DEF Drafts!ShutGone, Drafts!github, Drafts!discord, Drafts!Shutting,
                        Drafts!Mine, Drafts!Wanted
<1>1. Turns(Polling, "mirroring", found[Polling]) BY DraftParts DEF Drafts!Now, Turns
<1>2. where[Polling] \in {"shutting", "reopening"} /\ found[Polling].pointer # "live" OBVIOUS
<1>3. \/ cardState' \in {"archived", "open"} /\ pointer # "live" /\ pointer' = "none"
      \/ UNCHANGED <<cardState, pointer>> BY <1>2 DEF Drafts!StillPointsThere
<1>4. astray' \in BOOLEAN /\ (astray => astray') /\ (keeper # NULL => astray') BY DraftParts DEF DraftThings
<1>5. DraftThings' BY <1>3, <1>4, DraftParts DEF DraftThings, RowStates
<1>6. DeniedTwice' BY <1>3, DraftParts DEF DeniedTwice, Drafts!LetGoForAReason, Drafts!Exists
<1>7. pointer' = "live" => astray' \/ (thread' = "locked" <=> cardState' = "archived")
  <2>1. ~(AtItsThread /\ where[Polling] \in {"shut", "reopened"}) BY <1>2
  <2>. QED BY <1>3, <1>4, <2>1, DraftParts DEF LockIsTheRows
<1>8. pointer' = "live" => pointer = "live" BY <1>3
<1>. QED BY <1>1, <1>2, <1>4, <1>5, <1>6, <1>7, <1>8, PassGoesOn DEF Syncing

LEMMA ShutIsRefused == DraftsInv /\ Drafts!ShutRefused => DraftsInv'
<1>. SUFFICES ASSUME DraftsInv, Drafts!ShutRefused PROVE DraftsInv' OBVIOUS
<1>. USE DraftSorts DEF Drafts!ShutRefused, Drafts!github, Drafts!discord, Drafts!Shutting, Drafts!Wanted
<1>1. Turns(Polling, "mirroring", found[Polling]) BY DraftParts DEF Drafts!Now, Turns
<1>2. cardState' \in {cardState, "archived", "open"} OBVIOUS
<1>3. DraftThings' BY <1>2, DraftParts DEF DraftThings, RowStates
<1>4. DeniedTwice' BY <1>2, DraftParts DEF DeniedTwice, Drafts!LetGoForAReason, Drafts!Exists
<1>. QED BY <1>1, <1>3, <1>4, PassGoesOn DEF Syncing

LEMMA RecordDraft == DraftsInv /\ Drafts!Record => DraftsInv'
<1>. SUFFICES ASSUME DraftsInv, Drafts!Record PROVE DraftsInv' OBVIOUS
<1>. USE DraftSorts DEF Drafts!Record, Drafts!github, Drafts!discord
<1>1. Turns(Polling, "mirroring", found[Polling]) BY DraftParts DEF Drafts!Now, Turns
<1>2. where[Polling] \in {"shut", "reopened"} /\ where[Polling] \in Settling BY DEF Settling
<1>3. cardState' \in {cardState, "archived", "open"} OBVIOUS
<1>4. astray' \in BOOLEAN /\ (astray => astray') /\ (keeper # NULL => astray') BY DraftParts DEF DraftThings
<1>5. DraftThings' BY <1>3, <1>4, DraftParts DEF DraftThings, RowStates
<1>6. DeniedTwice' BY <1>3, DraftParts DEF DeniedTwice, Drafts!LetGoForAReason, Drafts!Exists
<1>7. pointer = "live" => astray' \/ (thread = "locked" <=> cardState' = "archived")
  <2>. SUFFICES ASSUME pointer = "live", ~astray' PROVE thread = "locked" <=> cardState' = "archived" OBVIOUS
  <2>1. CASE found[Polling].pointer = "live"
    <3>1. thread = (IF where[Polling] = "shut" THEN "locked" ELSE "open")
      BY <1>2, <2>1, DraftParts DEF LockIsTheRows, AtItsThread
    <3>2. cardState' = (IF where[Polling] = "shut" THEN "archived" ELSE "open")
      BY <2>1 DEF Drafts!StillPointsThere
    <3>. QED BY <3>1, <3>2
  <2>2. CASE found[Polling].pointer # "live"
    <3>1. cardState' = cardState BY <2>2 DEF Drafts!StillPointsThere
    <3>. QED BY <1>4, <2>2, <3>1, DraftParts DEF LockIsTheRows, AtItsThread
  <2>. QED BY <2>1, <2>2
<1>8. pointer' = pointer /\ thread' = thread /\ block' = block OBVIOUS
<1>. QED BY <1>1, <1>2, <1>4, <1>5, <1>6, <1>7, <1>8, PassGoesOn DEF Syncing

LEMMA DeniedCard == DraftsInv /\ Drafts!NoSuchCard => DraftsInv'
<1>. SUFFICES ASSUME DraftsInv, Drafts!NoSuchCard PROVE DraftsInv' OBVIOUS
<1>. USE DraftSorts DEF Drafts!NoSuchCard, Drafts!github, Drafts!discord, Drafts!Believed
<1>1. Turns(Polling, "idle", Drafts!Nothing) /\ where[Polling] = "asking"
  BY DEF Drafts!Ends, Drafts!Now, Drafts!Finds, Turns
<1>2. \/ goneOnce' = TRUE /\ UNCHANGED <<cardState, pointer, thread, block>> /\ ~goneOnce
      \/ /\ goneOnce' = FALSE /\ goneOnce
         /\ cardState' \in {cardState, "deleted"} /\ pointer' = "none"
         /\ IF pointer = "live" THEN thread' = "none" /\ block' = 0 ELSE UNCHANGED <<thread, block>>
  BY DraftParts DEF DraftThings
<1>3. blinks \in Nat /\ blinks' \in Nat /\ blinks' >= blinks /\ (Drafts!Exists => blinks' = blinks + 1)
      /\ card' = card BY DraftParts DEF DraftThings
<1>4. DraftThings'
  <2>1. /\ pointer' \in {"none", "live", "dead"} /\ thread' \in {"none", "open", "locked"}
        /\ goneOnce' \in BOOLEAN /\ cardState' \in RowStates
    BY <1>2, DraftParts DEF DraftThings, RowStates
  <2>4. block' \in 0 .. MaxVersions
    <3>1. {0, block} \subseteq 0 .. MaxVersions BY DraftParts DEF DraftThings
    <3>. QED BY <1>2, <3>1
  <2>2. pointer' = "live" <=> thread' # "none" BY <1>2, DraftParts DEF DraftThings
  <2>3. UNCHANGED <<card, stamp, unshown, astray>> OBVIOUS
  <2>. QED BY <1>3, <2>1, <2>2, <2>3, <2>4, DraftParts DEF DraftThings
<1>5. DeniedTwice'
  <2>1. goneOnce' => ~Drafts!Exists \/ blinks' >= 1 BY <1>3
  <2>2. cardState' = "deleted" => ~Drafts!Exists \/ blinks' >= 2
    <3>1. goneOnce => ~Drafts!Exists \/ blinks >= 1 BY DraftParts DEF DeniedTwice
    <3>2. cardState = "deleted" => ~Drafts!Exists \/ blinks >= 2
      BY DraftParts DEF DeniedTwice, Drafts!LetGoForAReason
    <3>3. goneOnce => ~Drafts!Exists \/ blinks' >= 2 BY <1>3, <3>1
    <3>4. cardState = "deleted" => ~Drafts!Exists \/ blinks' >= 2 BY <1>3, <3>2
    <3>. QED BY <1>2, <3>3, <3>4
  <2>3. Drafts!Exists' = Drafts!Exists BY <1>3 DEF Drafts!Exists
  <2>. QED BY <2>1, <2>2, <2>3 DEF DeniedTwice, Drafts!LetGoForAReason
<1>6. pointer' = "live" =>
         pointer = "live" /\ block' = block /\ (astray' \/ (thread' = "locked" <=> cardState' = "archived"))
  BY <1>1, <1>2, DraftParts DEF LockIsTheRows
<1>7. block' \in {block, 0} /\ (cardState' = "archived" => cardState = "archived") BY <1>2
<1>8. astray' = astray /\ UNCHANGED <<card, stamp, keeper, unshown>> OBVIOUS
<1>. HIDE DEF Drafts!NoSuchCard
<1>. QED BY <1>1, <1>4, <1>5, <1>6, <1>7, <1>8, PassGoesOn DEF Syncing

LEMMA HandsOver == DraftsInv /\ Drafts!HandOver => DraftsInv'
<1>. SUFFICES ASSUME DraftsInv, Drafts!HandOver PROVE DraftsInv' OBVIOUS
<1>. USE DraftSorts DEF Drafts!HandOver, Drafts!github, Drafts!discord, Drafts!notes
<1>1. Turns(Polling, "idle", Drafts!Nothing) /\ where[Polling] = "handing"
  BY DEF Drafts!Ends, Drafts!Now, Drafts!Finds, Turns
<1>2. \/ UNCHANGED <<pointer, thread, block>>
      \/ /\ pointer' = "none"
         /\ IF pointer = "live" THEN thread' = "none" /\ block' = 0 ELSE UNCHANGED <<thread, block>>
  OBVIOUS
<1>3. UNCHANGED <<card, cardState, stamp, keeper, goneOnce, unshown, astray, blinks>> OBVIOUS
<1>. HIDE DEF Drafts!HandOver
<1>4. DraftThings' BY <1>2, <1>3, DraftParts DEF DraftThings
<1>5. DeniedTwice' BY <1>3, DraftParts DEF DeniedTwice, Drafts!LetGoForAReason, Drafts!Exists
<1>6. pointer' = "live" =>
         pointer = "live" /\ block' = block /\ (astray' \/ (thread' = "locked" <=> cardState' = "archived"))
  BY <1>1, <1>2, <1>3, DraftParts DEF LockIsTheRows
<1>7. block' \in {block, 0} BY <1>2
<1>. QED BY <1>1, <1>3, <1>4, <1>5, <1>6, <1>7, PassGoesOn DEF Syncing

----
\* A sync, between the row and the thread; GitHub, people, and deaths.

LEMMA RowSynced == ASSUME DraftsInv, NEW m \in Drafts!Mirrors, Drafts!SyncRow(m) PROVE DraftsInv'
<1>. USE DraftSorts DEF Drafts!SyncRow, Drafts!github, Drafts!discord, Drafts!Listed
<1>1. where[m] = "syncing" /\ keeper = NULL /\ found[m].card \in Drafts!AnyCard /\ found[m].card # NULL
  BY DraftParts DEF DraftsAt, Syncing
<1>2. found[m].card.version \in 1 .. MaxVersions /\ found[m].card.version <= card.version
  BY <1>1, DraftParts DEF NoNewer, Drafts!AnyCard, Drafts!Versions
<1>3. CASE found[m].card.version < stamp
  <2>1. PICK x \in {"handing", "done"} : Turns(m, x, found[m])
    BY <1>3, DraftParts DEF Drafts!Now, Drafts!After, Turns
  <2>2. x \in DraftSteps /\ x \notin Settling BY DEF DraftSteps, Settling
  <2>3. UNCHANGED <<card, stamp, keeper, unshown, cardState, pointer, thread, block, astray, blinks, goneOnce>>
    BY <1>3
  <2>. QED BY <1>1, <2>1, <2>2, <2>3, DraftParts, TurnsOnly
<1>4. CASE ~(found[m].card.version < stamp)
  <2>1. Turns(m, "showing", found[m]) /\ "showing" \in DraftSteps
    BY <1>4, DraftParts DEF Drafts!Now, Turns, DraftSteps, Syncing
  <2>2. /\ where'[m] = "showing" /\ found'[m] = found[m] /\ found' = found
        /\ where' \in [Drafts!Mirrors -> DraftSteps]
        /\ \A n \in Drafts!Mirrors \ {m} : where'[n] = where[n] /\ found'[n] = found[n]
    BY <2>1, MirrorTurns, DraftParts
  <2>3. /\ cardState' = "open" /\ stamp' = found[m].card.version /\ keeper' = m
        /\ astray' = (astray \/ cardState = "archived")
        /\ UNCHANGED <<card, pointer, thread, block, goneOnce, found, unshown, blinks>>
    BY <1>4
  <2>. HIDE DEF Drafts!SyncRow
  <2>4. DraftThings'
    <3>1. stamp' \in 0 .. MaxVersions BY <1>2, <2>3
    <3>2. astray' \in BOOLEAN BY <2>3, DraftParts DEF DraftThings
    <3>. QED BY <2>3, <3>1, <3>2, DraftParts DEF DraftThings, RowStates
  <2>5. DraftsAt' BY <1>1, <2>2, <2>3, DraftParts DEF DraftsAt, Settling, Syncing
  <2>6. NothingNewer' BY <1>2, <2>3, DraftParts DEF NothingNewer
  <2>7. ShowsOrWill'
    <3>1. \A n \in Drafts!Mirrors : where'[n] = "showing" => n = m BY <1>1, <2>2, DraftParts DEF DraftsAt
    <3>. QED BY <2>2, <2>3, <3>1 DEF ShowsOrWill
  <2>8. LockIsTheRows'
    <3>1. AtItsThread' <=> AtItsThread /\ m # Polling
      <4>1. CASE m = Polling BY <2>2, <4>1 DEF AtItsThread, Settling
      <4>2. CASE m # Polling BY <2>2, <2>3, <4>2 DEF AtItsThread
      <4>. QED BY <4>1, <4>2
    <3>2. AtItsThread => m # Polling BY <1>1 DEF AtItsThread, Settling
    <3>3. AtItsThread => where'[Polling] = where[Polling] BY <2>2, <3>2
    <3>. QED BY <2>3, <3>1, <3>2, <3>3, DraftParts DEF LockIsTheRows
  <2>9. DeniedTwice' BY <2>3, DraftParts DEF DeniedTwice, Drafts!LetGoForAReason, Drafts!Exists
  <2>. QED BY <2>4, <2>5, <2>6, <2>7, <2>8, <2>9 DEF DraftsInv
<1>. QED BY <1>3, <1>4

\* A sync that has the lock lets go of it, having written the thread or been refused.
LEMMA LetsGoOfRow ==
  ASSUME DraftsInv, NEW m \in Drafts!Mirrors, where[m] = "showing", keeper' = NULL,
         NEW x \in {"handing", "done", "forgetting"}, Drafts!Now(m, x), found' \in {found, Drafts!Replaced},
         UNCHANGED <<card, cardState, stamp, goneOnce, unshown, astray, blinks>>,
         \/ pointer' = pointer /\ thread' = thread
         \/ /\ pointer' = "live"
            /\ thread' = (IF pointer = "live" THEN thread ELSE "open") /\ found' = Drafts!Replaced,
         block' \in {block, 0, found[m].card.version},
         x = "forgetting" \/ block' = found[m].card.version
  PROVE  DraftsInv'
<1>. USE DraftSorts
<1>1. found[m].card \in Drafts!AnyCard /\ found[m].card # NULL BY DraftParts DEF DraftsAt, Syncing
<1>2. found[m].card.version \in 1 .. MaxVersions /\ found[m].card.version <= card.version
  BY <1>1, DraftParts DEF NoNewer, Drafts!AnyCard, Drafts!Versions
<1>3. /\ where' \in [Drafts!Mirrors -> DraftSteps] /\ where'[m] = x
      /\ \A n \in Drafts!Mirrors \ {m} : where'[n] = where[n]
  <2>1. x \in DraftSteps BY DEF DraftSteps, Syncing
  <2>. QED BY <2>1, DraftParts DEF Drafts!Now
<1>4. /\ found' \in [Drafts!Mirrors -> FoundKind]
      /\ \A n \in Drafts!Mirrors : /\ found'[n].card = found[n].card /\ found'[n].stored = found[n].stored
                                   /\ found'[n].pointer = "live" <=> found[n].pointer = "live"
  <2>1. CASE found' = found BY <2>1, DraftParts
  <2>2. CASE found' = Drafts!Replaced
    <3>. DEFINE f == [found[Polling] EXCEPT !.pointer = IF @ = "dead" THEN "former" ELSE @]
    <3>1. found[Polling] \in FoundKind BY DraftParts
    <3>2. /\ f \in FoundKind /\ f.card = found[Polling].card /\ f.stored = found[Polling].stored
          /\ f.pointer = "live" <=> found[Polling].pointer = "live"
      BY <3>1 DEF FoundKind
    <3>3. found' = [found EXCEPT ![Polling] = f] BY <2>2 DEF Drafts!Replaced
    <3>. HIDE DEF f
    <3>. QED BY <3>2, <3>3, DraftParts
  <2>. QED BY <2>1, <2>2
<1>5. DraftThings'
  <2>1. block' \in 0 .. MaxVersions
    <3>1. {block, 0, found[m].card.version} \subseteq 0 .. MaxVersions BY <1>2, DraftParts DEF DraftThings
    <3>. QED BY <3>1
  <2>2. /\ pointer' \in {"none", "live", "dead"} /\ thread' \in {"none", "open", "locked"}
        /\ pointer' = "live" <=> thread' # "none" BY DraftParts DEF DraftThings
  <2>. QED BY <2>1, <2>2, DraftParts DEF DraftThings
<1>6. DraftsAt' BY <1>3, <1>4, DraftParts DEF DraftsAt, Settling, Syncing
<1>7. NothingNewer'
  <2>1. block' <= card.version
    <3>1. block <= card.version /\ 0 <= card.version BY DraftParts DEF NothingNewer
    <3>. QED BY <1>2, <3>1
  <2>. QED BY <1>4, <2>1, DraftParts DEF NothingNewer
<1>8. ShowsOrWill'
  <2>1. \A n \in Drafts!Mirrors : where'[n] # "showing" BY <1>3, DraftParts DEF DraftsAt
  <2>2. stamp = card.version => unshown \/ found[m].card.version = card.version BY DraftParts DEF ShowsOrWill
  <2>. QED BY <1>3, <2>1, <2>2 DEF ShowsOrWill
<1>9. LockIsTheRows'
  <2>1. \A n \in Drafts!Mirrors : where'[n] # "showing" BY <1>3, DraftParts DEF DraftsAt
  <2>2. AtItsThread' => AtItsThread /\ where'[Polling] = where[Polling]
    <3>1. CASE m = Polling BY <1>3, <3>1 DEF AtItsThread, Settling
    <3>2. CASE m # Polling BY <1>3, <1>4, <3>2, DraftParts DEF AtItsThread
    <3>. QED BY <3>1, <3>2
  <2>3. AtItsThread => AtItsThread' /\ where'[Polling] = where[Polling]
    <3>1. AtItsThread => m # Polling BY DEF AtItsThread, Settling
    <3>. QED BY <1>3, <1>4, <3>1, DraftParts DEF AtItsThread
  <2>4. AtItsThread => pointer' = "live" /\ thread' = thread BY DraftParts DEF LockIsTheRows
  <2>5. astray \/ cardState # "archived" BY DraftParts DEF LockIsTheRows
  <2>6. pointer' = "live" =>
           \/ astray \/ (thread' = "locked" <=> cardState = "archived")
           \/ AtItsThread /\ where[Polling] \in {"shut", "reopened"}
    BY <2>5, DraftParts DEF LockIsTheRows
  <2>. QED BY <2>1, <2>2, <2>3, <2>4, <2>6, DraftParts DEF LockIsTheRows
<1>10. DeniedTwice' BY DraftParts DEF DeniedTwice, Drafts!LetGoForAReason, Drafts!Exists
<1>. QED BY <1>5, <1>6, <1>7, <1>8, <1>9, <1>10 DEF DraftsInv

LEMMA ThreadSynced ==
  ASSUME DraftsInv, NEW m \in Drafts!Mirrors, Drafts!SyncThread(m) \/ Drafts!SyncRefused(m) PROVE DraftsInv'
<1>. USE DEF Drafts!github, Drafts!notes, Drafts!discord, Drafts!Listed
<1>1. CASE Drafts!SyncThread(m)
  <2>1. PICK x \in {"handing", "done"} : Drafts!Now(m, x) BY <1>1 DEF Drafts!SyncThread, Drafts!After
  <2>. QED BY <1>1, <2>1, LetsGoOfRow DEF Drafts!SyncThread
<1>2. CASE Drafts!SyncRefused(m) BY <1>2, LetsGoOfRow DEF Drafts!SyncRefused
<1>. QED BY <1>1, <1>2

LEMMA MirrorForgotten == ASSUME DraftsInv, NEW m \in Drafts!Mirrors, Drafts!Forget(m) PROVE DraftsInv'
<1>. USE DraftSorts DEF Drafts!Forget, Drafts!github, Drafts!discord, Drafts!Listed, Drafts!Forgotten
<1>1. where[m] = "forgetting" /\ found[m].card \in Drafts!AnyCard /\ found[m].card # NULL
  BY DraftParts DEF DraftsAt, Syncing
<1>2. found[m].card.version \in Nat /\ found[m].card.version <= card.version
  BY <1>1, DraftParts DEF NoNewer, Drafts!AnyCard, Drafts!Versions
<1>3. found[m].stored \in 0 .. MaxVersions /\ found[m].stored <= card.version
  <2>1. found[m] \in FoundKind BY DraftParts
  <2>. QED BY <2>1, DraftParts DEF FoundKind, NoNewer
<1>4. PICK x \in {"handing", "done"} : Drafts!Now(m, x) BY DEF Drafts!After
<1>5. /\ where' \in [Drafts!Mirrors -> DraftSteps] /\ where'[m] = x
      /\ \A n \in Drafts!Mirrors \ {m} : where'[n] = where[n]
  <2>1. x \in DraftSteps BY DEF DraftSteps
  <2>. QED BY <1>4, <2>1, DraftParts DEF Drafts!Now
<1>6. /\ stamp' = found[m].stored /\ unshown' = (unshown \/ found[m].stored >= found[m].card.version)
      /\ UNCHANGED <<card, cardState, pointer, thread, block, keeper, goneOnce, found, astray, blinks>>
  OBVIOUS
<1>. HIDE DEF Drafts!Forget
<1>7. unshown' \/ stamp' # card.version
  <2>1. found[m].stored \in Nat /\ card.version \in Nat BY <1>3, DraftParts
  <2>2. found[m].stored = card.version => found[m].stored >= found[m].card.version BY <1>2, <2>1
  <2>3. CASE found[m].stored >= found[m].card.version
    <3>1. unshown' = TRUE BY <1>6, <2>3
    <3>. QED BY <3>1
  <2>4. CASE ~(found[m].stored >= found[m].card.version) BY <1>6, <2>2, <2>4
  <2>. QED BY <2>3, <2>4
<1>8. DraftThings'
  <2>1. unshown' \in BOOLEAN BY <1>6, DraftParts DEF DraftThings
  <2>. QED BY <1>3, <1>6, <2>1, DraftParts DEF DraftThings
<1>9. DraftsAt' BY <1>1, <1>5, <1>6, DraftParts DEF DraftsAt, Settling, Syncing
<1>10. NothingNewer' BY <1>3, <1>6, DraftParts DEF NothingNewer
<1>11. ShowsOrWill'
  <2>1. unshown' \/ stamp' # card'.version BY <1>6, <1>7
  <2>. QED BY <2>1 DEF ShowsOrWill
<1>12. LockIsTheRows'
  <2>1. AtItsThread' <=> AtItsThread BY <1>1, <1>5, <1>6 DEF AtItsThread, Settling
  <2>2. AtItsThread => where'[Polling] = where[Polling] BY <1>1, <1>5, DraftParts DEF AtItsThread, Settling
  <2>. QED BY <1>5, <1>6, <2>1, <2>2, DraftParts DEF LockIsTheRows
<1>13. DeniedTwice' BY <1>6, DraftParts DEF DeniedTwice, Drafts!LetGoForAReason, Drafts!Exists
<1>. QED BY <1>8, <1>9, <1>10, <1>11, <1>12, <1>13 DEF DraftsInv

LEMMA CardChanges ==
  ASSUME DraftsInv, UNCHANGED <<cardState, stamp, pointer, thread, block, keeper, goneOnce, where, found,
                                unshown, astray, blinks>>,
         card' \in Drafts!AnyCard, card'.version >= card.version,
         Drafts!Exists' => Drafts!Exists
  PROVE  DraftsInv'
<1>. USE DraftParts
<1>1. card.version \in Nat /\ card'.version \in Nat BY DEF Drafts!AnyCard, Drafts!Versions
<1>2. DraftThings' /\ DraftsAt' /\ LockIsTheRows' BY DEF DraftThings, DraftsAt, LockIsTheRows, AtItsThread
<1>3. NothingNewer'
  <2>1. \A m \in Drafts!Mirrors :
           /\ found[m].stored \in Nat
           /\ found[m].card # NULL => found[m].card.version \in Nat
    BY DEF FoundKind, Drafts!AnyCard, Drafts!Versions
  <2>2. stamp \in Nat /\ block \in Nat BY DEF DraftThings
  <2>. QED BY <1>1, <2>1, <2>2 DEF NothingNewer
<1>4. ShowsOrWill'
  <2>1. stamp = card'.version => card'.version = card.version
    <3>1. stamp <= card.version /\ stamp \in Nat BY DEF NothingNewer, DraftThings
    <3>. QED BY <1>1, <3>1
  <2>. QED BY <2>1 DEF ShowsOrWill
<1>5. DeniedTwice' BY DEF DeniedTwice, Drafts!LetGoForAReason
<1>. QED BY <1>2, <1>3, <1>4, <1>5 DEF DraftsInv

LEMMA HubChanges ==
  DraftsInv /\ (Drafts!Edit \/ Drafts!Change \/ Drafts!LoseAccess \/ Drafts!RegainAccess) => DraftsInv'
<1>. SUFFICES ASSUME DraftsInv, Drafts!Edit \/ Drafts!Change \/ Drafts!LoseAccess \/ Drafts!RegainAccess
              PROVE  DraftsInv' OBVIOUS
<1>. USE DraftSorts DEF Drafts!Edit, Drafts!Change, Drafts!LoseAccess, Drafts!RegainAccess, Drafts!theRow,
                        Drafts!discord, Drafts!notes
<1>1. card \in Drafts!AnyCard /\ card.version \in 1 .. MaxVersions
  BY DraftParts DEF Drafts!AnyCard, Drafts!Versions
<1>2. card' \in Drafts!AnyCard /\ card'.version >= card.version /\ (Drafts!Exists' => Drafts!Exists)
  <2>1. CASE Drafts!Edit
    <3>1. card.version + 1 \in 1 .. MaxVersions BY <1>1, <2>1
    <3>. QED BY <1>1, <2>1, <3>1 DEF Drafts!AnyCard, Drafts!Versions, Drafts!Exists
  <2>2. CASE Drafts!Change
    <3>1. card.version >= card.version BY <1>1
    <3>2. CASE card' = [card EXCEPT !.archived = ~@]
      <4>1. [card EXCEPT !.archived = ~@] \in Drafts!AnyCard BY <1>1 DEF Drafts!AnyCard
      <4>2. card'.version = card.version /\ card'.kind = card.kind BY <1>1, <3>2 DEF Drafts!AnyCard
      <4>. QED BY <3>1, <3>2, <4>1, <4>2 DEF Drafts!Exists
    <3>3. CASE \E k \in {"issue", "deleted"} : card' = [card EXCEPT !.kind = k] /\ Drafts!Exists
      BY <1>1, <3>1, <3>3 DEF Drafts!AnyCard
    <3>. QED BY <2>2, <3>2, <3>3
  <2>3. CASE Drafts!LoseAccess \/ Drafts!RegainAccess BY <1>1, <2>3 DEF Drafts!Exists
  <2>. QED BY <2>1, <2>2, <2>3
<1>. QED BY <1>2, CardChanges

LEMMA ThreadDeleted == DraftsInv /\ Drafts!DeleteThread => DraftsInv'
<1>. SUFFICES ASSUME DraftsInv, Drafts!DeleteThread PROVE DraftsInv' OBVIOUS
<1>. USE DraftSorts DEF Drafts!DeleteThread, Drafts!github, Drafts!notes
<1>1. /\ thread' = "none" /\ block' = 0 /\ pointer' \in {"none", "dead"}
      /\ UNCHANGED <<card, cardState, stamp, keeper, goneOnce, where, unshown, astray, blinks>>
      /\ found' = [m \in Drafts!Mirrors |-> [found[m] EXCEPT !.pointer = IF @ = "live" THEN "dead" ELSE @]]
  OBVIOUS
<1>. HIDE DEF Drafts!DeleteThread
<1>2. \A m \in Drafts!Mirrors :
         /\ found'[m] \in FoundKind /\ found'[m].card = found[m].card
         /\ found'[m].stored = found[m].stored /\ found'[m].pointer # "live"
  <2>. SUFFICES ASSUME NEW m \in Drafts!Mirrors
                PROVE  /\ found'[m] \in FoundKind /\ found'[m].card = found[m].card
                       /\ found'[m].stored = found[m].stored /\ found'[m].pointer # "live"
    OBVIOUS
  <2>1. found[m] \in FoundKind BY DraftParts
  <2>2. found'[m] = [found[m] EXCEPT !.pointer = IF @ = "live" THEN "dead" ELSE @] BY <1>1
  <2>. QED BY <2>1, <2>2 DEF FoundKind
<1>3. found' \in [Drafts!Mirrors -> FoundKind] BY <1>1, <1>2
<1>4. DraftThings'
  <2>1. 0 \in 0 .. MaxVersions OBVIOUS
  <2>. QED BY <1>1, <2>1, DraftParts DEF DraftThings
<1>5. DraftsAt' BY <1>1, <1>2, <1>3, DraftParts DEF DraftsAt
<1>6. NothingNewer'
  <2>1. 0 <= card.version BY DraftParts
  <2>. QED BY <1>1, <1>2, <2>1, DraftParts DEF NothingNewer
<1>7. ShowsOrWill' BY <1>1, <1>2, DraftParts DEF ShowsOrWill
<1>8. LockIsTheRows' BY <1>1, <1>2, DraftParts DEF LockIsTheRows, AtItsThread
<1>9. DeniedTwice' BY <1>1, DraftParts DEF DeniedTwice, Drafts!LetGoForAReason, Drafts!Exists
<1>. QED BY <1>4, <1>5, <1>6, <1>7, <1>8, <1>9 DEF DraftsInv

LEMMA MirrorsStop == DraftsInv /\ Drafts!Stop => DraftsInv'
<1>. SUFFICES ASSUME DraftsInv, Drafts!Stop PROVE DraftsInv' OBVIOUS
<1>. USE DraftSorts DEF Drafts!Stop, Drafts!github, Drafts!theRow, Drafts!discord
<1>1. /\ where' = [m \in Drafts!Mirrors |-> "idle"] /\ found' = [m \in Drafts!Mirrors |-> Drafts!Nothing]
      /\ keeper' = NULL /\ goneOnce' = FALSE
      /\ unshown' = (unshown \/ \E m \in Drafts!Mirrors : where[m] \in {"showing", "forgetting"})
      /\ astray' = (astray \/ where[Polling] \in {"shut", "reopened"})
      /\ UNCHANGED <<card, cardState, stamp, pointer, thread, block, blinks>>
  OBVIOUS
<1>. HIDE DEF Drafts!Stop
<1>2. \A m \in Drafts!Mirrors : where'[m] = "idle" /\ found'[m] = Drafts!Nothing BY <1>1
<1>3. unshown' \in BOOLEAN /\ astray' \in BOOLEAN BY <1>1, DraftParts DEF DraftThings
<1>4. DraftThings' BY <1>1, <1>3, DraftParts DEF DraftThings
<1>5. DraftsAt' BY <1>1, <1>2, NothingFound DEF DraftsAt, DraftSteps, Settling, Syncing
<1>6. NothingNewer'
  <2>1. NoNewer(Drafts!Nothing) BY NothingFound
  <2>. QED BY <1>1, <1>2, <2>1, DraftParts DEF NothingNewer, NoNewer
<1>7. ShowsOrWill'
  <2>1. unshown \/ (\E m \in Drafts!Mirrors : where[m] \in {"showing", "forgetting"}) => unshown' BY <1>1
  <2>2. pointer = "live" /\ stamp = card.version => unshown' \/ block = card.version
    BY <2>1, DraftParts DEF ShowsOrWill
  <2>. QED BY <1>1, <1>2, <2>2 DEF ShowsOrWill
<1>8. LockIsTheRows'
  <2>1. astray \/ where[Polling] \in {"shut", "reopened"} => astray' BY <1>1
  <2>2. pointer = "live" => astray' \/ (thread = "locked" <=> cardState = "archived")
    BY <2>1, DraftParts DEF LockIsTheRows
  <2>3. ~AtItsThread' BY <1>2, DraftParts DEF AtItsThread, Settling
  <2>. QED BY <1>1, <1>2, <2>2, <2>3 DEF LockIsTheRows
<1>9. DeniedTwice' BY <1>1, DraftParts DEF DeniedTwice, Drafts!LetGoForAReason, Drafts!Exists
<1>. QED BY <1>4, <1>5, <1>6, <1>7, <1>8, <1>9 DEF DraftsInv

LEMMA DraftsStep == DraftsInv /\ Drafts!Next => DraftsInv'
<1>. SUFFICES ASSUME DraftsInv, Drafts!Next PROVE DraftsInv' OBVIOUS
<1>1. CASE Drafts!Edit \/ Drafts!Change \/ Drafts!LoseAccess \/ Drafts!RegainAccess BY <1>1, HubChanges
<1>2. CASE Drafts!DeleteThread BY <1>2, ThreadDeleted
<1>3. CASE Drafts!Pass
  BY <1>3, ListDrafts, SettleDrafts, SettlesNothing, ShutsOrOpens, ShutsGone, ShutIsRefused, RecordDraft,
    AskOnce, DeniedCard, MirrorDraft, HandsOver DEF Drafts!Pass
<1>4. CASE Drafts!Refresh \/ Drafts!RefreshEnds BY <1>4, RefreshDraft
<1>5. CASE Drafts!Stop BY <1>5, MirrorsStop
<1>6. ASSUME NEW m \in Drafts!Mirrors, Drafts!Sync(m) PROVE DraftsInv'
  BY <1>6, RowSynced, ThreadSynced, MirrorForgotten DEF Drafts!Sync
<1>. QED BY <1>1, <1>2, <1>3, <1>4, <1>5, <1>6 DEF Drafts!Next

----
\* Redraws.  While a thread is at hand nobody else sees to its item, so
\* what the run found it like is enough to put it back; and a redraw goes
\* behind every issue that waits while it is made.

HandSteps  == {"ask", "unlock", "tell", "write", "again"}
ListedRow  == [issue : Issues, version : Nat]
SweepKind  == [step : HandSteps \cup {"idle", "listed", "next"}, found : SUBSET ListedRow,
               left : Seq(ListedRow), time : 0..PerRun, archived : BOOLEAN, kept : BOOLEAN]
ThreadKind == [block : Nat, archived : BOOLEAN, locked : BOOLEAN]

\* The issue at hand.
Tended(i) == sweep.step \in HandSteps /\ sweep.left[1].issue = i

RedrawKinds ==
    /\ story \in [Issues -> Seq(BOOLEAN)] /\ due \in [Issues -> SUBSET Nat]
    /\ stored \in [Issues -> Nat] /\ noted \in [Issues -> BOOLEAN]
    /\ older \subseteq Issues \X Issues
    /\ shows \in [Issues -> ThreadKind \cup {NULL}]
    /\ sweep \in SweepKind
    /\ lively \in SUBSET Issues /\ excused \in SUBSET Issues /\ half \in SUBSET Issues
    /\ passed \in [Issues -> SUBSET Issues] /\ skipped \in BOOLEAN
    /\ counted \in [Issues -> Nat]

IsVersion(i, v) == v \in 1..Len(story[i])
VersionsAre ==
    \A i \in Issues :
        /\ IsVersion(i, stored[i]) /\ \A v \in due[i] : IsVersion(i, v)
        /\ shows[i] # NULL => IsVersion(i, shows[i].block)

\* What was listed, and what is left of it, names an issue once.
SweepIs ==
    /\ IsFiniteSet(sweep.found)
    /\ \A row \in sweep.found : IsVersion(row.issue, row.version)
    /\ \A a, b \in sweep.found : a.issue = b.issue => a = b
    /\ \A k \in 1..Len(sweep.left) : IsVersion(sweep.left[k].issue, sweep.left[k].version)
    /\ \A k, l \in 1..Len(sweep.left) : k < l => sweep.left[k].issue # sweep.left[l].issue
    /\ sweep.step \in HandSteps =>
           /\ sweep.left # <<>> /\ sweep.left[1].version = stored[sweep.left[1].issue]
           /\ sweep.time > 0
    /\ sweep.step \in {"next", "ask"} => ~sweep.kept

\* A thread at hand was found as the run says, and has been woken or given back since.
Rests(i) == (shows[i].archived = (i \notin lively)) \/ i \in excused
WokenSo(i) ==
    /\ sweep.kept => ~shows[i].archived /\ i \in lively
    /\ ~sweep.kept /\ ~sweep.archived => ~shows[i].archived
    /\ ~sweep.kept /\ ~shows[i].locked => (sweep.archived = (i \notin lively)) \/ i \in excused
    /\ sweep.step = "unlock" => ~sweep.kept
    /\ sweep.step = "tell" => ~shows[i].locked
FoundSo(i) ==
    shows[i] # NULL =>
        /\ shows[i].locked => noted[i]
        /\ ~Tended(i) \/ sweep.step = "ask" => shows[i].locked \/ Rests(i)
        /\ Tended(i) /\ sweep.step # "ask" => WokenSo(i)
ThreadsFound == \A i \in Issues : FoundSo(i)

\* What was redrawn while an issue waited was written after it.
BehindIt(i) == \A j \in passed[i] : <<i, j>> \in older /\ <<j, i>> \notin older
TurnsKept ==
    /\ ~skipped
    /\ \A i \in Issues : BehindIt(i) /\ (Tended(i) => passed[i] = {})
    /\ \A k, l \in 1..Len(sweep.left) :
           k < l /\ (sweep.step = "next" \/ k > 1) =>
               sweep.left[k].issue \notin passed[sweep.left[l].issue]

\* The block is the row's, or who is to write it is owed or half done.
ShowsIt(i) ==
    /\ counted[i] <= stored[i]
    /\ \/ i \in half \/ shows[i] = NULL \/ shows[i].block >= stored[i]
       \/ stored[i] \in due[i] /\ counted[i] < stored[i]
RowsShown == \A i \in Issues : ShowsIt(i)

RedrawInv == RedrawKinds /\ VersionsAre /\ SweepIs /\ ThreadsFound /\ TurnsKept /\ RowsShown

LEMMA RedrawSorts ==
  /\ IsFiniteSet(Issues) /\ Issues \subseteq Nat /\ NULL \notin Nat /\ PerRun \in Nat \ {0}
  BY PartsAssumption DEF Redraw!RedrawsAssumption, Redraw!IsFiniteSet, IsFiniteSet

LEMMA HeadIs ==
  ASSUME RedrawKinds, sweep.left # <<>>
  PROVE  /\ Redraw!Issue = sweep.left[1].issue /\ Redraw!Version = sweep.left[1].version
         /\ sweep.left[1] \in ListedRow /\ sweep.left[1].issue \in Issues
         /\ 1 \in 1..Len(sweep.left)
<1>1. sweep.left \in Seq(ListedRow) BY DEF RedrawKinds, SweepKind
<1>2. 1 \in 1..Len(sweep.left) /\ Head(sweep.left) = sweep.left[1] /\ sweep.left[1] \in ListedRow BY <1>1
<1>. QED BY <1>2 DEF ListedRow, Redraw!Issue, Redraw!Version

LEMMA HandIs ==
  ASSUME RedrawInv, NEW i \in Issues PROVE Redraw!AtHand(i) <=> Tended(i)
  BY HeadIs DEF RedrawInv, SweepIs, Redraw!AtHand, Tended, HandSteps, Redraw!Issue

LEMMA RedrawInit == Redraw!Init => RedrawInv
<1>. SUFFICES ASSUME Redraw!Init PROVE RedrawInv OBVIOUS
<1>. USE RedrawSorts DEF Redraw!Init, Redraw!Idle, Redraw!Opened
<1>1. PICK quiet \in SUBSET Issues :
         /\ shows = [i \in Issues |-> [block |-> 1, archived |-> i \in quiet, locked |-> FALSE]]
         /\ lively = Issues \ quiet OBVIOUS
<1>2. \A i \in Issues : /\ shows[i] \in ThreadKind /\ shows[i].block = 1 /\ ~shows[i].locked
                        /\ shows[i].archived <=> i \in quiet
  BY <1>1 DEF ThreadKind
<1>3. /\ sweep = [step |-> "idle", found |-> {}, left |-> <<>>, time |-> 0, archived |-> FALSE,
                  kept |-> FALSE]
      /\ sweep \in SweepKind BY DEF SweepKind
<1>4. RedrawKinds
  <2>1. shows \in [Issues -> ThreadKind \cup {NULL}] BY <1>1, <1>2
  <2>2. story \in [Issues -> Seq(BOOLEAN)]
    <3>1. <<FALSE>> \in Seq(BOOLEAN) OBVIOUS
    <3>. QED BY <3>1
  <2>3. lively \in SUBSET Issues /\ excused \in SUBSET Issues /\ half \in SUBSET Issues BY <1>1
  <2>. QED BY <1>3, <2>1, <2>2, <2>3 DEF RedrawKinds
<1>5. VersionsAre BY <1>2 DEF VersionsAre, IsVersion
<1>6. SweepIs BY <1>3, FS_EmptySet DEF SweepIs, HandSteps
<1>7. ThreadsFound
  <2>. SUFFICES ASSUME NEW i \in Issues PROVE FoundSo(i) BY DEF ThreadsFound
  <2>1. ~shows[i].locked /\ (shows[i].archived <=> i \notin lively) /\ ~Tended(i)
    BY <1>1, <1>2, <1>3 DEF Tended, HandSteps
  <2>. QED BY <2>1, <1>2 DEF FoundSo, Rests, ThreadKind
<1>8. TurnsKept BY <1>3 DEF TurnsKept, BehindIt, Tended, HandSteps
<1>9. RowsShown BY <1>2 DEF RowsShown, ShowsIt
<1>. QED BY <1>4, <1>5, <1>6, <1>7, <1>8, <1>9 DEF RedrawInv

LEMMA RedrawsAre == RedrawInv => /\ Redraw!TypeOK /\ Redraw!LeftAsFound
                                 /\ Redraw!EachInItsTurn /\ Redraw!ShownAsListed
<1>. SUFFICES ASSUME RedrawInv
              PROVE  /\ Redraw!TypeOK /\ Redraw!LeftAsFound
                     /\ Redraw!EachInItsTurn /\ Redraw!ShownAsListed OBVIOUS
<1>1. Redraw!TypeOK
  BY RedrawSorts DEF RedrawInv, RedrawKinds, VersionsAre, IsVersion, SweepKind, HandSteps, ThreadKind,
    Redraw!TypeOK, Redraw!Latest
<1>2. Redraw!LeftAsFound
  <2>1. sweep = Redraw!Idle => sweep.step = "idle" BY DEF Redraw!Idle
  <2>. QED BY <2>1 DEF RedrawInv, ThreadsFound, FoundSo, Rests, Tended, HandSteps, Redraw!LeftAsFound
<1>3. Redraw!EachInItsTurn BY DEF RedrawInv, TurnsKept, Redraw!EachInItsTurn
<1>4. Redraw!ShownAsListed
  <2>. SUFFICES ASSUME NEW i \in Issues, shows[i] # NULL, i \notin half
                PROVE  shows[i].block >= counted[i] \/ \E v \in due[i] : v > counted[i]
    BY DEF Redraw!ShownAsListed
  <2>1. ShowsIt(i) /\ counted[i] \in Nat /\ stored[i] \in Nat /\ shows[i].block \in Nat
    BY DEF RedrawInv, RedrawKinds, ThreadKind, RowsShown
  <2>. QED BY <2>1 DEF ShowsIt
<1>. QED BY <1>1, <1>2, <1>3, <1>4

----
\* What each part of the invariant asks of a step that is about one issue.

LEMMA RedrawParts ==
  ASSUME RedrawInv
  PROVE  /\ story \in [Issues -> Seq(BOOLEAN)] /\ due \in [Issues -> SUBSET Nat]
         /\ stored \in [Issues -> Nat] /\ noted \in [Issues -> BOOLEAN]
         /\ older \subseteq Issues \X Issues
         /\ shows \in [Issues -> ThreadKind \cup {NULL}]
         /\ sweep \in SweepKind
         /\ lively \in SUBSET Issues /\ excused \in SUBSET Issues /\ half \in SUBSET Issues
         /\ passed \in [Issues -> SUBSET Issues] /\ skipped \in BOOLEAN
         /\ counted \in [Issues -> Nat]
         /\ VersionsAre /\ SweepIs /\ ThreadsFound /\ TurnsKept /\ RowsShown
  BY DEF RedrawInv, RedrawKinds

\* The versions there are grow.
Grows == \A j \in Issues, v \in Nat : v \in 1..Len(story[j]) => v \in 1..Len(story'[j])

LEMMA VersionsKept ==
  ASSUME RedrawInv, Grows, NEW i \in Issues,
         \A j \in Issues \ {i} : /\ stored'[j] = stored[j] /\ due'[j] = due[j]
                                 /\ shows'[j] = shows[j],
         stored'[i] \in 1..Len(story'[i]), \A v \in due'[i] : v \in 1..Len(story'[i]),
         shows'[i] # NULL => shows'[i].block \in 1..Len(story'[i])
  PROVE  VersionsAre'
<1>. SUFFICES ASSUME NEW j \in Issues
              PROVE  /\ stored'[j] \in 1..Len(story'[j])
                     /\ \A v \in due'[j] : v \in 1..Len(story'[j])
                     /\ shows'[j] # NULL => shows'[j].block \in 1..Len(story'[j])
  BY DEF VersionsAre, IsVersion
<1>1. CASE j = i BY <1>1
<1>2. CASE j # i
  <2>1. /\ stored[j] \in 1..Len(story[j]) /\ \A v \in due[j] : v \in 1..Len(story[j])
        /\ shows[j] # NULL => shows[j].block \in 1..Len(story[j])
        /\ stored[j] \in Nat /\ \A v \in due[j] : v \in Nat
        /\ shows[j] # NULL => shows[j].block \in Nat
    BY RedrawParts DEF VersionsAre, IsVersion, ThreadKind
  <2>. QED BY <1>2, <2>1 DEF Grows
<1>. QED BY <1>1, <1>2

\* What is left to redraw stays, but for what is known of the thread at hand.
LEMMA SweepKept ==
  ASSUME RedrawInv, Grows, sweep' \in SweepKind, sweep'.left = sweep.left,
         sweep'.found = sweep.found,
         sweep'.step \in HandSteps =>
             /\ sweep.left # <<>> /\ sweep.left[1].version = stored'[sweep.left[1].issue]
             /\ sweep'.time > 0,
         sweep'.step \in {"next", "ask"} => ~sweep'.kept
  PROVE  SweepIs'
<1>1. /\ sweep.left \in Seq(ListedRow) /\ sweep.found \in SUBSET ListedRow
      /\ \A row \in ListedRow : row.issue \in Issues /\ row.version \in Nat
  BY RedrawParts DEF SweepKind, ListedRow
<1>2. \A k \in 1..Len(sweep.left) : sweep.left[k] \in ListedRow BY <1>1
<1>3. \A k \in 1..Len(sweep.left) : sweep.left[k].version \in 1..Len(story'[sweep.left[k].issue])
  BY <1>1, <1>2, RedrawParts DEF SweepIs, IsVersion, Grows
<1>4. \A row \in sweep.found : row.version \in 1..Len(story'[row.issue])
  BY <1>1, RedrawParts DEF SweepIs, IsVersion, Grows
<1>. QED BY <1>3, <1>4, RedrawParts DEF SweepIs, IsVersion

LEMMA FoundKept ==
  ASSUME RedrawInv, NEW i \in Issues, FoundSo(i)',
         \A j \in Issues \ {i} :
             /\ shows'[j] = shows[j] /\ noted'[j] = noted[j]
             /\ j \in lively' <=> j \in lively
             /\ j \in excused' <=> j \in excused,
         UNCHANGED sweep \/ \A j \in Issues \ {i} : ~Tended(j) /\ ~Tended(j)'
  PROVE  ThreadsFound'
<1>. SUFFICES ASSUME NEW j \in Issues, j # i PROVE FoundSo(j)' BY DEF ThreadsFound
<1>1. FoundSo(j) BY RedrawParts DEF ThreadsFound
<1>2. CASE UNCHANGED sweep BY <1>1, <1>2 DEF FoundSo, WokenSo, Rests, Tended
<1>3. CASE ~Tended(j) /\ ~Tended(j)'
  <2>1. shows[j] # NULL => (shows[j].locked => noted[j]) /\ (shows[j].locked \/ Rests(j))
    BY <1>1, <1>3 DEF FoundSo
  <2>. QED BY <1>3, <2>1 DEF FoundSo, Rests
<1>. QED BY <1>2, <1>3

LEMMA RowsKept ==
  ASSUME RedrawInv, NEW i \in Issues, ShowsIt(i)',
         \A j \in Issues \ {i} :
             /\ shows'[j] = shows[j] /\ stored'[j] = stored[j] /\ due'[j] = due[j]
             /\ counted'[j] = counted[j] /\ (j \in half' <=> j \in half)
  PROVE  RowsShown'
<1>. SUFFICES ASSUME NEW j \in Issues, j # i PROVE ShowsIt(j)' BY DEF RowsShown
<1>1. ShowsIt(j) BY RedrawParts DEF RowsShown
<1>. QED BY <1>1 DEF ShowsIt

LEMMA WrittenLast ==
  ASSUME RedrawInv, NEW i \in Issues, older' = Redraw!ToTheBack(i), passed'[i] = {},
         \A j \in Issues : passed'[j] \subseteq passed[j] \cup {i}
  PROVE  /\ \A j \in Issues : BehindIt(j)'
         /\ older' \subseteq Issues \X Issues
<1>1. older' = {pair \in older : pair[1] # i} \cup ((Issues \ {i}) \X {i}) BY DEF Redraw!ToTheBack
<1>2. older' \subseteq Issues \X Issues BY <1>1, RedrawParts
<1>3. ASSUME NEW j \in Issues, NEW k \in passed'[j] PROVE <<j, k>> \in older' /\ <<k, j>> \notin older'
  <2>1. j # i BY <1>3
  <2>2. CASE k = i BY <1>1, <2>1, <2>2
  <2>3. CASE k # i
    <3>1. <<j, k>> \in older /\ <<k, j>> \notin older BY <1>3, <2>3, RedrawParts DEF TurnsKept, BehindIt
    <3>. QED BY <1>1, <2>1, <3>1
  <2>. QED BY <2>2, <2>3
<1>. QED BY <1>2, <1>3 DEF BehindIt

\* Nobody's turn comes.
LEMMA TurnsStay ==
  ASSUME RedrawInv, UNCHANGED skipped, sweep'.left = sweep.left,
         sweep'.step = "next" => sweep.step = "next",
         \A j \in Issues : BehindIt(j)',
         \A j \in Issues : Tended(j)' => Tended(j) \/ passed'[j] = {},
         \A j \in Issues : passed'[j] \subseteq passed[j]
  PROVE  TurnsKept'
<1>1. sweep.left \in Seq(ListedRow) /\ \A row \in ListedRow : row.issue \in Issues
  BY RedrawParts DEF SweepKind, ListedRow
<1>2. \A k \in 1..Len(sweep.left) : sweep.left[k].issue \in Issues BY <1>1
<1>3. ~skipped' BY RedrawParts DEF TurnsKept
<1>4. \A j \in Issues : Tended(j)' => passed'[j] = {} BY RedrawParts DEF TurnsKept
<1>5. \A k, l \in 1..Len(sweep.left) :
         k < l /\ (sweep'.step = "next" \/ k > 1) =>
             sweep.left[k].issue \notin passed'[sweep.left[l].issue]
  BY <1>2, RedrawParts DEF TurnsKept
<1>. QED BY <1>3, <1>4, <1>5 DEF TurnsKept

\* What a run leaves behind when it turns to the next.
LEMMA TurnsOver ==
  ASSUME RedrawInv, sweep.left # <<>>, sweep.step \in HandSteps \cup {"next"},
         NEW t \in 0..PerRun,
         sweep' = [step |-> "next", found |-> {}, left |-> Tail(sweep.left), time |-> t,
                   archived |-> FALSE, kept |-> FALSE],
         UNCHANGED <<story, skipped>>, \A j \in Issues : BehindIt(j)',
         \A j \in Issues : passed'[j] \subseteq passed[j]
  PROVE  sweep' \in SweepKind /\ SweepIs' /\ TurnsKept' /\ \A j \in Issues : ~Tended(j)'
<1>1. /\ sweep.left \in Seq(ListedRow) /\ Len(sweep.left) \in Nat
      /\ \A row \in ListedRow : row.issue \in Issues /\ row.version \in Nat
  BY RedrawParts DEF SweepKind, ListedRow
<1>2. /\ Tail(sweep.left) \in Seq(ListedRow) /\ Len(Tail(sweep.left)) = Len(sweep.left) - 1
      /\ \A k \in 1..Len(Tail(sweep.left)) : Tail(sweep.left)[k] = sweep.left[k + 1]
  BY <1>1
<1>3. /\ sweep'.step = "next" /\ sweep'.found = {} /\ sweep'.left = Tail(sweep.left)
      /\ sweep'.kept = FALSE /\ sweep'.step \notin HandSteps BY DEF HandSteps
<1>4. sweep' \in SweepKind BY <1>2 DEF SweepKind
<1>5. \A j \in Issues : ~Tended(j)' BY <1>3 DEF Tended, HandSteps
<1>6. \A k \in 1..Len(Tail(sweep.left)) :
         k + 1 \in 1..Len(sweep.left) /\ Tail(sweep.left)[k] = sweep.left[k + 1]
  BY <1>1, <1>2
<1>7. SweepIs'
  <2>1. \A k \in 1..Len(Tail(sweep.left)) :
           Tail(sweep.left)[k].version \in 1..Len(story[Tail(sweep.left)[k].issue])
    BY <1>6, RedrawParts DEF SweepIs, IsVersion
  <2>2. \A k, l \in 1..Len(Tail(sweep.left)) :
           k < l => Tail(sweep.left)[k].issue # Tail(sweep.left)[l].issue
    <3>. SUFFICES ASSUME NEW k \in 1..Len(Tail(sweep.left)), NEW l \in 1..Len(Tail(sweep.left)), k < l
                  PROVE  Tail(sweep.left)[k].issue # Tail(sweep.left)[l].issue
      OBVIOUS
    <3>1. k + 1 < l + 1 BY <1>2, <1>1
    <3>. QED BY <1>6, <3>1, RedrawParts DEF SweepIs
  <2>3. IsFiniteSet({}) BY FS_EmptySet
  <2>. QED BY <1>3, <2>1, <2>2, <2>3 DEF SweepIs, IsVersion
<1>8. TurnsKept'
  <2>1. ~skipped' BY RedrawParts DEF TurnsKept
  <2>2. \A k, l \in 1..Len(Tail(sweep.left)) :
           k < l => Tail(sweep.left)[k].issue \notin passed'[Tail(sweep.left)[l].issue]
    <3>. SUFFICES ASSUME NEW k \in 1..Len(Tail(sweep.left)), NEW l \in 1..Len(Tail(sweep.left)), k < l
                  PROVE  Tail(sweep.left)[k].issue \notin passed'[Tail(sweep.left)[l].issue]
      OBVIOUS
    <3>1. k + 1 < l + 1 /\ k + 1 > 1 BY <1>2, <1>1
    <3>2. sweep.left[k + 1].issue \notin passed[sweep.left[l + 1].issue]
      BY <1>6, <3>1, RedrawParts DEF TurnsKept
    <3>3. sweep.left[l + 1].issue \in Issues BY <1>1, <1>6
    <3>. QED BY <1>6, <3>2, <3>3
  <2>. QED BY <1>3, <1>5, <2>1, <2>2 DEF TurnsKept
<1>. QED BY <1>4, <1>5, <1>7, <1>8

----
\* GitHub, people, and deliveries.

LEMMA IssueChanges == ASSUME RedrawInv, NEW i \in Issues, Redraw!Change(i) PROVE RedrawInv'
<1>. USE DEF Redraw!Change, Redraw!rows, Redraw!tallies
<1>1. PICK closed \in BOOLEAN : story' = [story EXCEPT ![i] = Append(story[i], closed)] BY Zenon
<1>2. PICK heard \in {{}, {Redraw!Latest(i) + 1}} : due' = [due EXCEPT ![i] = due[i] \cup heard] BY Zenon
<1>3. UNCHANGED <<stored, noted, older, shows, sweep, lively, excused, passed, skipped, half, counted>>
  OBVIOUS
<1>. HIDE DEF Redraw!Change, Redraw!rows, Redraw!tallies
<1>4. /\ story' \in [Issues -> Seq(BOOLEAN)] /\ Len(story[i]) \in Nat
      /\ \A j \in Issues : j # i => story'[j] = story[j]
      /\ Len(story'[i]) = Len(story[i]) + 1
  <2>1. story[i] \in Seq(BOOLEAN) BY RedrawParts
  <2>2. /\ Append(story[i], closed) \in Seq(BOOLEAN) /\ Len(story[i]) \in Nat
        /\ Len(Append(story[i], closed)) = Len(story[i]) + 1 BY <2>1
  <2>. QED BY <1>1, <2>2, RedrawParts
<1>5. /\ due' \in [Issues -> SUBSET Nat] /\ due[i] \subseteq due'[i]
      /\ \A j \in Issues : j # i => due'[j] = due[j]
      /\ \A v \in due'[i] : v \in due[i] \/ v = Len(story[i]) + 1
  <2>1. heard \subseteq Nat /\ \A v \in heard : v = Len(story[i]) + 1 BY <1>2, <1>4 DEF Redraw!Latest
  <2>. QED BY <1>2, <2>1, RedrawParts
<1>6. RedrawKinds' BY <1>3, <1>4, <1>5, RedrawParts DEF RedrawKinds
<1>7. Grows
  <2>. SUFFICES ASSUME NEW j \in Issues, NEW v \in Nat, v \in 1..Len(story[j])
                PROVE  v \in 1..Len(story'[j]) BY DEF Grows
  <2>. QED BY <1>4
<1>8. VersionsAre'
  <2>1. /\ stored[i] \in 1..Len(story[i]) /\ \A v \in due[i] : v \in 1..Len(story[i])
        /\ shows[i] # NULL => shows[i].block \in 1..Len(story[i])
    BY RedrawParts DEF VersionsAre, IsVersion
  <2>2. \A v : v \in 1..Len(story[i]) => v \in 1..Len(story'[i]) BY <1>4
  <2>3. Len(story[i]) + 1 \in 1..Len(story'[i]) BY <1>4
  <2>. QED BY <1>3, <1>5, <1>7, <2>1, <2>2, <2>3, VersionsKept
<1>9. SweepIs' BY <1>3, <1>7, SweepKept, RedrawParts DEF SweepIs
<1>10. ThreadsFound' BY <1>3, RedrawParts DEF ThreadsFound, FoundSo, WokenSo, Rests, Tended
<1>11. TurnsKept' BY <1>3, RedrawParts DEF TurnsKept, BehindIt, Tended
<1>12. RowsShown'
  <2>1. ShowsIt(i)'
    <3>1. ShowsIt(i) BY RedrawParts DEF RowsShown
    <3>. QED BY <1>3, <1>5, <3>1 DEF ShowsIt
  <2>. QED BY <1>3, <1>5, <2>1, RowsKept
<1>. QED BY <1>6, <1>8, <1>9, <1>10, <1>11, <1>12 DEF RedrawInv

\* A step that stirs one thread, and writes nothing.
LEMMA ThreadStirs ==
  ASSUME RedrawInv, NEW i \in Issues, NEW t \in ThreadKind \cup {NULL},
         UNCHANGED <<story, due, stored, noted, older, sweep, passed, skipped, half, counted>>,
         shows' = [shows EXCEPT ![i] = t],
         t # NULL => shows[i] # NULL /\ t.block = shows[i].block,
         lively' \in SUBSET Issues, excused' \in SUBSET Issues,
         \A j \in Issues \ {i} : (j \in lively' <=> j \in lively) /\ (j \in excused' <=> j \in excused),
         FoundSo(i)'
  PROVE  RedrawInv'
<1>1. shows' \in [Issues -> ThreadKind \cup {NULL}] /\ shows'[i] = t
      /\ \A j \in Issues \ {i} : shows'[j] = shows[j] BY RedrawParts
<1>2. RedrawKinds' BY <1>1, RedrawParts DEF RedrawKinds
<1>3. Grows BY DEF Grows
<1>4. VersionsAre'
  <2>1. /\ stored[i] \in 1..Len(story[i]) /\ \A v \in due[i] : v \in 1..Len(story[i])
        /\ shows[i] # NULL => shows[i].block \in 1..Len(story[i])
    BY RedrawParts DEF VersionsAre, IsVersion
  <2>. QED BY <1>1, <1>3, <2>1, VersionsKept
<1>5. SweepIs' BY <1>3, SweepKept, RedrawParts DEF SweepIs
<1>6. ThreadsFound' BY <1>1, FoundKept
<1>7. TurnsKept' BY RedrawParts DEF TurnsKept, BehindIt, Tended
<1>8. RowsShown'
  <2>1. ShowsIt(i)'
    <3>1. ShowsIt(i) BY RedrawParts DEF RowsShown
    <3>. QED BY <1>1, <3>1 DEF ShowsIt
  <2>. QED BY <1>1, <2>1, RowsKept
<1>. QED BY <1>2, <1>4, <1>5, <1>6, <1>7, <1>8 DEF RedrawInv

LEMMA ThreadIs ==
  ASSUME RedrawInv, NEW i \in Issues, shows[i] # NULL
  PROVE  /\ shows[i] \in ThreadKind /\ FoundSo(i)
         /\ Redraw!Woken(i) \in ThreadKind /\ Redraw!Woken(i).block = shows[i].block
         /\ Redraw!Woken(i).archived = FALSE /\ Redraw!Woken(i).locked = shows[i].locked
         /\ Redraw!Shut(shows[i]) \in ThreadKind /\ Redraw!Shut(shows[i]).block = shows[i].block
         /\ Redraw!Shut(shows[i]).archived = TRUE /\ Redraw!Shut(shows[i]).locked = TRUE
<1>1. shows[i] \in ThreadKind /\ FoundSo(i) BY RedrawParts DEF ThreadsFound
<1>. QED BY <1>1 DEF ThreadKind, Redraw!Woken, Redraw!Shut

LEMMA PeopleAct ==
  ASSUME RedrawInv, NEW i \in Issues, Redraw!Talk(i) \/ Redraw!GoesQuiet(i) \/ Redraw!Delete(i)
  PROVE  RedrawInv'
<1>. USE DEF Redraw!Act, Redraw!gitHub, Redraw!rows, Redraw!tallies
<1>1. CASE Redraw!Talk(i)
  <2>. USE DEF Redraw!Talk
  <2>1. /\ shows' = [shows EXCEPT ![i] = Redraw!Woken(i)] /\ shows[i] # NULL /\ ~shows[i].locked
        /\ lively' = lively \cup {i}
        /\ excused' = IF Redraw!AtHand(i) /\ sweep.archived THEN excused \cup {i} ELSE excused \ {i}
        /\ UNCHANGED <<story, due, stored, noted, older, sweep, passed, skipped, half, counted>>
    BY <1>1
  <2>. HIDE DEF Redraw!Talk, Redraw!Act, Redraw!gitHub, Redraw!rows, Redraw!tallies
  <2>2. /\ FoundSo(i) /\ Redraw!Woken(i) \in ThreadKind /\ Redraw!Woken(i).block = shows[i].block
        /\ Redraw!Woken(i).archived = FALSE /\ Redraw!Woken(i).locked = FALSE
    BY <2>1, ThreadIs DEF ThreadKind
  <2>3. shows'[i] = Redraw!Woken(i) BY <2>1, RedrawParts
  <2>4. /\ lively' \in SUBSET Issues /\ excused' \in SUBSET Issues /\ i \in lively'
        /\ \A j \in Issues \ {i} : (j \in lively' <=> j \in lively) /\ (j \in excused' <=> j \in excused)
        /\ Tended(i) /\ sweep.archived => i \in excused'
    BY <2>1, HandIs, RedrawParts
  <2>5. sweep.archived \in BOOLEAN BY RedrawParts DEF SweepKind
  <2>6. FoundSo(i)'
    <3>1. (Tended(i)' <=> Tended(i)) /\ sweep' = sweep /\ noted' = noted BY <2>1 DEF Tended
    <3>2. shows'[i].archived = FALSE /\ shows'[i].locked = FALSE /\ i \in lively' BY <2>2, <2>3, <2>4
    <3>3. Rests(i)' BY <3>2 DEF Rests
    <3>4. Tended(i) /\ sweep.step # "ask" => WokenSo(i)'
      BY <2>1, <2>2, <2>4, <2>5, <3>1, <3>2 DEF FoundSo, WokenSo
    <3>. QED BY <3>1, <3>2, <3>3, <3>4 DEF FoundSo
  <2>. QED BY <2>1, <2>2, <2>4, <2>6, ThreadStirs
<1>2. CASE Redraw!GoesQuiet(i)
  <2>. USE DEF Redraw!GoesQuiet
  <2>1. /\ shows' = [shows EXCEPT ![i].archived = TRUE] /\ shows[i] # NULL /\ sweep = Redraw!Idle
        /\ lively' = lively \ {i} /\ excused' = excused \ {i}
        /\ UNCHANGED <<story, due, stored, noted, older, sweep, passed, skipped, half, counted>>
    BY <1>2
  <2>. HIDE DEF Redraw!GoesQuiet, Redraw!Act, Redraw!gitHub, Redraw!rows, Redraw!tallies
  <2>2. shows[i] \in ThreadKind /\ FoundSo(i) BY <2>1, ThreadIs
  <2>. DEFINE t == [shows[i] EXCEPT !.archived = TRUE]
  <2>3. t \in ThreadKind /\ t.block = shows[i].block /\ t.archived = TRUE /\ t.locked = shows[i].locked
    BY <2>2 DEF ThreadKind
  <2>4. shows' = [shows EXCEPT ![i] = t] /\ shows'[i] = t BY <2>1, RedrawParts
  <2>. HIDE DEF t
  <2>5. ~Tended(i) /\ ~Tended(i)' BY <2>1 DEF Tended, Redraw!Idle, HandSteps
  <2>6. /\ lively' \in SUBSET Issues /\ excused' \in SUBSET Issues /\ i \notin lively'
        /\ \A j \in Issues \ {i} : (j \in lively' <=> j \in lively) /\ (j \in excused' <=> j \in excused)
    BY <2>1, RedrawParts
  <2>7. FoundSo(i)' BY <2>1, <2>2, <2>3, <2>4, <2>5, <2>6 DEF FoundSo, Rests
  <2>. QED BY <2>1, <2>3, <2>4, <2>6, <2>7, ThreadStirs
<1>3. CASE Redraw!Delete(i)
  <2>. USE DEF Redraw!Delete
  <2>1. /\ shows' = [shows EXCEPT ![i] = NULL]
        /\ UNCHANGED <<story, due, stored, noted, older, sweep, passed, skipped, half, counted, lively,
                       excused>> BY <1>3
  <2>. HIDE DEF Redraw!Delete, Redraw!Act, Redraw!gitHub, Redraw!rows, Redraw!tallies
  <2>2. FoundSo(i)' BY <2>1, RedrawParts DEF FoundSo
  <2>. QED BY <2>1, <2>2, RedrawParts, ThreadStirs
<1>. QED BY <1>1, <1>2, <1>3

\* What a delivery that is turned away, and a redraw that is, may still do.
LEMMA SettledSo ==
  ASSUME RedrawInv, NEW i \in Issues, Redraw!Settled(i)
  PROVE  /\ shows' \in [Issues -> ThreadKind \cup {NULL}] /\ noted' \in [Issues -> BOOLEAN]
         /\ lively' \in SUBSET Issues /\ excused' \in SUBSET Issues
         /\ \A j \in Issues \ {i} : /\ shows'[j] = shows[j] /\ noted'[j] = noted[j]
                                    /\ (j \in lively' <=> j \in lively)
                                    /\ (j \in excused' <=> j \in excused)
         /\ shows'[i] # NULL => shows[i] # NULL /\ shows'[i].block = shows[i].block
         /\ older' = older \/ older' = Redraw!ToTheBack(i)
         /\ ~Redraw!OwesTheLock(i) => older' = older
         /\ ~Tended(i) /\ ~Tended(i)' => FoundSo(i)'
<1>1. CASE Redraw!OwesTheLock(i)
  <2>1. /\ shows' = [shows EXCEPT ![i] = Redraw!Shut(shows[i])] /\ noted' = [noted EXCEPT ![i] = TRUE]
        /\ older' = Redraw!ToTheBack(i)
        /\ lively' = lively \ {i} /\ excused' = excused \ {i}
    BY <1>1 DEF Redraw!Settled
  <2>2. shows[i] # NULL BY <1>1 DEF Redraw!OwesTheLock
  <2>3. /\ Redraw!Shut(shows[i]) \in ThreadKind /\ Redraw!Shut(shows[i]).block = shows[i].block
        /\ Redraw!Shut(shows[i]).archived = TRUE /\ Redraw!Shut(shows[i]).locked = TRUE
    BY <2>2, ThreadIs
  <2>4. /\ shows' \in [Issues -> ThreadKind \cup {NULL}] /\ noted' \in [Issues -> BOOLEAN]
        /\ shows'[i] = Redraw!Shut(shows[i]) /\ noted'[i] = TRUE
        /\ \A j \in Issues \ {i} : shows'[j] = shows[j] /\ noted'[j] = noted[j]
    BY <2>1, <2>3, RedrawParts
  <2>5. ~Tended(i)' => FoundSo(i)' BY <2>3, <2>4 DEF FoundSo
  <2>. QED BY <1>1, <2>1, <2>2, <2>3, <2>4, <2>5, RedrawParts
<1>2. CASE ~Redraw!OwesTheLock(i)
  <2>1. UNCHANGED <<shows, noted, older, lively, excused>> BY <1>2 DEF Redraw!Settled
  <2>2. ~Tended(i) /\ ~Tended(i)' => FoundSo(i)'
    <3>1. FoundSo(i) BY RedrawParts DEF ThreadsFound
    <3>. QED BY <2>1, <3>1 DEF FoundSo, Rests
  <2>. QED BY <2>1, <2>2, RedrawParts
<1>. QED BY <1>1, <1>2

LEMMA Elsewhere ==
  ASSUME RedrawInv, NEW i \in Issues, ~Redraw!AtHand(i) PROVE ~Tended(i) BY HandIs

LEMMA TurnedAway ==
  ASSUME RedrawInv, NEW i \in Issues, NEW v \in due[i], Redraw!DeliverStale(i, v) PROVE RedrawInv'
<1>. USE DEF Redraw!DeliverStale, Redraw!Handled, Redraw!gitHub
<1>1. /\ ~Redraw!AtHand(i) /\ v < stored[i] /\ Redraw!Settled(i)
      /\ due' = [due EXCEPT ![i] = @ \ {v}]
      /\ passed' = [passed EXCEPT ![i] = IF Redraw!OwesTheLock(i) THEN {} ELSE @]
      /\ UNCHANGED <<story, stored, sweep, skipped, half, counted>> OBVIOUS
<1>. HIDE DEF Redraw!DeliverStale, Redraw!Handled, Redraw!gitHub
<1>2. ~Tended(i) /\ ~Tended(i)' BY <1>1, Elsewhere DEF Tended
<1>3. /\ shows' \in [Issues -> ThreadKind \cup {NULL}] /\ noted' \in [Issues -> BOOLEAN]
      /\ lively' \in SUBSET Issues /\ excused' \in SUBSET Issues
      /\ \A j \in Issues \ {i} : /\ shows'[j] = shows[j] /\ noted'[j] = noted[j]
                                 /\ (j \in lively' <=> j \in lively)
                                 /\ (j \in excused' <=> j \in excused)
      /\ shows'[i] # NULL => shows[i] # NULL /\ shows'[i].block = shows[i].block
      /\ older' = older \/ older' = Redraw!ToTheBack(i)
      /\ ~Redraw!OwesTheLock(i) => older' = older
      /\ FoundSo(i)' BY <1>1, <1>2, SettledSo
<1>4. /\ due' \in [Issues -> SUBSET Nat] /\ due'[i] = due[i] \ {v}
      /\ \A j \in Issues \ {i} : due'[j] = due[j] BY <1>1, RedrawParts
<1>5. /\ passed' \in [Issues -> SUBSET Issues]
      /\ \A j \in Issues : passed'[j] \subseteq passed[j]
      /\ Redraw!OwesTheLock(i) => passed'[i] = {} BY <1>1, RedrawParts
<1>6. (\A j \in Issues : BehindIt(j)') /\ older' \subseteq Issues \X Issues
  <2>1. CASE older' = older BY <1>5, <2>1, RedrawParts DEF TurnsKept, BehindIt
  <2>2. CASE older' # older BY <1>3, <1>5, <2>2, WrittenLast
  <2>. QED BY <2>1, <2>2
<1>7. RedrawKinds' BY <1>1, <1>3, <1>4, <1>5, <1>6, RedrawParts DEF RedrawKinds
<1>8. Grows BY <1>1 DEF Grows
<1>9. VersionsAre'
  <2>1. /\ stored[i] \in 1..Len(story[i]) /\ \A w \in due[i] : w \in 1..Len(story[i])
        /\ shows[i] # NULL => shows[i].block \in 1..Len(story[i])
    BY RedrawParts DEF VersionsAre, IsVersion
  <2>. QED BY <1>1, <1>3, <1>4, <1>8, <2>1, VersionsKept
<1>10. SweepIs' BY <1>1, <1>8, SweepKept, RedrawParts DEF SweepIs
<1>11. ThreadsFound' BY <1>1, <1>3, FoundKept
<1>12. TurnsKept' BY <1>1, <1>5, <1>6, TurnsStay DEF Tended
<1>13. RowsShown'
  <2>1. ShowsIt(i)'
    <3>1. ShowsIt(i) /\ stored[i] \in Nat BY RedrawParts DEF RowsShown
    <3>. QED BY <1>1, <1>3, <1>4, <3>1 DEF ShowsIt
  <2>. QED BY <1>1, <1>3, <1>4, <2>1, RowsKept
<1>. QED BY <1>7, <1>9, <1>10, <1>11, <1>12, <1>13 DEF RedrawInv

LEMMA DeliveredWhole ==
  ASSUME RedrawInv, NEW i \in Issues, NEW v \in due[i], Redraw!Deliver(i, v) PROVE RedrawInv'
<1>. DEFINE written == IF shows[i] = NULL THEN Redraw!Opened(v)
                     ELSE [shows[i] EXCEPT !.block = v, !.archived = FALSE, !.locked = FALSE]
            t == IF story[i][v] THEN Redraw!Shut(written) ELSE written
<1>1. /\ ~Redraw!AtHand(i) /\ v >= stored[i]
      /\ stored' = [stored EXCEPT ![i] = v] /\ noted' = [noted EXCEPT ![i] = story[i][v]]
      /\ older' = Redraw!ToTheBack(i)
      /\ shows' = [shows EXCEPT ![i] = t]
      /\ lively' = IF story[i][v] THEN lively \ {i} ELSE lively \cup {i}
      /\ excused' = excused \ {i}
      /\ passed' = [passed EXCEPT ![i] = {}] /\ half' = half \ {i}
      /\ due' = [due EXCEPT ![i] = @ \ {v}]
      /\ UNCHANGED <<story, sweep, skipped, counted>>
  BY DEF Redraw!Deliver, Redraw!Handled, Redraw!gitHub
<1>2. ~Tended(i) /\ ~Tended(i)' BY <1>1, Elsewhere DEF Tended
<1>3. v \in Nat /\ v \in 1..Len(story[i]) /\ story[i][v] \in BOOLEAN
  <2>1. v \in 1..Len(story[i]) /\ story[i] \in Seq(BOOLEAN) /\ v \in Nat
    BY RedrawParts DEF VersionsAre, IsVersion
  <2>. QED BY <2>1
<1>4. written \in ThreadKind /\ written.block = v /\ written.archived = FALSE /\ written.locked = FALSE
  <2>1. CASE shows[i] = NULL BY <1>3, <2>1 DEF Redraw!Opened, ThreadKind
  <2>2. CASE shows[i] # NULL
    <3>1. shows[i] \in ThreadKind BY <2>2, ThreadIs
    <3>. QED BY <1>3, <2>2, <3>1 DEF ThreadKind
  <2>. QED BY <2>1, <2>2
<1>5. t \in ThreadKind /\ t.block = v /\ (t.locked <=> story[i][v]) /\ (t.archived <=> story[i][v])
  <2>. HIDE DEF written
  <2>1. /\ Redraw!Shut(written) \in ThreadKind /\ Redraw!Shut(written).block = v
        /\ Redraw!Shut(written).archived = TRUE /\ Redraw!Shut(written).locked = TRUE
    BY <1>4 DEF ThreadKind, Redraw!Shut
  <2>. QED BY <1>3, <1>4, <2>1
<1>. HIDE DEF written, t
<1>6. /\ shows' \in [Issues -> ThreadKind \cup {NULL}] /\ noted' \in [Issues -> BOOLEAN]
      /\ stored' \in [Issues -> Nat] /\ due' \in [Issues -> SUBSET Nat]
      /\ passed' \in [Issues -> SUBSET Issues]
      /\ shows'[i] = t /\ stored'[i] = v /\ passed'[i] = {} /\ noted'[i] = story[i][v]
      /\ due'[i] = due[i] \ {v}
      /\ \A j \in Issues \ {i} : /\ shows'[j] = shows[j] /\ noted'[j] = noted[j]
                                 /\ stored'[j] = stored[j] /\ due'[j] = due[j]
                                 /\ passed'[j] = passed[j]
  BY <1>1, <1>3, <1>5, RedrawParts
<1>7. /\ lively' \in SUBSET Issues /\ excused' \in SUBSET Issues /\ half' \in SUBSET Issues
      /\ (i \in lively' <=> ~story[i][v])
      /\ \A j \in Issues \ {i} : /\ (j \in lively' <=> j \in lively)
                                 /\ (j \in excused' <=> j \in excused) /\ (j \in half' <=> j \in half)
  BY <1>1, RedrawParts
<1>8. (\A j \in Issues : BehindIt(j)') /\ older' \subseteq Issues \X Issues BY <1>1, <1>6, WrittenLast
<1>9. RedrawKinds' BY <1>1, <1>6, <1>7, <1>8, RedrawParts DEF RedrawKinds
<1>10. Grows BY <1>1 DEF Grows
<1>11. VersionsAre'
  <2>1. \A w \in due[i] : w \in 1..Len(story[i]) BY RedrawParts DEF VersionsAre, IsVersion
  <2>. QED BY <1>1, <1>3, <1>5, <1>6, <1>10, <2>1, VersionsKept
<1>12. SweepIs'
  <2>1. sweep.step \in HandSteps =>
            sweep.left # <<>> /\ sweep.left[1].version = stored'[sweep.left[1].issue]
    <3>. SUFFICES ASSUME sweep.step \in HandSteps
                  PROVE  sweep.left # <<>> /\ sweep.left[1].version = stored'[sweep.left[1].issue]
      OBVIOUS
    <3>1. sweep.left # <<>> /\ sweep.left[1].version = stored[sweep.left[1].issue] BY RedrawParts DEF SweepIs
    <3>2. sweep.left[1].issue \in Issues /\ sweep.left[1].issue # i
      BY <1>2, <3>1, HeadIs DEF Tended, RedrawInv
    <3>. QED BY <1>6, <3>1, <3>2
  <2>. QED BY <1>1, <1>10, <2>1, SweepKept, RedrawParts DEF SweepIs
<1>13. ThreadsFound'
  <2>1. FoundSo(i)' BY <1>2, <1>3, <1>5, <1>6, <1>7 DEF FoundSo, Rests, ThreadKind
  <2>. QED BY <1>1, <1>6, <1>7, <2>1, FoundKept
<1>14. TurnsKept'
  <2>1. \A j \in Issues : passed'[j] \subseteq passed[j] BY <1>6
  <2>. QED BY <1>1, <1>8, <2>1, TurnsStay DEF Tended
<1>15. RowsShown'
  <2>1. ShowsIt(i)'
    <3>1. counted[i] <= stored[i] /\ counted[i] \in Nat /\ stored[i] \in Nat
      BY RedrawParts DEF RowsShown, ShowsIt
    <3>. QED BY <1>1, <1>3, <1>5, <1>6, <3>1 DEF ShowsIt
  <2>. QED BY <1>1, <1>6, <1>7, <2>1, RowsKept
<1>. QED BY <1>9, <1>11, <1>12, <1>13, <1>14, <1>15 DEF RedrawInv

LEMMA DeliveredHalf ==
  ASSUME RedrawInv, NEW i \in Issues, NEW v \in due[i], Redraw!DeliverFails(i, v) PROVE RedrawInv'
<1>1. /\ ~Redraw!AtHand(i) /\ v >= stored[i]
      /\ stored' = [stored EXCEPT ![i] = v] /\ older' = Redraw!ToTheBack(i)
      /\ passed' = [passed EXCEPT ![i] = {}]
      /\ UNCHANGED <<story, due, noted, shows, sweep, lively, excused, skipped, half, counted>>
  BY DEF Redraw!DeliverFails, Redraw!gitHub
<1>2. ~Tended(i) /\ ~Tended(i)' BY <1>1, Elsewhere DEF Tended
<1>3. v \in Nat /\ v \in 1..Len(story[i]) BY RedrawParts DEF VersionsAre, IsVersion
<1>4. /\ stored' \in [Issues -> Nat] /\ passed' \in [Issues -> SUBSET Issues]
      /\ stored'[i] = v /\ passed'[i] = {}
      /\ \A j \in Issues \ {i} : stored'[j] = stored[j] /\ passed'[j] = passed[j]
  BY <1>1, <1>3, RedrawParts
<1>5. (\A j \in Issues : BehindIt(j)') /\ older' \subseteq Issues \X Issues BY <1>1, <1>4, WrittenLast
<1>6. RedrawKinds' BY <1>1, <1>4, <1>5, RedrawParts DEF RedrawKinds
<1>7. Grows BY <1>1 DEF Grows
<1>8. VersionsAre'
  <2>1. /\ \A w \in due[i] : w \in 1..Len(story[i])
        /\ shows[i] # NULL => shows[i].block \in 1..Len(story[i])
    BY RedrawParts DEF VersionsAre, IsVersion
  <2>. QED BY <1>1, <1>3, <1>4, <1>7, <2>1, VersionsKept
<1>9. SweepIs'
  <2>1. sweep.step \in HandSteps =>
            sweep.left # <<>> /\ sweep.left[1].version = stored'[sweep.left[1].issue]
    <3>. SUFFICES ASSUME sweep.step \in HandSteps
                  PROVE  sweep.left # <<>> /\ sweep.left[1].version = stored'[sweep.left[1].issue]
      OBVIOUS
    <3>1. sweep.left # <<>> /\ sweep.left[1].version = stored[sweep.left[1].issue] BY RedrawParts DEF SweepIs
    <3>2. sweep.left[1].issue \in Issues /\ sweep.left[1].issue # i
      BY <1>2, <3>1, HeadIs DEF Tended, RedrawInv
    <3>. QED BY <1>4, <3>1, <3>2
  <2>. QED BY <1>1, <1>7, <2>1, SweepKept, RedrawParts DEF SweepIs
<1>10. ThreadsFound' BY <1>1, RedrawParts DEF ThreadsFound, FoundSo, WokenSo, Rests, Tended
<1>11. TurnsKept'
  <2>1. \A j \in Issues : passed'[j] \subseteq passed[j] BY <1>4
  <2>. QED BY <1>1, <1>5, <2>1, TurnsStay DEF Tended
<1>12. RowsShown'
  <2>1. ShowsIt(i)'
    <3>1. ShowsIt(i) /\ counted[i] \in Nat /\ stored[i] \in Nat BY RedrawParts DEF RowsShown
    <3>. QED BY <1>1, <1>3, <1>4, <3>1 DEF ShowsIt
  <2>. QED BY <1>1, <1>4, <2>1, RowsKept
<1>. QED BY <1>6, <1>8, <1>9, <1>10, <1>11, <1>12 DEF RedrawInv

----
\* A run begins and ends.

\* A step that changes the run alone, with no thread at hand before or after.
LEMMA NoneAtHand ==
  ASSUME RedrawInv,
         UNCHANGED <<story, due, stored, noted, older, shows, lively, excused, skipped, half, counted>>,
         sweep' \in SweepKind, SweepIs', TurnsKept', passed' \in [Issues -> SUBSET Issues],
         \A i \in Issues : ~Tended(i) /\ ~Tended(i)'
  PROVE  RedrawInv'
<1>1. RedrawKinds' BY RedrawParts DEF RedrawKinds
<1>2. VersionsAre' BY RedrawParts DEF VersionsAre, IsVersion
<1>3. ThreadsFound'
  <2>. SUFFICES ASSUME NEW i \in Issues PROVE FoundSo(i)' BY DEF ThreadsFound
  <2>1. FoundSo(i) /\ ~Tended(i) /\ ~Tended(i)' BY RedrawParts DEF ThreadsFound
  <2>. QED BY <2>1 DEF FoundSo, Rests
<1>4. RowsShown' BY RedrawParts DEF RowsShown, ShowsIt
<1>. QED BY <1>1, <1>2, <1>3, <1>4 DEF RedrawInv

LEMMA RunIsIdle ==
  ASSUME RedrawInv, UNCHANGED <<skipped, older, passed>>, sweep' = Redraw!Idle
  PROVE  sweep' \in SweepKind /\ SweepIs' /\ TurnsKept' /\ \A i \in Issues : ~Tended(i)'
<1>1. sweep' = [step |-> "idle", found |-> {}, left |-> <<>>, time |-> 0, archived |-> FALSE,
                kept |-> FALSE] BY DEF Redraw!Idle
<1>2. sweep' \in SweepKind BY <1>1, RedrawSorts DEF SweepKind
<1>3. /\ sweep'.step = "idle" /\ sweep'.step \notin HandSteps /\ sweep'.left = <<>>
      /\ sweep'.found = {} BY <1>1 DEF HandSteps
<1>4. SweepIs' BY <1>3, FS_EmptySet DEF SweepIs
<1>5. \A i \in Issues : ~Tended(i)' BY <1>3 DEF Tended
<1>6. TurnsKept' BY <1>3, <1>5, RedrawParts DEF TurnsKept, BehindIt
<1>. QED BY <1>2, <1>4, <1>5, <1>6

LEMMA FinishKeeps == RedrawInv /\ Redraw!Finish => RedrawInv'
<1>. SUFFICES ASSUME RedrawInv, Redraw!Finish PROVE RedrawInv' OBVIOUS
<1>1. /\ sweep.step = "next" /\ sweep' = Redraw!Idle
      /\ UNCHANGED <<story, due, stored, noted, older, shows, lively, excused, passed, skipped, half,
                     counted>>
  BY DEF Redraw!Finish, Redraw!others, Redraw!gitHub, Redraw!rows, Redraw!tallies
<1>2. \A i \in Issues : ~Tended(i) BY <1>1 DEF Tended, HandSteps
<1>. QED BY <1>1, <1>2, RunIsIdle, NoneAtHand, RedrawParts

LEMMA OpenAre ==
  ASSUME RedrawInv
  PROVE  /\ Redraw!OpenIssues \in SUBSET ListedRow /\ IsFiniteSet(Redraw!OpenIssues)
         /\ \A row \in Redraw!OpenIssues : row.version = Len(story[row.issue])
         /\ \A row \in Redraw!OpenIssues : IsVersion(row.issue, row.version)
<1>. DEFINE open == {j \in Issues : ~story[j][Redraw!Latest(j)]}
            row(i) == [issue |-> i, version |-> Redraw!Latest(i)]
            f == [i \in open |-> row(i)]
<1>1. Redraw!OpenIssues = {row(i) : i \in open} BY DEF Redraw!OpenIssues
<1>2. \A i \in open : row(i) \in ListedRow /\ row(i).issue = i /\ row(i).version = Len(story[i])
                      /\ IsVersion(i, row(i).version)
  <2>. SUFFICES ASSUME NEW i \in open
                PROVE  row(i) \in ListedRow /\ row(i).issue = i /\ row(i).version = Len(story[i])
                       /\ IsVersion(i, row(i).version) OBVIOUS
  <2>1. Len(story[i]) \in Nat /\ stored[i] \in 1..Len(story[i]) /\ stored[i] \in Nat
    BY RedrawParts DEF VersionsAre, IsVersion
  <2>. QED BY <2>1 DEF Redraw!Latest, ListedRow, IsVersion
<1>3. IsFiniteSet(open) BY RedrawSorts, FS_Subset
<1>4. f \in Surjection(open, Redraw!OpenIssues)
  <2>. HIDE DEF row, open
  <2>1. f \in [open -> Redraw!OpenIssues] BY <1>1
  <2>2. \A r \in Redraw!OpenIssues : \E i \in open : f[i] = r BY <1>1
  <2>. QED BY <2>1, <2>2 DEF Surjection
<1>5. IsFiniteSet(Redraw!OpenIssues)
  <2>. HIDE DEF f, open
  <2>. QED BY <1>3, <1>4, FS_Surjection
<1>. HIDE DEF row, open
<1>. QED BY <1>1, <1>2, <1>5

LEMMA ListKept == RedrawInv /\ Redraw!List => RedrawInv'
<1>. SUFFICES ASSUME RedrawInv, Redraw!List PROVE RedrawInv' OBVIOUS
<1>1. /\ sweep = Redraw!Idle /\ sweep' = [Redraw!Idle EXCEPT !.step = "listed", !.found = Redraw!OpenIssues]
      /\ UNCHANGED <<story, due, stored, noted, older, shows, lively, excused, passed, skipped, half,
                     counted>>
  BY DEF Redraw!List, Redraw!others, Redraw!gitHub, Redraw!rows, Redraw!tallies
<1>2. sweep' = [step |-> "listed", found |-> Redraw!OpenIssues, left |-> <<>>, time |-> 0,
                archived |-> FALSE, kept |-> FALSE] BY <1>1 DEF Redraw!Idle
<1>3. /\ sweep'.step = "listed" /\ sweep'.step \notin HandSteps /\ sweep'.left = <<>>
      /\ sweep'.found = Redraw!OpenIssues BY <1>2 DEF HandSteps
<1>4. sweep' \in SweepKind BY <1>2, OpenAre, RedrawSorts DEF SweepKind
<1>5. \A i \in Issues : ~Tended(i) /\ ~Tended(i)' BY <1>1, <1>3 DEF Tended, HandSteps, Redraw!Idle
<1>6. SweepIs'
  <2>1. \A a, b \in Redraw!OpenIssues : a.issue = b.issue => a = b BY OpenAre DEF ListedRow
  <2>2. \A row \in Redraw!OpenIssues : IsVersion(row.issue, row.version)' BY <1>1, OpenAre DEF IsVersion
  <2>. QED BY <1>3, <2>1, <2>2, OpenAre DEF SweepIs
<1>7. TurnsKept' BY <1>1, <1>3, <1>5, RedrawParts DEF TurnsKept, BehindIt
<1>. QED BY <1>1, <1>4, <1>5, <1>6, <1>7, NoneAtHand, RedrawParts

LEMMA OrderKeeps == RedrawInv /\ Redraw!Order => RedrawInv'
<1>. SUFFICES ASSUME RedrawInv, Redraw!Order PROVE RedrawInv' OBVIOUS
<1>1. /\ sweep.step = "listed"
      /\ UNCHANGED <<story, due, stored, noted, older, shows, lively, excused, skipped, half, counted>>
      /\ passed' = [i \in Issues |-> IF \E row \in sweep.found : row.issue = i THEN passed[i] ELSE {}]
  BY DEF Redraw!Order, Redraw!others, Redraw!gitHub, Redraw!rows
<1>2. PICK list \in Redraw!InTurn(sweep.found) :
         sweep' = [Redraw!Idle EXCEPT !.step = "next", !.left = list, !.time = PerRun]
  BY DEF Redraw!Order
<1>. DEFINE n == Cardinality(sweep.found)
<1>3. /\ list \in [1..n -> sweep.found]
      /\ \A k, l \in 1..n : k < l => /\ list[k] # list[l]
                                     /\ <<list[l].issue, list[k].issue>> \notin older
  BY DEF Redraw!InTurn, Redraw!Cardinality, Cardinality
<1>4. n \in Nat /\ sweep.found \in SUBSET ListedRow BY RedrawParts, FS_CardinalityType DEF SweepIs, SweepKind
<1>. HIDE DEF n
<1>5. list \in Seq(ListedRow) /\ Len(list) = n BY <1>3, <1>4
<1>6. sweep' = [step |-> "next", found |-> {}, left |-> list, time |-> PerRun, archived |-> FALSE,
                kept |-> FALSE] BY <1>2 DEF Redraw!Idle
<1>7. /\ sweep'.step = "next" /\ sweep'.step \notin HandSteps /\ sweep'.left = list
      /\ sweep'.found = {} /\ sweep'.kept = FALSE BY <1>6 DEF HandSteps
<1>8. sweep' \in SweepKind BY <1>5, <1>6, RedrawSorts DEF SweepKind
<1>9. \A i \in Issues : ~Tended(i) /\ ~Tended(i)' BY <1>1, <1>7 DEF Tended, HandSteps
<1>10. \A k \in 1..n : list[k] \in sweep.found /\ list[k].issue \in Issues BY <1>3, <1>4 DEF ListedRow
<1>11. SweepIs'
  <2>1. \A k, l \in 1..n : k < l => list[k].issue # list[l].issue BY <1>3, <1>10, RedrawParts DEF SweepIs
  <2>2. \A k \in 1..n : IsVersion(list[k].issue, list[k].version)'
    BY <1>1, <1>10, RedrawParts DEF SweepIs, IsVersion
  <2>. QED BY <1>5, <1>7, <2>1, <2>2, FS_EmptySet DEF SweepIs
<1>12. passed' \in [Issues -> SUBSET Issues] /\ \A i \in Issues : passed'[i] \subseteq passed[i]
  BY <1>1, RedrawParts
<1>13. TurnsKept'
  <2>1. ~skipped' /\ \A i \in Issues : BehindIt(i)' BY <1>1, <1>12, RedrawParts DEF TurnsKept, BehindIt
  <2>2. \A k, l \in 1..n : k < l => list[k].issue \notin passed'[list[l].issue]
    <3>. SUFFICES ASSUME NEW k \in 1..n, NEW l \in 1..n, k < l,
                         list[k].issue \in passed'[list[l].issue]
                  PROVE  FALSE OBVIOUS
    <3>1. list[l].issue \in Issues /\ list[k].issue \in passed[list[l].issue] BY <1>10, <1>12
    <3>2. <<list[l].issue, list[k].issue>> \in older BY <3>1, RedrawParts DEF TurnsKept, BehindIt
    <3>. QED BY <1>3, <3>2
  <2>. QED BY <1>5, <1>7, <1>9, <2>1, <2>2 DEF TurnsKept
<1>. QED BY <1>1, <1>8, <1>9, <1>11, <1>12, <1>13, NoneAtHand

LEMMA DiesSo == RedrawInv /\ Redraw!Die => RedrawInv'
<1>. SUFFICES ASSUME RedrawInv, Redraw!Die PROVE RedrawInv' OBVIOUS
<1>1. /\ sweep' = Redraw!Idle /\ excused' = excused \cup {i \in Issues : Redraw!AtHand(i)}
      /\ UNCHANGED <<story, due, stored, noted, older, shows, lively, passed, skipped, half, counted>>
  BY DEF Redraw!Die, Redraw!others, Redraw!gitHub, Redraw!rows, Redraw!tallies
<1>2. /\ sweep' \in SweepKind /\ SweepIs' /\ TurnsKept' /\ \A i \in Issues : ~Tended(i)' BY <1>1, RunIsIdle
<1>3. excused' \in SUBSET Issues /\ \A i \in Issues : Tended(i) \/ i \in excused => i \in excused'
  BY <1>1, HandIs, RedrawParts
<1>4. RedrawKinds' BY <1>1, <1>2, <1>3, RedrawParts DEF RedrawKinds
<1>5. VersionsAre' BY <1>1, RedrawParts DEF VersionsAre, IsVersion
<1>6. ThreadsFound'
  <2>. SUFFICES ASSUME NEW i \in Issues PROVE FoundSo(i)' BY DEF ThreadsFound
  <2>1. FoundSo(i) /\ ~Tended(i)' BY <1>2, RedrawParts DEF ThreadsFound
  <2>. QED BY <1>1, <1>3, <2>1 DEF FoundSo, Rests
<1>7. RowsShown' BY <1>1, RedrawParts DEF RowsShown, ShowsIt
<1>. QED BY <1>2, <1>4, <1>5, <1>6, <1>7 DEF RedrawInv

----
\* Issue by issue.

LEMMA NextIs ==
  ASSUME RedrawInv, sweep.left # <<>>, sweep.time > 0, Redraw!NextOne
  PROVE  \E t \in 0..PerRun :
            sweep' = [step |-> "next", found |-> {}, left |-> Tail(sweep.left), time |-> t,
                      archived |-> FALSE, kept |-> FALSE]
<1>1. sweep.time - 1 \in 0..PerRun BY RedrawParts, RedrawSorts DEF SweepKind
<1>2. sweep' = [step |-> "next", found |-> {}, left |-> Tail(sweep.left), time |-> sweep.time - 1,
                archived |-> FALSE, kept |-> FALSE]
  BY DEF Redraw!NextOne, Redraw!Idle
<1>. QED BY <1>1, <1>2

LEMMA HandHeld ==
  ASSUME RedrawInv, sweep.step \in HandSteps
  PROVE  /\ sweep.left # <<>> /\ sweep.time > 0
         /\ Redraw!Issue = sweep.left[1].issue /\ Redraw!Issue \in Issues
         /\ Redraw!Version = stored[Redraw!Issue]
         /\ Tended(Redraw!Issue) /\ \A j \in Issues \ {Redraw!Issue} : ~Tended(j)
         /\ passed[Redraw!Issue] = {}
<1>1. sweep.left # <<>> /\ sweep.time > 0 /\ sweep.left[1].version = stored[sweep.left[1].issue]
  BY RedrawParts DEF SweepIs
<1>2. /\ Redraw!Issue = sweep.left[1].issue /\ Redraw!Issue \in Issues
      /\ Redraw!Version = sweep.left[1].version BY <1>1, HeadIs DEF RedrawInv
<1>3. Tended(Redraw!Issue) /\ \A j \in Issues \ {Redraw!Issue} : ~Tended(j) BY <1>2 DEF Tended
<1>. QED BY <1>1, <1>2, <1>3, RedrawParts DEF TurnsKept

LEMMA BusyKeeps == RedrawInv /\ Redraw!Busy => RedrawInv'
<1>. SUFFICES ASSUME RedrawInv, Redraw!Busy PROVE RedrawInv' OBVIOUS
<1>1. /\ sweep.step = "next" /\ sweep.left # <<>> /\ sweep.time > 0 /\ Redraw!NextOne
      /\ passed' = [passed EXCEPT ![Redraw!Issue] = {}]
      /\ UNCHANGED <<story, due, stored, noted, older, shows, lively, excused, skipped, half, counted>>
  BY DEF Redraw!Busy, Redraw!Begins, Redraw!HadItsTurn, Redraw!others, Redraw!gitHub, Redraw!rows
<1>2. passed' \in [Issues -> SUBSET Issues] /\ \A j \in Issues : passed'[j] \subseteq passed[j]
  BY <1>1, RedrawParts
<1>3. /\ sweep' \in SweepKind /\ SweepIs' /\ TurnsKept' /\ \A j \in Issues : ~Tended(j)'
  <2>1. \A j \in Issues : BehindIt(j)' BY <1>1, <1>2, RedrawParts DEF TurnsKept, BehindIt
  <2>. QED BY <1>1, <1>2, <2>1, NextIs, TurnsOver
<1>4. \A j \in Issues : ~Tended(j) BY <1>1 DEF Tended, HandSteps
<1>. QED BY <1>1, <1>2, <1>3, <1>4, NoneAtHand

LEMMA RedrawnStale == RedrawInv /\ Redraw!RedrawStale => RedrawInv'
<1>. SUFFICES ASSUME RedrawInv, Redraw!RedrawStale PROVE RedrawInv' OBVIOUS
<1>0. sweep.step = "next" /\ sweep.left # <<>> /\ sweep.time > 0 BY DEF Redraw!RedrawStale, Redraw!Begins
<1>2. PICK i \in Issues : i = Redraw!Issue /\ Redraw!Version \in Nat BY <1>0, HeadIs DEF RedrawInv, ListedRow
<1>1. /\ sweep.step = "next" /\ sweep.left # <<>> /\ sweep.time > 0 /\ Redraw!NextOne
      /\ Redraw!Version < stored[i] /\ Redraw!Settled(i)
      /\ passed' = [passed EXCEPT ![i] = {}]
      /\ counted' = [counted EXCEPT ![i] = Redraw!Version]
      /\ UNCHANGED <<story, due, stored, skipped, half>>
  BY <1>2 DEF Redraw!RedrawStale, Redraw!Begins, Redraw!HadItsTurn, Redraw!others, Redraw!gitHub
<1>3. /\ passed' \in [Issues -> SUBSET Issues] /\ \A j \in Issues : passed'[j] \subseteq passed[j]
      /\ passed'[i] = {}
      /\ counted' \in [Issues -> Nat] /\ counted'[i] = Redraw!Version
      /\ \A j \in Issues \ {i} : counted'[j] = counted[j]
  BY <1>1, <1>2, RedrawParts
<1>4. \A j \in Issues : ~Tended(j) BY <1>1 DEF Tended, HandSteps
<1>5. PICK t \in 0..PerRun :
         sweep' = [step |-> "next", found |-> {}, left |-> Tail(sweep.left), time |-> t,
                   archived |-> FALSE, kept |-> FALSE] BY <1>1, NextIs
<1>6. \A j \in Issues : ~Tended(j)' BY <1>5 DEF Tended, HandSteps
<1>7. /\ shows' \in [Issues -> ThreadKind \cup {NULL}] /\ noted' \in [Issues -> BOOLEAN]
      /\ lively' \in SUBSET Issues /\ excused' \in SUBSET Issues
      /\ \A j \in Issues \ {i} : /\ shows'[j] = shows[j] /\ noted'[j] = noted[j]
                                 /\ (j \in lively' <=> j \in lively)
                                 /\ (j \in excused' <=> j \in excused)
      /\ shows'[i] # NULL => shows[i] # NULL /\ shows'[i].block = shows[i].block
      /\ older' = older \/ older' = Redraw!ToTheBack(i)
      /\ FoundSo(i)' BY <1>1, <1>2, <1>4, <1>6, SettledSo
<1>8. (\A j \in Issues : BehindIt(j)') /\ older' \subseteq Issues \X Issues
  <2>1. CASE older' = older BY <1>3, <2>1, RedrawParts DEF TurnsKept, BehindIt
  <2>2. CASE older' # older BY <1>2, <1>3, <1>7, <2>2, WrittenLast
  <2>. QED BY <2>1, <2>2
<1>9. sweep' \in SweepKind /\ SweepIs' /\ TurnsKept' BY <1>1, <1>3, <1>5, <1>8, TurnsOver
<1>10. RedrawKinds' BY <1>1, <1>3, <1>7, <1>8, <1>9, RedrawParts DEF RedrawKinds
<1>11. VersionsAre'
  <2>1. /\ stored[i] \in 1..Len(story[i]) /\ \A w \in due[i] : w \in 1..Len(story[i])
        /\ shows[i] # NULL => shows[i].block \in 1..Len(story[i])
    BY <1>2, RedrawParts DEF VersionsAre, IsVersion
  <2>2. Grows BY <1>1 DEF Grows
  <2>. QED BY <1>1, <1>2, <1>7, <2>1, <2>2, VersionsKept
<1>12. ThreadsFound' BY <1>2, <1>4, <1>6, <1>7, FoundKept
<1>13. RowsShown'
  <2>1. ShowsIt(i)'
    <3>1. ShowsIt(i) /\ stored[i] \in Nat BY <1>2, RedrawParts DEF RowsShown
    <3>. QED BY <1>1, <1>2, <1>3, <1>7, <3>1 DEF ShowsIt
  <2>. QED BY <1>1, <1>2, <1>3, <1>7, <2>1, RowsKept
<1>. QED BY <1>9, <1>10, <1>11, <1>12, <1>13 DEF RedrawInv

LEMMA RedrawRecorded == RedrawInv /\ Redraw!Record => RedrawInv'
<1>. SUFFICES ASSUME RedrawInv, Redraw!Record PROVE RedrawInv' OBVIOUS
<1>0. sweep.step = "next" /\ sweep.left # <<>> /\ sweep.time > 0 BY DEF Redraw!Record, Redraw!Begins
<1>2. PICK i \in Issues : /\ i = Redraw!Issue /\ i = sweep.left[1].issue
                         /\ Redraw!Version = sweep.left[1].version
                         /\ Redraw!Version \in Nat /\ 1 \in 1..Len(sweep.left)
  BY <1>0, HeadIs DEF RedrawInv, ListedRow
<1>. DEFINE waiting == {sweep.left[k].issue : k \in 2..Len(sweep.left)}
<1>1. /\ sweep.step = "next" /\ sweep.left # <<>> /\ sweep.time > 0 /\ Redraw!Version >= stored[i]
      /\ stored' = [stored EXCEPT ![i] = Redraw!Version] /\ older' = Redraw!ToTheBack(i)
      /\ sweep' = [sweep EXCEPT !.step = "ask"] /\ half' = half \cup {i}
      /\ skipped' = (skipped \/ \E j \in waiting : i \in passed[j])
      /\ passed' = [j \in Issues |-> IF j = i THEN {}
                                     ELSE IF j \in waiting THEN passed[j] \cup {i} ELSE passed[j]]
      /\ UNCHANGED <<story, due, noted, shows, lively, excused, counted>>
  BY <1>2 DEF Redraw!Record, Redraw!Begins, Redraw!Goes, Redraw!others, Redraw!gitHub
<1>3. /\ \A k \in 2..Len(sweep.left) : sweep.left[k].issue \in Issues \ {i}
                                       /\ i \notin passed[sweep.left[k].issue]
      /\ Redraw!Version \in 1..Len(story[i])
  <2>1. sweep.left \in Seq(ListedRow) /\ \A row \in ListedRow : row.issue \in Issues
    BY RedrawParts DEF SweepKind, ListedRow
  <2>2. \A k \in 2..Len(sweep.left) : k \in 1..Len(sweep.left) /\ 1 < k BY <2>1
  <2>3. \A k \in 1..Len(sweep.left) : sweep.left[k].issue \in Issues BY <2>1
  <2>. QED BY <1>1, <1>2, <2>2, <2>3, RedrawParts DEF SweepIs, IsVersion, TurnsKept
<1>4. waiting \subseteq Issues \ {i} /\ \A j \in waiting : i \notin passed[j] BY <1>3
<1>5. /\ sweep.left \in Seq(ListedRow)
      /\ \A k \in 1..Len(sweep.left) : k = 1 \/ sweep.left[k].issue \in waiting
  BY RedrawParts DEF SweepKind
<1>. HIDE DEF waiting
<1>6. ~skipped' BY <1>1, <1>4, RedrawParts DEF TurnsKept
<1>7. /\ passed' \in [Issues -> SUBSET Issues] /\ passed'[i] = {}
      /\ \A j \in Issues : passed'[j] \subseteq passed[j] \cup {i}
      /\ stored' \in [Issues -> Nat] /\ stored'[i] = Redraw!Version
      /\ \A j \in Issues \ {i} : stored'[j] = stored[j]
      /\ half' \in SUBSET Issues /\ i \in half' /\ \A j \in Issues \ {i} : j \in half' <=> j \in half
  BY <1>1, <1>2, RedrawParts
<1>8. (\A j \in Issues : BehindIt(j)') /\ older' \subseteq Issues \X Issues BY <1>1, <1>2, <1>7, WrittenLast
<1>9. /\ sweep' \in SweepKind /\ sweep'.step = "ask" /\ sweep'.left = sweep.left
      /\ sweep'.found = sweep.found /\ sweep'.time > 0 /\ sweep'.kept = sweep.kept
  BY <1>1, RedrawParts DEF SweepKind, HandSteps
<1>10. RedrawKinds' BY <1>1, <1>6, <1>7, <1>8, <1>9, RedrawParts DEF RedrawKinds
<1>11. Grows BY <1>1 DEF Grows
<1>12. VersionsAre'
  <2>1. /\ \A w \in due[i] : w \in 1..Len(story[i])
        /\ shows[i] # NULL => shows[i].block \in 1..Len(story[i])
    BY <1>2, RedrawParts DEF VersionsAre, IsVersion
  <2>. QED BY <1>1, <1>2, <1>3, <1>7, <1>11, <2>1, VersionsKept
<1>13. SweepIs'
  <2>1. ~sweep.kept BY <1>1, RedrawParts DEF SweepIs
  <2>. QED BY <1>1, <1>2, <1>7, <1>9, <1>11, <2>1, SweepKept
<1>14. ThreadsFound'
  <2>1. \A j \in Issues \ {i} : ~Tended(j) /\ ~Tended(j)' BY <1>1, <1>2, <1>9 DEF Tended, HandSteps
  <2>2. FoundSo(i)'
    <3>1. FoundSo(i) /\ ~Tended(i) BY <1>1, <1>2, RedrawParts DEF ThreadsFound, Tended, HandSteps
    <3>. QED BY <1>1, <1>9, <3>1 DEF FoundSo, Rests
  <2>. QED BY <1>1, <1>2, <2>1, <2>2, FoundKept
<1>15. TurnsKept'
  <2>1. \A j \in Issues : Tended(j)' => passed'[j] = {} BY <1>2, <1>7, <1>9 DEF Tended
  <2>2. \A k, l \in 1..Len(sweep.left) :
           k < l /\ k > 1 => sweep.left[k].issue \notin passed'[sweep.left[l].issue]
    <3>. SUFFICES ASSUME NEW k \in 1..Len(sweep.left), NEW l \in 1..Len(sweep.left), k < l, k > 1
                  PROVE  sweep.left[k].issue \notin passed'[sweep.left[l].issue]
      OBVIOUS
    <3>1. sweep.left[k].issue \in waiting /\ sweep.left[l].issue \in waiting BY <1>5
    <3>2. sweep.left[k].issue \notin passed[sweep.left[l].issue] BY RedrawParts DEF TurnsKept
    <3>. QED BY <1>4, <1>7, <3>1, <3>2
  <2>. QED BY <1>6, <1>8, <1>9, <2>1, <2>2 DEF TurnsKept
<1>16. RowsShown'
  <2>1. ShowsIt(i)'
    <3>1. counted[i] <= stored[i] /\ counted[i] \in Nat /\ stored[i] \in Nat
      BY <1>2, RedrawParts DEF RowsShown, ShowsIt
    <3>. QED BY <1>1, <1>2, <1>7, <3>1 DEF ShowsIt
  <2>. QED BY <1>1, <1>2, <1>7, <2>1, RowsKept
<1>. QED BY <1>10, <1>12, <1>13, <1>14, <1>15, <1>16 DEF RedrawInv

----
\* The issue at hand.

\* What a step that sees to the issue i at hand alone may change.
OnlyOf(i) ==
    /\ UNCHANGED <<story, due, stored, skipped, passed>>
    /\ older' = older \/ older' = Redraw!ToTheBack(i)
    /\ shows' \in [Issues -> ThreadKind \cup {NULL}] /\ noted' \in [Issues -> BOOLEAN]
    /\ lively' \in SUBSET Issues /\ excused' \in SUBSET Issues /\ half' \in SUBSET Issues
    /\ counted' \in [Issues -> Nat]
    /\ shows'[i] # NULL => shows'[i].block \in 1..Len(story[i])
    /\ \A j \in Issues \ {i} : /\ shows'[j] = shows[j] /\ noted'[j] = noted[j]
                               /\ (j \in lively' <=> j \in lively)
                               /\ (j \in excused' <=> j \in excused)
                               /\ (j \in half' <=> j \in half) /\ counted'[j] = counted[j]

\* What follows of it, wherever the run goes on.
LEMMA OneSeenTo ==
  ASSUME RedrawInv, NEW i \in Issues, i = Redraw!Issue, sweep.step \in HandSteps, OnlyOf(i),
         FoundSo(i)', ShowsIt(i)', sweep' \in SweepKind,
         \A j \in Issues \ {i} : ~Tended(j)'
  PROVE  /\ RedrawKinds' /\ Grows /\ VersionsAre' /\ ThreadsFound' /\ RowsShown'
         /\ \A j \in Issues : BehindIt(j)'
<1>1. passed[i] = {} /\ passed' = passed /\ \A j \in Issues \ {i} : ~Tended(j) BY HandHeld DEF OnlyOf
<1>2. (\A j \in Issues : BehindIt(j)') /\ older' \subseteq Issues \X Issues
  <2>1. CASE older' = older BY <1>1, <2>1, RedrawParts DEF TurnsKept, BehindIt
  <2>2. CASE older' # older BY <1>1, <2>2, WrittenLast DEF OnlyOf
  <2>. QED BY <2>1, <2>2
<1>3. RedrawKinds' BY <1>2, RedrawParts DEF RedrawKinds, OnlyOf
<1>4. Grows BY DEF Grows, OnlyOf
<1>5. VersionsAre'
  <2>1. stored[i] \in 1..Len(story[i]) /\ \A w \in due[i] : w \in 1..Len(story[i])
    BY RedrawParts DEF VersionsAre, IsVersion
  <2>. QED BY <1>4, <2>1, VersionsKept DEF OnlyOf
<1>6. ThreadsFound' BY <1>1, FoundKept DEF OnlyOf
<1>7. RowsShown' BY RowsKept DEF OnlyOf
<1>. QED BY <1>2, <1>3, <1>4, <1>5, <1>6, <1>7

LEMMA StaysAtHand ==
  ASSUME RedrawInv, NEW i \in Issues, i = Redraw!Issue, sweep.step \in HandSteps, OnlyOf(i),
         FoundSo(i)', ShowsIt(i)', sweep' \in SweepKind,
         sweep'.step \in HandSteps \ {"ask"}, sweep'.left = sweep.left,
         sweep'.found = sweep.found, sweep'.time = sweep.time
  PROVE  RedrawInv'
<1>1. /\ sweep.left # <<>> /\ sweep.time > 0 /\ i = sweep.left[1].issue
      /\ sweep.left[1].version = stored[sweep.left[1].issue]
  BY HandHeld, RedrawParts DEF SweepIs
<1>2. \A j \in Issues : Tended(j)' <=> j = i BY <1>1 DEF Tended
<1>3. /\ RedrawKinds' /\ Grows /\ VersionsAre' /\ ThreadsFound' /\ RowsShown'
      /\ \A j \in Issues : BehindIt(j)' BY <1>2, OneSeenTo
<1>4. SweepIs' BY <1>1, <1>3, SweepKept DEF OnlyOf, HandSteps
<1>5. TurnsKept'
  <2>1. Tended(i) /\ sweep'.step # "next" BY <1>1 DEF Tended, HandSteps
  <2>. QED BY <1>2, <1>3, <2>1, TurnsStay DEF OnlyOf
<1>. QED BY <1>3, <1>4, <1>5 DEF RedrawInv

LEMMA LeavesHand ==
  ASSUME RedrawInv, NEW i \in Issues, i = Redraw!Issue, sweep.step \in HandSteps, OnlyOf(i),
         FoundSo(i)', ShowsIt(i)', Redraw!NextOne
  PROVE  RedrawInv'
<1>1. PICK t \in 0..PerRun :
         sweep' = [step |-> "next", found |-> {}, left |-> Tail(sweep.left), time |-> t,
                   archived |-> FALSE, kept |-> FALSE] BY HandHeld, NextIs
<1>2. \A j \in Issues : ~Tended(j)' BY <1>1 DEF Tended, HandSteps
<1>3. sweep' \in SweepKind
  <2>1. sweep.left \in Seq(ListedRow) /\ sweep.left # <<>> BY HandHeld, RedrawParts DEF SweepKind
  <2>2. Tail(sweep.left) \in Seq(ListedRow) BY <2>1
  <2>. QED BY <1>1, <2>2 DEF SweepKind
<1>4. /\ RedrawKinds' /\ VersionsAre' /\ ThreadsFound' /\ RowsShown'
      /\ \A j \in Issues : BehindIt(j)' BY <1>2, <1>3, OneSeenTo
<1>5. SweepIs' /\ TurnsKept' BY <1>1, <1>4, HandHeld, TurnsOver DEF OnlyOf
<1>. QED BY <1>4, <1>5 DEF RedrawInv

\* How the run goes on with the issue at hand.
LEMMA StepsOn ==
  ASSUME RedrawInv, sweep.step \in HandSteps, NEW s \in HandSteps, Redraw!Goes(s)
  PROVE  /\ sweep' \in SweepKind /\ sweep'.step = s
         /\ sweep'.archived = sweep.archived /\ sweep'.kept = sweep.kept
         /\ sweep'.left = sweep.left /\ sweep'.found = sweep.found /\ sweep'.time = sweep.time
  BY RedrawParts DEF SweepKind, Redraw!Goes

LEMMA NothingOf ==
  ASSUME RedrawInv, NEW i \in Issues,
         UNCHANGED <<story, due, stored, noted, older, shows, lively, excused, passed, skipped, half,
                     counted>>
  PROVE  OnlyOf(i) /\ ShowsIt(i)'
<1>1. shows[i] # NULL => shows[i].block \in 1..Len(story[i]) BY RedrawParts DEF VersionsAre, IsVersion
<1>2. ShowsIt(i)' BY RedrawParts DEF RowsShown, ShowsIt
<1>. QED BY <1>1, <1>2, RedrawParts DEF OnlyOf

\* What is known of the thread at hand.
LEMMA HandFound ==
  ASSUME RedrawInv, NEW i \in Issues, i = Redraw!Issue, sweep.step \in HandSteps
  PROVE  /\ Tended(i) /\ sweep.archived \in BOOLEAN /\ sweep.kept \in BOOLEAN /\ noted[i] \in BOOLEAN
         /\ shows[i] # NULL => /\ shows[i] \in ThreadKind /\ (shows[i].locked => noted[i])
                               /\ sweep.step = "ask" => shows[i].locked \/ Rests(i)
                               /\ sweep.step # "ask" => WokenSo(i)
         /\ sweep.step = "ask" => ~sweep.kept
<1>1. Tended(i) /\ FoundSo(i) BY HandHeld, RedrawParts DEF ThreadsFound
<1>. QED BY <1>1, ThreadIs, RedrawParts DEF FoundSo, SweepKind, SweepIs

LEMMA ThreadAsked ==
  ASSUME RedrawInv, Redraw!Ask \/ Redraw!AskFails PROVE RedrawInv'
<1>1. /\ sweep.step = "ask" /\ sweep.step \in HandSteps
      /\ UNCHANGED <<story, due, stored, noted, older, shows, lively, excused, passed, skipped, half,
                     counted>>
  BY DEF Redraw!Ask, Redraw!AskFails, Redraw!others, Redraw!gitHub, Redraw!rows, Redraw!tallies, HandSteps
<1>2. PICK i \in Issues : i = Redraw!Issue BY <1>1, HandHeld
<1>3. OnlyOf(i) /\ ShowsIt(i)' BY <1>1, NothingOf
<1>4. /\ Tended(i) /\ ~sweep.kept /\ sweep.kept \in BOOLEAN
      /\ shows[i] # NULL => /\ shows[i] \in ThreadKind /\ (shows[i].locked => noted[i])
                            /\ shows[i].locked \/ Rests(i)
  BY <1>1, <1>2, HandFound
<1>5. CASE Redraw!AskFails
  <2>1. Redraw!NextOne BY <1>5 DEF Redraw!AskFails
  <2>2. sweep'.step = "next" BY <1>1, <2>1, HandHeld, NextIs
  <2>3. FoundSo(i)' BY <1>1, <1>4, <2>2 DEF FoundSo, Tended, HandSteps, Rests
  <2>. QED BY <1>1, <1>2, <1>3, <2>1, <2>3, LeavesHand
<1>6. CASE Redraw!Ask
  <2>. DEFINE a == shows[i] # NULL /\ shows[i].archived
  <2>1. sweep' = [sweep EXCEPT !.step = "unlock", !.archived = a] BY <1>2, <1>6 DEF Redraw!Ask
  <2>2. a \in BOOLEAN BY <1>4 DEF ThreadKind
  <2>3. shows[i] # NULL => (a <=> shows[i].archived) OBVIOUS
  <2>. HIDE DEF a
  <2>4. /\ sweep' \in SweepKind /\ sweep'.step = "unlock" /\ sweep'.archived = a
        /\ sweep'.kept = sweep.kept
        /\ sweep'.left = sweep.left /\ sweep'.found = sweep.found /\ sweep'.time = sweep.time
    BY <2>1, <2>2, RedrawParts DEF SweepKind, HandSteps
  <2>5. FoundSo(i)'
    <3>1. shows[i] # NULL => WokenSo(i)' BY <1>1, <1>4, <2>2, <2>3, <2>4 DEF WokenSo, Rests, ThreadKind
    <3>2. Tended(i)' BY <1>4, <2>4 DEF Tended, HandSteps
    <3>. QED BY <1>1, <1>4, <2>4, <3>1, <3>2 DEF FoundSo
  <2>. QED BY <1>1, <1>2, <1>3, <2>4, <2>5, StaysAtHand DEF HandSteps
<1>. QED BY <1>5, <1>6

\* A refusal, and a thread that is gone: the run goes on, and nothing is changed.
LEMMA SteppedOver ==
  ASSUME RedrawInv, Redraw!UnlockGone \/ Redraw!UnlockRefused \/ Redraw!TellFails PROVE RedrawInv'
<1>1. /\ sweep.step \in {"unlock", "tell"} /\ sweep.step \in HandSteps /\ sweep.step # "ask"
      /\ Redraw!Goes("write") \/ Redraw!Goes("again")
      /\ UNCHANGED <<story, due, stored, noted, older, shows, lively, excused, passed, skipped, half,
                     counted>>
  BY DEF Redraw!UnlockGone, Redraw!UnlockRefused, Redraw!TellFails, Redraw!others, Redraw!gitHub, Redraw!rows,
    Redraw!tallies, HandSteps
<1>2. PICK i \in Issues : i = Redraw!Issue BY <1>1, HandHeld
<1>3. OnlyOf(i) /\ ShowsIt(i)' BY <1>1, NothingOf
<1>4. /\ Tended(i)
      /\ shows[i] # NULL => (shows[i].locked => noted[i]) /\ WokenSo(i)
  BY <1>1, <1>2, HandFound
<1>5. /\ sweep' \in SweepKind /\ sweep'.step \in {"write", "again"}
      /\ sweep'.archived = sweep.archived /\ sweep'.kept = sweep.kept
      /\ sweep'.left = sweep.left /\ sweep'.found = sweep.found /\ sweep'.time = sweep.time
  BY <1>1, StepsOn DEF HandSteps
<1>6. FoundSo(i)'
  <2>1. shows[i] # NULL => WokenSo(i)' BY <1>1, <1>4, <1>5 DEF WokenSo
  <2>. QED BY <1>1, <1>4, <1>5, <2>1 DEF FoundSo, Tended, HandSteps
<1>. QED BY <1>1, <1>2, <1>3, <1>5, <1>6, StaysAtHand DEF HandSteps

\* A thread is given back: open again, and nobody's archived thread if its being open is news.
LEMMA GivenBackNow ==
  ASSUME RedrawInv, Redraw!Unlock PROVE RedrawInv'
<1>1. /\ sweep.step = "unlock" /\ sweep.step \in HandSteps /\ sweep.step # "ask"
      /\ UNCHANGED <<story, due, stored, noted, older, excused, passed, skipped, half, counted>>
  BY DEF Redraw!Unlock, Redraw!others, Redraw!gitHub, Redraw!rows, Redraw!tallies, HandSteps
<1>2. PICK i \in Issues : i = Redraw!Issue BY <1>1, HandHeld
<1>3. /\ shows[i] # NULL
      /\ shows' = [shows EXCEPT ![i].archived = FALSE, ![i].locked = FALSE]
      /\ sweep' = [sweep EXCEPT !.step = "tell", !.kept = noted[i]]
      /\ lively' = IF noted[i] THEN lively \cup {i} ELSE lively
  BY <1>2 DEF Redraw!Unlock, Redraw!GivenBack
<1>4. /\ Tended(i) /\ noted[i] \in BOOLEAN
      /\ shows[i] \in ThreadKind /\ (shows[i].locked => noted[i]) /\ WokenSo(i)
  BY <1>1, <1>2, <1>3, HandFound
<1>5. /\ sweep' \in SweepKind /\ sweep'.step = "tell" /\ sweep'.kept = noted[i]
      /\ sweep'.archived = sweep.archived
      /\ sweep'.left = sweep.left /\ sweep'.found = sweep.found /\ sweep'.time = sweep.time
  BY <1>3, <1>4, RedrawParts DEF SweepKind, HandSteps
<1>6. /\ shows' \in [Issues -> ThreadKind \cup {NULL}]
      /\ shows'[i].block = shows[i].block /\ shows'[i].archived = FALSE /\ shows'[i].locked = FALSE
      /\ \A j \in Issues \ {i} : shows'[j] = shows[j]
  <2>. DEFINE t == [shows[i] EXCEPT !.archived = FALSE, !.locked = FALSE]
  <2>1. /\ t \in ThreadKind /\ t.block = shows[i].block
        /\ t.archived = FALSE /\ t.locked = FALSE BY <1>4 DEF ThreadKind
  <2>2. shows'[i] = t /\ shows' \in [Issues -> ThreadKind \cup {NULL}] BY <1>3, <2>1, RedrawParts
  <2>. HIDE DEF t
  <2>. QED BY <1>3, <2>1, <2>2, RedrawParts
<1>7. OnlyOf(i)
  <2>1. shows[i].block \in 1..Len(story[i]) BY <1>3, RedrawParts DEF VersionsAre, IsVersion
  <2>. QED BY <1>1, <1>3, <1>6, <2>1, RedrawParts DEF OnlyOf
<1>8. FoundSo(i)'
  <2>1. WokenSo(i)' BY <1>1, <1>3, <1>4, <1>5, <1>6 DEF WokenSo
  <2>. QED BY <1>1, <1>4, <1>5, <1>6, <2>1 DEF FoundSo, Tended, HandSteps
<1>9. ShowsIt(i)' BY <1>1, <1>3, <1>6, RedrawParts DEF RowsShown, ShowsIt
<1>. QED BY <1>1, <1>2, <1>5, <1>7, <1>8, <1>9, StaysAtHand DEF HandSteps

\* The row is told of it, and stands for open.
LEMMA ToldOf ==
  ASSUME RedrawInv, Redraw!Tell PROVE RedrawInv'
<1>1. /\ sweep.step = "tell" /\ sweep.step \in HandSteps /\ sweep.step # "ask"
      /\ UNCHANGED <<story, due, stored, shows, lively, excused, passed, skipped, half, counted>>
      /\ Redraw!Goes("write")
  BY DEF Redraw!Tell, Redraw!others, Redraw!gitHub, Redraw!tallies, HandSteps
<1>2. PICK i \in Issues : i = Redraw!Issue BY <1>1, HandHeld
<1>3. noted' = [noted EXCEPT ![i] = FALSE] /\ older' = Redraw!ToTheBack(i) BY <1>2 DEF Redraw!Tell
<1>4. Tended(i) /\ (shows[i] # NULL => WokenSo(i)) BY <1>1, <1>2, HandFound
<1>5. /\ sweep' \in SweepKind /\ sweep'.step = "write"
      /\ sweep'.archived = sweep.archived /\ sweep'.kept = sweep.kept
      /\ sweep'.left = sweep.left /\ sweep'.found = sweep.found /\ sweep'.time = sweep.time
  BY <1>1, StepsOn DEF HandSteps
<1>6. /\ noted' \in [Issues -> BOOLEAN] /\ \A j \in Issues \ {i} : noted'[j] = noted[j] BY <1>3, RedrawParts
<1>7. OnlyOf(i)
  <2>1. shows[i] # NULL => shows[i].block \in 1..Len(story[i]) BY RedrawParts DEF VersionsAre, IsVersion
  <2>. QED BY <1>1, <1>3, <1>6, <2>1, RedrawParts DEF OnlyOf
<1>8. FoundSo(i)'
  <2>1. shows[i] # NULL => ~shows[i].locked /\ WokenSo(i)' BY <1>1, <1>4, <1>5 DEF WokenSo
  <2>. QED BY <1>1, <1>4, <1>5, <2>1 DEF FoundSo, Tended, HandSteps
<1>9. ShowsIt(i)' BY <1>1, RedrawParts DEF RowsShown, ShowsIt
<1>. QED BY <1>1, <1>2, <1>5, <1>7, <1>8, <1>9, StaysAtHand DEF HandSteps

\* The block is written, in a thread that was woken for it or opened anew.
LEMMA BlockWritten ==
  ASSUME RedrawInv, Redraw!Write PROVE RedrawInv'
<1>1. /\ sweep.step = "write" /\ sweep.step \in HandSteps /\ sweep.step # "ask"
      /\ UNCHANGED <<story, due, stored, excused, passed, skipped>>
  BY DEF Redraw!Write, Redraw!others, Redraw!gitHub, HandSteps
<1>2. PICK i \in Issues : i = Redraw!Issue BY <1>1, HandHeld
<1>3. /\ Redraw!Version = stored[i] /\ stored[i] \in 1..Len(story[i]) /\ stored[i] \in Nat
      /\ Tended(i) /\ noted[i] \in BOOLEAN /\ sweep.archived \in BOOLEAN /\ sweep.kept \in BOOLEAN
  BY <1>1, <1>2, HandHeld, HandFound, RedrawParts DEF VersionsAre, IsVersion
<1>4. /\ counted' = [counted EXCEPT ![i] = stored[i]] /\ half' = half \ {i}
      /\ older' = Redraw!ToTheBack(i) BY <1>2, <1>3 DEF Redraw!Write
<1>5. /\ counted' \in [Issues -> Nat] /\ counted'[i] = stored[i] /\ half' \in SUBSET Issues
      /\ \A j \in Issues \ {i} : counted'[j] = counted[j] /\ (j \in half' <=> j \in half)
  BY <1>3, <1>4, RedrawParts
<1>6. CASE shows[i] = NULL
  <2>1. /\ shows' = [shows EXCEPT ![i] = Redraw!Opened(stored[i])]
        /\ noted' = [noted EXCEPT ![i] = FALSE]
        /\ sweep' = [sweep EXCEPT !.step = "again", !.kept = TRUE]
        /\ lively' = lively \cup {i} BY <1>2, <1>3, <1>6 DEF Redraw!Write
  <2>. DEFINE t == Redraw!Opened(stored[i])
  <2>2. t \in ThreadKind /\ t.block = stored[i] /\ t.archived = FALSE /\ t.locked = FALSE
    BY <1>3 DEF ThreadKind, Redraw!Opened
  <2>3. shows'[i] = t /\ shows' \in [Issues -> ThreadKind \cup {NULL}] BY <2>1, <2>2, RedrawParts
  <2>. HIDE DEF t
  <2>4. /\ sweep' \in SweepKind /\ sweep'.step = "again" /\ sweep'.kept = TRUE
        /\ sweep'.left = sweep.left /\ sweep'.found = sweep.found /\ sweep'.time = sweep.time
    BY <2>1, RedrawParts DEF SweepKind, HandSteps
  <2>5. /\ noted' \in [Issues -> BOOLEAN] /\ lively' \in SUBSET Issues /\ i \in lively'
        /\ \A j \in Issues \ {i} : /\ shows'[j] = shows[j] /\ noted'[j] = noted[j]
                                   /\ (j \in lively' <=> j \in lively)
    BY <2>1, RedrawParts
  <2>6. OnlyOf(i) BY <1>1, <1>3, <1>4, <1>5, <2>2, <2>3, <2>5, RedrawParts DEF OnlyOf
  <2>7. FoundSo(i)'
    <3>1. WokenSo(i)' BY <2>2, <2>3, <2>4, <2>5 DEF WokenSo
    <3>. QED BY <1>3, <2>2, <2>3, <2>4, <3>1 DEF FoundSo, Tended, HandSteps
  <2>8. ShowsIt(i)' BY <1>1, <1>3, <1>5, <2>2, <2>3 DEF ShowsIt
  <2>. QED BY <1>1, <1>2, <2>4, <2>6, <2>7, <2>8, StaysAtHand DEF HandSteps
<1>7. CASE shows[i] # NULL
  <2>1. /\ shows' = [shows EXCEPT ![i] = [Redraw!Woken(i) EXCEPT !.block = stored[i]]]
        /\ Redraw!Goes("again") /\ UNCHANGED <<noted, lively>>
    BY <1>2, <1>3, <1>7 DEF Redraw!Write
  <2>. DEFINE t == [Redraw!Woken(i) EXCEPT !.block = stored[i]]
  <2>2. /\ (shows[i].locked => noted[i]) /\ WokenSo(i)
        /\ Redraw!Woken(i) \in ThreadKind /\ Redraw!Woken(i).archived = FALSE
        /\ Redraw!Woken(i).locked = shows[i].locked
    BY <1>1, <1>2, <1>7, HandFound, ThreadIs
  <2>3. t \in ThreadKind /\ t.block = stored[i] /\ t.archived = FALSE /\ t.locked = shows[i].locked
    BY <1>3, <2>2 DEF ThreadKind
  <2>4. shows'[i] = t /\ shows' \in [Issues -> ThreadKind \cup {NULL}] BY <2>1, <2>3, RedrawParts
  <2>. HIDE DEF t
  <2>5. /\ sweep' \in SweepKind /\ sweep'.step = "again"
        /\ sweep'.archived = sweep.archived /\ sweep'.kept = sweep.kept
        /\ sweep'.left = sweep.left /\ sweep'.found = sweep.found /\ sweep'.time = sweep.time
    BY <1>1, <2>1, StepsOn DEF HandSteps
  <2>6. OnlyOf(i) BY <1>1, <1>3, <1>4, <1>5, <2>1, <2>3, <2>4, RedrawParts DEF OnlyOf
  <2>7. FoundSo(i)'
    <3>1. WokenSo(i)' BY <1>1, <2>1, <2>2, <2>3, <2>4, <2>5 DEF WokenSo
    <3>. QED BY <1>3, <2>1, <2>2, <2>3, <2>4, <2>5, <3>1 DEF FoundSo, Tended, HandSteps
  <2>8. ShowsIt(i)' BY <1>1, <1>3, <1>5, <2>3, <2>4 DEF ShowsIt
  <2>. QED BY <1>1, <1>2, <2>5, <2>6, <2>7, <2>8, StaysAtHand DEF HandSteps
<1>. QED BY <1>6, <1>7

\* A thread that was woken, and whose block Discord then refused.
LEMMA BlockRefused ==
  ASSUME RedrawInv, Redraw!WriteFails PROVE RedrawInv'
<1>1. /\ sweep.step = "write" /\ sweep.step \in HandSteps /\ sweep.step # "ask"
      /\ UNCHANGED <<story, due, stored, noted, older, lively, excused, passed, skipped, half, counted>>
      /\ Redraw!Goes("again")
  BY DEF Redraw!WriteFails, Redraw!others, Redraw!gitHub, Redraw!rows, Redraw!tallies, HandSteps
<1>2. PICK i \in Issues : i = Redraw!Issue BY <1>1, HandHeld
<1>3. shows[i] # NULL /\ shows' = [shows EXCEPT ![i] = Redraw!Woken(i)] BY <1>2 DEF Redraw!WriteFails
<1>4. Tended(i) /\ (shows[i].locked => noted[i]) /\ WokenSo(i) BY <1>1, <1>2, <1>3, HandFound
<1>5. /\ Redraw!Woken(i) \in ThreadKind /\ Redraw!Woken(i).archived = FALSE
      /\ Redraw!Woken(i).locked = shows[i].locked /\ Redraw!Woken(i).block = shows[i].block
  BY <1>3, ThreadIs
<1>6. /\ shows'[i] = Redraw!Woken(i) /\ shows' \in [Issues -> ThreadKind \cup {NULL}]
      /\ \A j \in Issues \ {i} : shows'[j] = shows[j] BY <1>3, <1>5, RedrawParts
<1>7. /\ sweep' \in SweepKind /\ sweep'.step = "again"
      /\ sweep'.archived = sweep.archived /\ sweep'.kept = sweep.kept
      /\ sweep'.left = sweep.left /\ sweep'.found = sweep.found /\ sweep'.time = sweep.time
  BY <1>1, StepsOn DEF HandSteps
<1>8. OnlyOf(i)
  <2>1. shows[i].block \in 1..Len(story[i]) BY <1>3, RedrawParts DEF VersionsAre, IsVersion
  <2>. QED BY <1>1, <1>5, <1>6, <2>1, RedrawParts DEF OnlyOf
<1>9. FoundSo(i)'
  <2>1. WokenSo(i)' BY <1>1, <1>4, <1>5, <1>6, <1>7 DEF WokenSo
  <2>. QED BY <1>1, <1>4, <1>5, <1>6, <1>7, <2>1 DEF FoundSo, Tended, HandSteps
<1>10. ShowsIt(i)' BY <1>1, <1>3, <1>5, <1>6, RedrawParts DEF RowsShown, ShowsIt
<1>. QED BY <1>1, <1>2, <1>7, <1>8, <1>9, <1>10, StaysAtHand DEF HandSteps

\* The way out: the thread is put back as it was found, or Discord refuses to.
LEMMA PutBack ==
  ASSUME RedrawInv, Redraw!ArchiveAgain \/ Redraw!ArchiveRefused PROVE RedrawInv'
<1>1. /\ sweep.step = "again" /\ sweep.step \in HandSteps /\ sweep.step # "ask"
      /\ UNCHANGED <<story, due, stored, noted, older, lively, passed, skipped, half, counted>>
      /\ Redraw!NextOne
  BY DEF Redraw!ArchiveAgain, Redraw!ArchiveRefused, Redraw!others, Redraw!gitHub, Redraw!rows,
    Redraw!tallies, HandSteps
<1>2. PICK i \in Issues : i = Redraw!Issue BY <1>1, HandHeld
<1>3. /\ sweep.archived \in BOOLEAN /\ sweep.kept \in BOOLEAN
      /\ shows[i] # NULL => /\ shows[i] \in ThreadKind /\ (shows[i].locked => noted[i]) /\ WokenSo(i)
                            /\ shows[i].block \in 1..Len(story[i])
  BY <1>1, <1>2, HandFound, RedrawParts DEF VersionsAre, IsVersion
<1>4. ~Tended(i)'
  <2>1. sweep'.step = "next" BY <1>1, HandHeld, NextIs
  <2>. QED BY <2>1 DEF Tended, HandSteps
<1>5. CASE Redraw!ArchiveRefused
  <2>1. shows' = shows /\ excused' = excused \cup {i} BY <1>2, <1>5 DEF Redraw!ArchiveRefused
  <2>2. OnlyOf(i) BY <1>1, <1>3, <2>1, RedrawParts DEF OnlyOf
  <2>3. FoundSo(i)' /\ ShowsIt(i)'
    BY <1>1, <1>3, <1>4, <2>1, RedrawParts DEF FoundSo, Rests, RowsShown, ShowsIt
  <2>. QED BY <1>1, <1>2, <2>2, <2>3, LeavesHand
<1>6. CASE Redraw!ArchiveAgain /\ Redraw!PutsBack
  <2>1. /\ shows' = [shows EXCEPT ![i].archived = TRUE] /\ excused' = excused
        /\ shows[i] # NULL /\ sweep.archived /\ ~sweep.kept
    BY <1>2, <1>6 DEF Redraw!ArchiveAgain, Redraw!PutsBack
  <2>. DEFINE t == [shows[i] EXCEPT !.archived = TRUE]
  <2>2. t \in ThreadKind /\ t.block = shows[i].block /\ t.archived = TRUE /\ t.locked = shows[i].locked
    BY <1>3, <2>1 DEF ThreadKind
  <2>3. /\ shows'[i] = t /\ shows' \in [Issues -> ThreadKind \cup {NULL}]
        /\ \A j \in Issues \ {i} : shows'[j] = shows[j]
    BY <2>1, <2>2, RedrawParts
  <2>. HIDE DEF t
  <2>4. OnlyOf(i) BY <1>1, <1>3, <2>1, <2>2, <2>3, RedrawParts DEF OnlyOf
  <2>5. FoundSo(i)' BY <1>1, <1>3, <1>4, <2>1, <2>2, <2>3 DEF FoundSo, WokenSo, Rests, ThreadKind
  <2>6. ShowsIt(i)' BY <1>1, <2>1, <2>2, <2>3, RedrawParts DEF RowsShown, ShowsIt
  <2>. QED BY <1>1, <1>2, <2>4, <2>5, <2>6, LeavesHand
<1>7. CASE Redraw!ArchiveAgain /\ ~Redraw!PutsBack
  <2>1. /\ shows' = shows /\ excused' = excused
        /\ shows[i] = NULL \/ ~sweep.archived \/ sweep.kept
    BY <1>2, <1>7 DEF Redraw!ArchiveAgain, Redraw!PutsBack
  <2>2. OnlyOf(i) BY <1>1, <1>3, <2>1, RedrawParts DEF OnlyOf
  <2>3. FoundSo(i)' /\ ShowsIt(i)'
    <3>1. ShowsIt(i)' BY <1>1, <2>1, RedrawParts DEF RowsShown, ShowsIt
    <3>2. FoundSo(i)' BY <1>1, <1>3, <1>4, <2>1 DEF FoundSo, WokenSo, Rests, ThreadKind
    <3>. QED BY <3>1, <3>2
  <2>. QED BY <1>1, <1>2, <2>2, <2>3, LeavesHand
<1>. QED BY <1>5, <1>6, <1>7

LEMMA RedrawStep == RedrawInv /\ Redraw!Next => RedrawInv'
<1>. SUFFICES ASSUME RedrawInv, Redraw!Next PROVE RedrawInv' OBVIOUS
<1>1. CASE Redraw!Redraw
  BY <1>1, ListKept, OrderKeeps, FinishKeeps, BusyKeeps, RedrawnStale, RedrawRecorded, ThreadAsked,
    GivenBackNow, SteppedOver, ToldOf, BlockWritten, BlockRefused, PutBack, DiesSo DEF Redraw!Redraw
<1>2. CASE \E i \in Issues :
              \/ Redraw!Change(i) \/ Redraw!Talk(i) \/ Redraw!GoesQuiet(i) \/ Redraw!Delete(i)
              \/ \E v \in due[i] : \/ Redraw!DeliverStale(i, v) \/ Redraw!Deliver(i, v)
                                   \/ Redraw!DeliverFails(i, v)
  BY <1>2, IssueChanges, PeopleAct, TurnedAway, DeliveredWhole, DeliveredHalf
<1>. QED BY <1>1, <1>2 DEF Redraw!Next

LEMMA RedrawsApart == RedrawInv /\ UNCHANGED redrawsAside => RedrawInv'
<1>. SUFFICES ASSUME RedrawInv, UNCHANGED redrawsAside PROVE RedrawInv' OBVIOUS
<1>. USE DEF redrawsAside, RedrawInv
<1>1. RedrawKinds' /\ RowsShown' /\ VersionsAre' /\ SweepIs'
  BY DEF RedrawKinds, RowsShown, ShowsIt, VersionsAre, SweepIs, IsVersion
<1>2. ThreadsFound' BY DEF ThreadsFound, FoundSo, WokenSo, Tended, Rests
<1>3. TurnsKept' BY DEF TurnsKept, BehindIt, Tended
<1>. QED BY <1>1, <1>2, <1>3

----
\* Reading a board.  A page is the first few of what comes after a place:
\* it is full unless it holds all of it, and every card up to its last is
\* on it.

Preceding(S, spot, c) == {d \in S : spot[d] < spot[c]}
FirstFew(S, spot, n)  == {c \in S : Cardinality(Preceding(S, spot, c)) < n}

LEMMA LeastNatural ==
  ASSUME NEW S, S \subseteq Nat, S # {} PROVE \E m \in S : \A k \in S : m <= k
<1>1. PICK m \in S : \A k \in S : <<k, m>> \notin OpToRel(<, Nat) BY NatLessThanWellFounded, WFMin
<1>2. \A k \in S : ~(k < m) BY <1>1 DEF OpToRel
<1>3. \A k \in S : m <= k BY <1>2
<1>. QED BY <1>3

LEMMA FirstOnes ==
  ASSUME NEW D, NEW S, IsFiniteSet(S), S \subseteq D, NEW spot \in [D -> Nat], NEW n \in Nat
  PROVE  /\ \A c \in S : /\ Cardinality(Preceding(S, spot, c)) \in Nat
                         /\ Cardinality(Preceding(S, spot, c)) < Cardinality(S)
         /\ IsFiniteSet(FirstFew(S, spot, n)) /\ FirstFew(S, spot, n) \subseteq S
         /\ \A c \in FirstFew(S, spot, n), d \in S : spot[d] <= spot[c] => d \in FirstFew(S, spot, n)
         /\ Cardinality(S) <= n => FirstFew(S, spot, n) = S
<1>1. ASSUME NEW c \in S
      PROVE  /\ IsFiniteSet(Preceding(S, spot, c)) /\ Cardinality(Preceding(S, spot, c)) \in Nat
             /\ Cardinality(Preceding(S, spot, c)) < Cardinality(S)
  <2>1. Preceding(S, spot, c) \in SUBSET S /\ c \notin Preceding(S, spot, c) /\ spot[c] \in Nat
    BY DEF Preceding
  <2>2. /\ IsFiniteSet(Preceding(S, spot, c))
        /\ Cardinality(Preceding(S, spot, c)) <= Cardinality(S)
        /\ Cardinality(S) = Cardinality(Preceding(S, spot, c)) => S = Preceding(S, spot, c)
    BY <2>1, FS_Subset
  <2>. QED BY <2>1, <2>2, FS_CardinalityType
<1>2. IsFiniteSet(FirstFew(S, spot, n)) /\ FirstFew(S, spot, n) \subseteq S
  <2>1. FirstFew(S, spot, n) \in SUBSET S BY DEF FirstFew
  <2>. QED BY <2>1, FS_Subset
<1>3. ASSUME NEW c \in FirstFew(S, spot, n), NEW d \in S, spot[d] <= spot[c] PROVE d \in FirstFew(S, spot, n)
  <2>1. c \in S /\ spot[c] \in Nat /\ spot[d] \in Nat /\ \A e \in S : spot[e] \in Nat BY DEF FirstFew
  <2>2. Preceding(S, spot, d) \in SUBSET Preceding(S, spot, c) BY <1>3, <2>1 DEF Preceding
  <2>3. Cardinality(Preceding(S, spot, d)) <= Cardinality(Preceding(S, spot, c))
    BY <1>1, <2>1, <2>2, FS_Subset
  <2>. QED BY <1>1, <2>1, <2>3 DEF FirstFew
<1>4. Cardinality(S) <= n => FirstFew(S, spot, n) = S BY <1>1, <1>2, FS_CardinalityType DEF FirstFew
<1>. QED BY <1>1, <1>2, <1>3, <1>4

\* The least of those left off the page has the page before it.
LEMMA FullPage ==
  ASSUME NEW D, NEW S, IsFiniteSet(S), S \subseteq D, NEW spot \in [D -> Nat], NEW n \in Nat,
         FirstFew(S, spot, n) # S
  PROVE  Cardinality(FirstFew(S, spot, n)) \in Nat /\ Cardinality(FirstFew(S, spot, n)) >= n
<1>. DEFINE off == S \ FirstFew(S, spot, n)
            T   == {spot[c] : c \in off}
<1>1. off # {} /\ \A c \in S : spot[c] \in Nat BY FirstOnes
<1>2. PICK m \in T : \A k \in T : m <= k
  <2>1. T \subseteq Nat /\ T # {} BY <1>1
  <2>. HIDE DEF T
  <2>. QED BY <2>1, LeastNatural
<1>3. PICK c \in off : \A d \in off : spot[c] <= spot[d] BY <1>2
<1>4. Preceding(S, spot, c) \in SUBSET FirstFew(S, spot, n) BY <1>1, <1>3 DEF Preceding
<1>5. /\ Cardinality(Preceding(S, spot, c)) \in Nat /\ Cardinality(Preceding(S, spot, c)) >= n
      /\ IsFiniteSet(FirstFew(S, spot, n))
  <2>1. c \in S /\ c \notin FirstFew(S, spot, n) BY <1>3
  <2>2. Cardinality(Preceding(S, spot, c)) \in Nat /\ IsFiniteSet(FirstFew(S, spot, n)) BY <2>1, FirstOnes
  <2>3. ~(Cardinality(Preceding(S, spot, c)) < n) BY <2>1 DEF FirstFew
  <2>. QED BY <2>2, <2>3
<1>. QED BY <1>4, <1>5, FS_Subset, FS_CardinalityType

\* A page that is not empty has a last card.
LEMMA LastOne ==
  ASSUME NEW D, NEW S, IsFiniteSet(S), S \subseteq D, NEW spot \in [D -> Nat], S # {}
  PROVE  \E c \in S : \A d \in S : spot[d] <= spot[c]
<1>. DEFINE before(c) == Cardinality(Preceding(S, spot, c))
            T == {Cardinality(S) - before(c) : c \in S}
<1>1. /\ \A c \in S : spot[c] \in Nat /\ before(c) \in Nat /\ before(c) < Cardinality(S)
      /\ Cardinality(S) \in Nat BY FirstOnes, FS_CardinalityType
<1>2. PICK m \in T : \A k \in T : m <= k
  <2>1. T \subseteq Nat /\ T # {} BY <1>1
  <2>. HIDE DEF T
  <2>. QED BY <2>1, LeastNatural
<1>3. PICK c \in S : m = Cardinality(S) - before(c) BY <1>2
<1>4. \A d \in S : Cardinality(S) - before(c) <= Cardinality(S) - before(d) BY <1>2, <1>3
<1>5. ASSUME NEW d \in S, spot[c] < spot[d] PROVE FALSE
  <2>1. Preceding(S, spot, c) \in SUBSET Preceding(S, spot, d) /\ c \in Preceding(S, spot, d)
        /\ c \notin Preceding(S, spot, c) BY <1>1, <1>5 DEF Preceding
  <2>2. Preceding(S, spot, d) \in SUBSET S BY DEF Preceding
  <2>3. IsFiniteSet(Preceding(S, spot, d)) BY <2>2, FS_Subset
  <2>4. before(c) <= before(d) /\ (before(d) = before(c) => Preceding(S, spot, d) = Preceding(S, spot, c))
    BY <2>1, <2>3, FS_Subset
  <2>5. before(c) < before(d) BY <1>1, <2>1, <2>4
  <2>6. Cardinality(S) - before(c) <= Cardinality(S) - before(d) BY <1>4
  <2>7. before(c) \in Nat /\ before(d) \in Nat /\ Cardinality(S) \in Nat BY <1>1
  <2>. HIDE DEF before
  <2>. QED BY <2>5, <2>6, <2>7
<1>. QED BY <1>1, <1>5

RowKind  == [card : AllCards, version : Nat, rank : Nat]
ToRead   == {<<"board", "other">>, <<"other", "board">>, <<"board">>}
AtBoard  == {<<"board", "other">>, <<"board">>}
PassKind == [step : {"waiting", "choosing", "paging", "listed"}, todo : ToRead \cup {<<"other">>, <<>>}]

ReadingKinds ==
    /\ place \in [AllCards -> Places \cup {0}]
    /\ \A c, d \in AllCards : c # d /\ place[c] # 0 => place[c] # place[d]
    /\ version \in [AllCards -> Nat] /\ \A c \in AllCards : version[c] <= edits
    /\ edits \in 0..MaxEdits
    /\ shown \in [AllCards -> Nat \cup {NULL}]
    /\ \A c \in AllCards : shown[c] # NULL => shown[c] <= version[c]
    /\ kept # NULL => kept.listing = <<kept.etag>> /\ Cardinality(kept.etag) < PageSize
    /\ round \in PassKind
    /\ listing \in Seq(SUBSET RowKind) /\ Len(listing) <= MaxPages
    /\ \A k \in 1..Len(listing) : \A r \in listing[k] : r.version <= version[r.card]
    /\ cursor \in Nat /\ wait \in {"fast", "slow", "told"}
    /\ cheap \in BOOLEAN /\ still \in BOOLEAN /\ whole \in BOOLEAN

PassIs ==
    /\ round.step = "waiting" => round.todo = <<>>
    /\ round.step \in {"paging", "listed"} => round.todo \in AtBoard
    /\ round.step \in {"waiting", "choosing"} => listing = <<>>
    /\ round.step = "paging" => listing # <<>> /\ Len(listing) < MaxPages

\* While nothing changes, what is listed is as it is, and every card up to the cursor is.
OnList(c) == \E k \in 1..Len(listing) : \E r \in listing[k] : r.card = c
Behind    == {c \in Reading!OnBoard : place[c] <= cursor}
Reached   == Cardinality(Reading!OnBoard) <= PageSize * MaxPages
ListedSo ==
    still =>
        /\ \A k \in 1..Len(listing) : \A r \in listing[k] : r.version = version[r.card]
        /\ round.step = "paging" => /\ \A c \in Behind : OnList(c)
                                    /\ Cardinality(Behind) >= PageSize * Len(listing)
        /\ round.step = "listed" /\ Reached => \A c \in Reading!OnBoard : OnList(c)
ShownSo ==
    still /\ Reached /\ round.step \in {"waiting", "choosing"} /\ round.todo \notin ToRead =>
        \A c \in Reading!OnBoard : shown[c] = version[c]

\* Between a reading nothing could be kept of and the next one, the poller waits.
Waits ==
    /\ whole /\ (round.step = "waiting" \/ round.todo \in ToRead) => wait # "fast"
    /\ whole /\ round.step = "choosing" /\ round.todo \notin ToRead => ~cheap

ReadingInv ==
    ReadingKinds /\ PassIs /\ ListedSo /\ ShownSo /\ Waits /\ ~untrue /\ ~hurried

LEMMA ReadingSorts ==
  /\ NULL \notin Nat /\ PageSize \in Nat \ {0} /\ MaxPages \in Nat \ {0}
  /\ IsFiniteSet(AllCards) /\ MaxEdits \in Nat
  /\ AllCards \subseteq Places /\ Places \subseteq Nat \ {0}
  BY PartsAssumption DEF Reading!BoardReadingAssumption, Reading!IsFiniteSet, IsFiniteSet

LEMMA CountsAre == ASSUME NEW S PROVE Reading!Cardinality(S) = Cardinality(S)
  BY DEF Reading!Cardinality, Cardinality

\* One card to a row.
LEMMA RowsCount ==
  ASSUME NEW S, IsFiniteSet(S), NEW v, NEW rank
  PROVE  Cardinality({[card |-> c, version |-> v[c], rank |-> rank[c]] : c \in S}) = Cardinality(S)
<1>. DEFINE T == {[card |-> c, version |-> v[c], rank |-> rank[c]] : c \in S}
            f == [c \in S |-> [card |-> c, version |-> v[c], rank |-> rank[c]]]
<1>1. f \in [S -> T] /\ \A t \in T : \E c \in S : f[c] = t OBVIOUS
<1>2. \A c, d \in S : f[c] = f[d] => c = d
  <2>1. \A c \in S : f[c].card = c OBVIOUS
  <2>. HIDE DEF f
  <2>. QED BY <2>1
<1>. HIDE DEF T, f
<1>3. f \in Surjection(S, T) /\ f \in Injection(S, T) BY <1>1, <1>2 DEF Surjection, Injection, IsInjective
<1>4. Cardinality(T) = Cardinality(S) BY <1>3, FS_Surjection
<1>. QED BY <1>4 DEF T

\* What a page holds, and where it ends.
LEMMA PageIs ==
  ASSUME ReadingKinds, NEW p \in Nat
  PROVE  /\ Reading!After(p) = {c \in AllCards : place[c] # 0 /\ place[c] > p}
         /\ IsFiniteSet(Reading!After(p)) /\ Reading!OnPage(p) \in SUBSET Reading!After(p)
         /\ IsFiniteSet(Reading!OnPage(p))
         /\ Reading!Page(p) \in SUBSET RowKind
         /\ \A r \in Reading!Page(p) : r.version = version[r.card]
         /\ \A c \in Reading!OnPage(p) : \E r \in Reading!Page(p) : r.card = c
         /\ Cardinality(Reading!Page(p)) = Cardinality(Reading!OnPage(p))
         /\ Cardinality(Reading!OnPage(p)) \in Nat
         /\ Cardinality(Reading!OnPage(p)) < PageSize => Reading!OnPage(p) = Reading!After(p)
         /\ ~Reading!HasMore(p) => Reading!OnPage(p) = Reading!After(p)
         /\ Reading!HasMore(p) => Cardinality(Reading!OnPage(p)) >= PageSize
         /\ Reading!OnPage(p) # {} =>
                /\ Reading!LastOf(p) \in Nat /\ Reading!LastOf(p) > p
                /\ \A c \in Reading!After(p) : c \in Reading!OnPage(p) <=> place[c] <= Reading!LastOf(p)
<1>. DEFINE S == Reading!After(p)
            P == Reading!OnPage(p)
<1>1. /\ place \in [AllCards -> Nat] /\ version \in [AllCards -> Nat]
      /\ PageSize \in Nat /\ PageSize > 0 /\ IsFiniteSet(AllCards)
  <2>1. place \in [AllCards -> Places \cup {0}] /\ Places \cup {0} \subseteq Nat
    BY ReadingSorts DEF ReadingKinds
  <2>2. place \in [AllCards -> Nat] BY <2>1
  <2>. QED BY <2>2, ReadingSorts DEF ReadingKinds
<1>2. S = {c \in AllCards : place[c] # 0 /\ place[c] > p} BY DEF Reading!After, Reading!OnBoard
<1>3. S \subseteq AllCards /\ IsFiniteSet(S)
  <2>1. S \in SUBSET AllCards BY <1>2
  <2>. QED BY <1>1, <2>1, FS_Subset
<1>4. \A c \in S : Reading!Rank(c, p) = Cardinality(Preceding(S, place, c))
  BY CountsAre DEF Reading!Rank, Preceding
<1>5. P = FirstFew(S, place, PageSize) BY <1>4 DEF Reading!OnPage, FirstFew
<1>. HIDE DEF S
<1>6. /\ \A c \in S : Cardinality(Preceding(S, place, c)) \in Nat
      /\ IsFiniteSet(P) /\ P \subseteq S
      /\ \A c \in P, d \in S : place[d] <= place[c] => d \in P
      /\ Cardinality(S) <= PageSize => P = S BY <1>1, <1>3, <1>5, FirstOnes
<1>7. Cardinality(P) \in Nat /\ Cardinality(S) \in Nat BY <1>3, <1>6, FS_CardinalityType
<1>8. P # S => Cardinality(P) >= PageSize BY <1>1, <1>3, <1>5, FullPage
<1>9. Reading!HasMore(p) <=> Cardinality(S) > PageSize BY CountsAre DEF Reading!HasMore, S
<1>. HIDE DEF P
<1>10. /\ ~Reading!HasMore(p) => P = S
       /\ Reading!HasMore(p) => Cardinality(P) >= PageSize
       /\ Cardinality(P) < PageSize => P = S BY <1>1, <1>6, <1>7, <1>8, <1>9
<1>. DEFINE rank == [c \in S |-> Cardinality(Preceding(S, place, c))]
<1>11. Reading!Page(p) = {[card |-> c, version |-> version[c], rank |-> rank[c]] : c \in P}
  BY <1>4, <1>6 DEF Reading!Page, Reading!Row, P
<1>12. \A c \in S : rank[c] \in Nat BY <1>6
<1>. HIDE DEF rank
<1>13. Cardinality(Reading!Page(p)) = Cardinality(P) BY <1>6, <1>11, RowsCount
<1>14. /\ Reading!Page(p) \in SUBSET RowKind
       /\ \A r \in Reading!Page(p) : r.version = version[r.card]
       /\ \A c \in P : \E r \in Reading!Page(p) : r.card = c
  <2>1. ASSUME NEW c \in P
        PROVE  /\ [card |-> c, version |-> version[c], rank |-> rank[c]] \in RowKind
               /\ [card |-> c, version |-> version[c], rank |-> rank[c]] \in Reading!Page(p)
    <3>1. c \in AllCards /\ version[c] \in Nat /\ rank[c] \in Nat BY <1>1, <1>3, <1>6, <1>12
    <3>. QED BY <1>11, <3>1 DEF RowKind
  <2>2. ASSUME NEW r \in Reading!Page(p) PROVE r \in RowKind /\ r.version = version[r.card]
    <3>1. PICK c \in P : r = [card |-> c, version |-> version[c], rank |-> rank[c]] BY <1>11
    <3>. QED BY <2>1, <3>1
  <2>. QED BY <2>1, <2>2
<1>15. P # {} => /\ Reading!LastOf(p) \in Nat /\ Reading!LastOf(p) > p
                 /\ \A c \in S : c \in P <=> place[c] <= Reading!LastOf(p)
  <2>. SUFFICES ASSUME P # {}
                PROVE  /\ Reading!LastOf(p) \in Nat /\ Reading!LastOf(p) > p
                       /\ \A c \in S : c \in P <=> place[c] <= Reading!LastOf(p)
    OBVIOUS
  <2>. DEFINE last == CHOOSE c \in P : \A d \in P : place[d] <= place[c]
  <2>1. P \subseteq AllCards BY <1>3, <1>6
  <2>2. \E c \in P : \A d \in P : place[d] <= place[c] BY <1>1, <1>6, <2>1, LastOne
  <2>3. last \in P /\ \A d \in P : place[d] <= place[last] BY <2>2
  <2>4. Reading!LastOf(p) = place[last] BY DEF Reading!LastOf, P
  <2>. HIDE DEF last
  <2>. QED BY <1>1, <1>2, <1>3, <1>6, <2>1, <2>3, <2>4
<1>. QED BY <1>2, <1>3, <1>6, <1>7, <1>10, <1>13, <1>14, <1>15 DEF S, P

\* What is left of a pass.
LEMMA TodosAre ==
  ASSUME NEW t \in ToRead \cup {<<"other">>, <<>>}
  PROVE  /\ t # <<>> /\ Head(t) = "board" => t \in AtBoard
         /\ t \in AtBoard => /\ Tail(t) \in {<<"other">>, <<>>} /\ t \in ToRead
                             /\ t # <<>> /\ Head(t) = "board"
         /\ t # <<>> /\ Head(t) = "other" =>
                Tail(t) \in {<<"board">>, <<>>} /\ (Tail(t) \in ToRead <=> t \in ToRead)
         /\ <<"other">> \notin ToRead /\ <<>> \notin ToRead /\ <<"board">> \in ToRead
         /\ Reading!Orders \subseteq ToRead
<1>1. /\ Head(<<"board", "other">>) = "board" /\ Tail(<<"board", "other">>) = <<"other">>
      /\ Head(<<"other", "board">>) = "other" /\ Tail(<<"other", "board">>) = <<"board">>
      /\ Head(<<"board">>) = "board" /\ Tail(<<"board">>) = <<>>
      /\ Head(<<"other">>) = "other" /\ Tail(<<"other">>) = <<>> OBVIOUS
<1>2. /\ <<"board", "other">> # <<>> /\ <<"board">> # <<>>
      /\ <<"other">> \notin ToRead /\ <<>> \notin ToRead /\ <<"board">> \in ToRead
      /\ <<"board", "other">> \in ToRead /\ <<"other", "board">> \in ToRead
      /\ <<"board", "other">> \in AtBoard /\ <<"board">> \in AtBoard
      /\ <<"other", "board">> \notin AtBoard /\ <<"other">> \notin AtBoard /\ <<>> \notin AtBoard
  BY DEF ToRead, AtBoard
<1>3. Reading!Orders \subseteq ToRead BY DEF ToRead, Reading!Orders
<1>4. \/ t = <<"board", "other">> \/ t = <<"other", "board">> \/ t = <<"board">>
      \/ t = <<"other">> \/ t = <<>> BY DEF ToRead
<1>. QED BY <1>1, <1>2, <1>3, <1>4

LEMMA ReadingInit == Reading!Init => ReadingInv
<1>. SUFFICES ASSUME Reading!Init PROVE ReadingInv OBVIOUS
<1>. USE DEF Reading!Init, Reading!AtRest
<1>1. /\ place \in [AllCards -> Places \cup {0}]
      /\ \A c, d \in AllCards : c # d /\ place[c] # 0 => place[c] # place[d]
  <2>1. PICK on \in SUBSET AllCards : place = [c \in AllCards |-> IF c \in on THEN c ELSE 0] OBVIOUS
  <2>. QED BY <2>1, ReadingSorts
<1>2. /\ listing = <<>> /\ listing \in Seq(SUBSET RowKind) /\ Len(listing) = 0
      /\ round = [step |-> "waiting", todo |-> <<>>] /\ round \in PassKind
  BY DEF PassKind
<1>3. ReadingKinds
  <2>1. /\ version \in [AllCards -> Nat] /\ \A c \in AllCards : version[c] <= edits
        /\ edits \in 0..MaxEdits BY ReadingSorts
  <2>2. /\ shown \in [AllCards -> Nat \cup {NULL}]
        /\ \A c \in AllCards : shown[c] # NULL => shown[c] <= version[c] OBVIOUS
  <2>3. /\ kept = NULL /\ cursor \in Nat /\ wait \in {"fast", "slow", "told"}
        /\ cheap \in BOOLEAN /\ still \in BOOLEAN /\ whole \in BOOLEAN OBVIOUS
  <2>4. Len(listing) <= MaxPages BY <1>2, ReadingSorts
  <2>. QED BY <1>1, <1>2, <2>1, <2>2, <2>3, <2>4 DEF ReadingKinds
<1>4. PassIs /\ Waits BY <1>2, TodosAre DEF PassIs, Waits
<1>5. ListedSo /\ ShownSo BY DEF ListedSo, ShownSo
<1>. QED BY <1>3, <1>4, <1>5 DEF ReadingInv

LEMMA ReadingAre ==
  ReadingInv => /\ Reading!TypeOK /\ Reading!NothingHidden /\ Reading!ShownAfterAPass
                /\ Reading!NotHurried
<1>. SUFFICES ASSUME ReadingInv
              PROVE  /\ Reading!TypeOK /\ Reading!NothingHidden /\ Reading!ShownAfterAPass
                     /\ Reading!NotHurried OBVIOUS
<1>1. Reading!TypeOK
  <2>. USE DEF ReadingInv, ReadingKinds
  <2>1. version \in [AllCards -> 0..MaxEdits] BY ReadingSorts
  <2>2. shown \in [AllCards -> (0..MaxEdits) \cup {NULL}]
    <3>1. ASSUME NEW c \in AllCards, shown[c] # NULL PROVE shown[c] \in 0..MaxEdits
      <4>1. shown[c] \in Nat /\ shown[c] <= version[c] /\ version[c] \in 0..MaxEdits BY <2>1, <3>1
      <4>. QED BY <4>1, ReadingSorts
    <3>2. \A c \in AllCards : shown[c] \in (0..MaxEdits) \cup {NULL} BY <3>1
    <3>3. shown \in [AllCards -> Nat \cup {NULL}] OBVIOUS
    <3>. HIDE DEF ReadingInv, ReadingKinds
    <3>. QED BY <3>2, <3>3
  <2>3. /\ round.step \in {"waiting", "choosing", "paging", "listed"}
        /\ round.step \in {"waiting", "choosing"} => listing = <<>>
    BY DEF PassKind, PassIs
  <2>4. \A c, d \in Reading!OnBoard : c # d => place[c] # place[d] BY DEF Reading!OnBoard
  <2>. QED BY <2>1, <2>2, <2>3, <2>4 DEF Reading!TypeOK
<1>2. Reading!ShownAfterAPass
  BY CountsAre, TodosAre DEF ReadingInv, PassIs, ShownSo, Reached, Reading!ShownAfterAPass
<1>. QED BY <1>1, <1>2 DEF ReadingInv, Reading!NothingHidden, Reading!NotHurried

LEMMA ReadingParts ==
  ASSUME ReadingInv
  PROVE  /\ ReadingKinds /\ PassIs /\ ListedSo /\ ShownSo /\ Waits /\ ~untrue /\ ~hurried
         /\ place \in [AllCards -> Places \cup {0}]
         /\ \A c, d \in AllCards : c # d /\ place[c] # 0 => place[c] # place[d]
         /\ version \in [AllCards -> Nat] /\ \A c \in AllCards : version[c] <= edits
         /\ edits \in 0..MaxEdits
         /\ shown \in [AllCards -> Nat \cup {NULL}]
         /\ \A c \in AllCards : shown[c] # NULL => shown[c] <= version[c]
         /\ kept # NULL => kept.listing = <<kept.etag>> /\ Cardinality(kept.etag) < PageSize
         /\ round \in PassKind /\ round.todo \in ToRead \cup {<<"other">>, <<>>}
         /\ listing \in Seq(SUBSET RowKind) /\ Len(listing) \in Nat /\ Len(listing) <= MaxPages
         /\ \A k \in 1..Len(listing) : /\ \A r \in listing[k] : r.version <= version[r.card]
                                       /\ listing[k] \in SUBSET RowKind
         /\ cursor \in Nat /\ wait \in {"fast", "slow", "told"}
         /\ cheap \in BOOLEAN /\ still \in BOOLEAN /\ whole \in BOOLEAN
  BY DEF ReadingInv, ReadingKinds, PassKind

\* People change the board: nothing is claimed of the pass that is under way.
LEMMA BoardEdited ==
  ASSUME ReadingInv, NEW c \in AllCards, Reading!Drag(c) \/ Reading!Delete(c) \/ Reading!Rewrite(c)
  PROVE  ReadingInv'
<1>1. /\ edits < MaxEdits /\ edits' = edits + 1 /\ still' = FALSE
      /\ UNCHANGED <<kept, round, listing, cursor, shown, wait, cheap, whole, untrue, hurried>>
  BY DEF Reading!Drag, Reading!Delete, Reading!Rewrite, Reading!Edited
<1>2. /\ place' \in [AllCards -> Places \cup {0}]
      /\ \A d, e \in AllCards : d # e /\ place'[d] # 0 => place'[d] # place'[e]
      /\ version' \in [AllCards -> Nat]
      /\ \A d \in AllCards : version[d] <= version'[d] /\ version'[d] <= version[d] + 1
  <2>1. CASE Reading!Drag(c)
    <3>1. PICK p \in Places \ {place[d] : d \in AllCards} :
             place' = [place EXCEPT ![c] = p] /\ version' = version
      BY <2>1 DEF Reading!Drag
    <3>. QED BY <3>1, ReadingParts, ReadingSorts
  <2>2. CASE Reading!Delete(c)
    <3>1. place' = [place EXCEPT ![c] = 0] /\ version' = version BY <2>2 DEF Reading!Delete
    <3>. QED BY <3>1, ReadingParts
  <2>3. CASE Reading!Rewrite(c)
    <3>1. version' = [version EXCEPT ![c] = version[c] + 1] /\ place' = place BY <2>3 DEF Reading!Rewrite
    <3>. QED BY <3>1, ReadingParts
  <2>. QED BY <2>1, <2>2, <2>3
<1>3. ReadingKinds'
  <2>1. edits' \in 0..MaxEdits BY <1>1, ReadingParts, ReadingSorts
  <2>2. \A d \in AllCards : version'[d] <= edits' BY <1>1, <1>2, ReadingParts
  <2>3. \A d \in AllCards : shown'[d] # NULL => shown'[d] <= version'[d]
    <3>. SUFFICES ASSUME NEW d \in AllCards, shown[d] # NULL PROVE shown[d] <= version'[d] BY <1>1
    <3>1. shown[d] \in Nat /\ shown[d] <= version[d] /\ version[d] \in Nat /\ version'[d] \in Nat
      BY <1>2, ReadingParts
    <3>. QED BY <1>2, <3>1
  <2>4. \A k \in 1..Len(listing) : \A r \in listing[k] : r.version <= version'[r.card]
    <3>. SUFFICES ASSUME NEW k \in 1..Len(listing), NEW r \in listing[k]
                  PROVE  r.version <= version'[r.card] OBVIOUS
    <3>1. r.card \in AllCards /\ r.version \in Nat /\ r.version <= version[r.card] BY ReadingParts DEF RowKind
    <3>2. version[r.card] \in Nat /\ version'[r.card] \in Nat BY <1>2, <3>1, ReadingParts
    <3>. QED BY <1>2, <3>1, <3>2
  <2>. QED BY <1>1, <1>2, <2>1, <2>2, <2>3, <2>4, ReadingParts DEF ReadingKinds
<1>4. PassIs' /\ Waits' BY <1>1, ReadingParts DEF PassIs, Waits
<1>5. ListedSo' /\ ShownSo' BY <1>1 DEF ListedSo, ShownSo
<1>. QED BY <1>1, <1>3, <1>4, <1>5, ReadingParts DEF ReadingInv

\* What stays when the board, what is kept and what is shown are left alone.
LEMMA NothingListed ==
  ASSUME ReadingInv, UNCHANGED <<place, version, edits, kept, shown, untrue, hurried>>,
         round' \in PassKind, round'.step \in {"waiting", "choosing"}, listing' = <<>>, cursor' \in Nat,
         round'.step = "waiting" => round'.todo = <<>>,
         wait' \in {"fast", "slow", "told"}, cheap' \in BOOLEAN, still' \in BOOLEAN, whole' \in BOOLEAN,
         Waits', ShownSo'
  PROVE  ReadingInv'
<1>1. listing' \in Seq(SUBSET RowKind) /\ Len(listing') = 0 OBVIOUS
<1>2. ReadingKinds' BY <1>1, ReadingParts, ReadingSorts DEF ReadingKinds
<1>3. PassIs' BY DEF PassIs
<1>4. ListedSo' BY <1>1 DEF ListedSo
<1>. QED BY <1>2, <1>3, <1>4, ReadingParts DEF ReadingInv

LEMMA PassBegins == ReadingInv /\ Reading!Begin => ReadingInv'
<1>. SUFFICES ASSUME ReadingInv, Reading!Begin PROVE ReadingInv' OBVIOUS
<1>1. /\ round.step = "waiting" /\ cheap' = TRUE /\ still' = TRUE
      /\ UNCHANGED <<place, version, edits, kept, listing, cursor, shown, wait, whole, untrue, hurried>>
  BY DEF Reading!Begin, Reading!github
<1>2. PICK order \in Reading!Orders : round' = [step |-> "choosing", todo |-> order] BY DEF Reading!Begin
<1>3. round' \in PassKind /\ round'.step = "choosing" /\ round'.todo \in ToRead BY <1>2, TodosAre DEF PassKind
<1>4. listing = <<>> BY <1>1, ReadingParts DEF PassIs
<1>5. Waits' /\ ShownSo' BY <1>1, <1>3, ReadingParts DEF Waits, ShownSo
<1>. QED BY <1>1, <1>3, <1>4, <1>5, NothingListed, ReadingParts

LEMMA OtherRead == ReadingInv /\ Reading!ReadOther => ReadingInv'
<1>. SUFFICES ASSUME ReadingInv, Reading!ReadOther PROVE ReadingInv' OBVIOUS
<1>1. /\ round.step = "choosing" /\ round.todo # <<>> /\ Head(round.todo) = "other"
      /\ round' = [round EXCEPT !.todo = Tail(round.todo)]
      /\ cheap' = cheap
      /\ UNCHANGED <<place, version, edits, kept, listing, cursor, shown, wait, still, whole, untrue,
                     hurried>>
  <2>1. cheap \in BOOLEAN BY ReadingParts
  <2>. QED BY <2>1 DEF Reading!ReadOther, Reading!github, Reading!CostsToo
<1>2. /\ Tail(round.todo) \in {<<"board">>, <<>>}
      /\ Tail(round.todo) \in ToRead <=> round.todo \in ToRead
  BY <1>1, ReadingParts, TodosAre
<1>3. round' \in PassKind /\ round'.step = "choosing" /\ round'.todo = Tail(round.todo)
  BY <1>1, <1>2, ReadingParts DEF PassKind, ToRead
<1>4. listing = <<>> BY <1>1, ReadingParts DEF PassIs
<1>5. Waits' BY <1>1, <1>2, <1>3, ReadingParts DEF Waits
<1>6. ShownSo' BY <1>1, <1>2, <1>3, ReadingParts DEF ShownSo, Reached, Reading!OnBoard
<1>. QED BY <1>1, <1>3, <1>4, <1>5, <1>6, NothingListed, ReadingParts

\* A board that will not open, a pass that is given up, a restart.
LEMMA ReadingFails ==
  ReadingInv /\ (Reading!WillNotOpen \/ Reading!GivesUp \/ Reading!Restart) => ReadingInv'
<1>. SUFFICES ASSUME ReadingInv, Reading!WillNotOpen \/ Reading!GivesUp \/ Reading!Restart
              PROVE  ReadingInv' OBVIOUS
<1>1. still' = FALSE /\ whole' = FALSE /\ UNCHANGED <<place, version, edits, shown, untrue, hurried>>
  BY DEF Reading!WillNotOpen, Reading!GivesUp, Reading!Restart, Reading!github
<1>2. Waits' /\ ShownSo' BY <1>1 DEF Waits, ShownSo
<1>3. CASE Reading!WillNotOpen
  <2>1. /\ round.step = "choosing" /\ round.todo # <<>> /\ Head(round.todo) = "board"
        /\ round' = [round EXCEPT !.todo = Tail(round.todo)]
        /\ UNCHANGED <<kept, listing, cursor, wait, cheap>>
    BY <1>3 DEF Reading!WillNotOpen, Reading!Reading
  <2>2. Tail(round.todo) \in {<<"other">>, <<>>} BY <2>1, ReadingParts, TodosAre
  <2>3. round' \in PassKind /\ round'.step = "choosing" BY <2>1, <2>2, ReadingParts DEF PassKind
  <2>4. listing = <<>> BY <2>1, ReadingParts DEF PassIs
  <2>. QED BY <1>1, <1>2, <2>1, <2>3, <2>4, NothingListed, ReadingParts
<1>. DEFINE rest == [step |-> "waiting", todo |-> <<>>]
<1>4. rest \in PassKind /\ rest.step = "waiting" /\ rest.todo = <<>> BY DEF PassKind
<1>. HIDE DEF rest
<1>5. CASE Reading!GivesUp
  <2>1. /\ round' = rest /\ listing' = <<>> /\ cursor' = 0 /\ wait' \in {"fast", "told"}
        /\ UNCHANGED <<kept, cheap>>
    BY <1>5 DEF Reading!GivesUp, Reading!Rest, Reading!AtRest, Reading!Refusals, rest
  <2>. QED BY <1>1, <1>2, <1>4, <2>1, NothingListed, ReadingParts
<1>6. CASE Reading!Restart
  <2>1. /\ round' = rest /\ listing' = <<>> /\ cursor' = 0 /\ wait' = "fast"
        /\ kept' = NULL /\ cheap' = TRUE
    BY <1>6 DEF Reading!Restart, Reading!Rest, Reading!AtRest, rest
  <2>2. listing' \in Seq(SUBSET RowKind) /\ Len(listing') = 0 BY <2>1
  <2>3. ReadingKinds'
    <3>1. Len(listing') <= MaxPages BY <2>2, ReadingSorts
    <3>2. /\ cursor' \in Nat /\ wait' \in {"fast", "slow", "told"}
          /\ cheap' \in BOOLEAN /\ still' \in BOOLEAN /\ whole' \in BOOLEAN
      BY <1>1, <2>1
    <3>. QED BY <1>1, <1>4, <2>1, <2>2, <3>1, <3>2, ReadingParts DEF ReadingKinds
  <2>4. PassIs' /\ ListedSo' BY <1>1, <1>4, <2>1, <2>2 DEF PassIs, ListedSo
  <2>. QED BY <1>1, <1>2, <2>3, <2>4, ReadingParts DEF ReadingInv
<1>. QED BY <1>3, <1>5, <1>6

LEMMA PassEnds == ReadingInv /\ Reading!End => ReadingInv'
<1>. SUFFICES ASSUME ReadingInv, Reading!End PROVE ReadingInv' OBVIOUS
<1>. DEFINE rest == [step |-> "waiting", todo |-> <<>>]
<1>1. /\ round.step = "choosing" /\ round.todo = <<>> /\ round' = rest /\ listing' = <<>> /\ cursor' = 0
      /\ wait' = IF cheap THEN "fast" ELSE "slow"
      /\ UNCHANGED <<place, version, edits, kept, shown, cheap, still, whole, untrue, hurried>>
  BY DEF Reading!End, Reading!Rest, Reading!AtRest, Reading!github
<1>2. rest \in PassKind /\ rest.step = "waiting" /\ rest.todo = <<>> /\ <<>> \notin ToRead
  BY TodosAre DEF PassKind
<1>. HIDE DEF rest
<1>3. Waits' BY <1>1, <1>2, ReadingParts DEF Waits
<1>4. ShownSo' BY <1>1, <1>2, ReadingParts DEF ShownSo, Reached, Reading!OnBoard
<1>. QED BY <1>1, <1>2, <1>3, <1>4, NothingListed, ReadingParts

\* One page more, of the board as it is by now.
UpTo(p)     == {c \in Reading!OnBoard : place[c] <= p}
ListedTo(p) ==
    /\ \A k \in 1..Len(listing) : \A r \in listing[k] : r.version = version[r.card]
    /\ \A c \in UpTo(p) : OnList(c)
    /\ Cardinality(UpTo(p)) >= PageSize * Len(listing)

LEMMA OneMoreTimes ==
  ASSUME NEW a \in Nat, NEW n \in Nat PROVE a * n \in Nat /\ a * (n + 1) = a * n + a OBVIOUS

\* The cards up to a place, and the next page's.
LEMMA NextCounted ==
  ASSUME ReadingInv, NEW p \in Nat
  PROVE  /\ IsFiniteSet(UpTo(p)) /\ Cardinality(UpTo(p)) \in Nat
         /\ IsFiniteSet(Reading!OnBoard) /\ Cardinality(Reading!OnBoard) \in Nat
         /\ Cardinality(Reading!OnBoard) >= Cardinality(UpTo(p)) + Cardinality(Reading!After(p))
         /\ Reading!HasMore(p) =>
                /\ Reading!OnPage(p) # {}
                /\ Cardinality(UpTo(Reading!LastOf(p)))
                       >= Cardinality(UpTo(p)) + Cardinality(Reading!OnPage(p))
<1>1. IsFiniteSet(Reading!OnBoard)
  <2>1. Reading!OnBoard \in SUBSET AllCards BY DEF Reading!OnBoard
  <2>. QED BY <2>1, ReadingSorts, FS_Subset
<1>2. \A q : IsFiniteSet(UpTo(q)) /\ UpTo(q) \subseteq Reading!OnBoard
  <2>1. \A q : UpTo(q) \in SUBSET Reading!OnBoard BY DEF UpTo
  <2>. QED BY <1>1, <2>1, FS_Subset
<1>3. place \in [AllCards -> Nat]
  <2>1. Places \cup {0} \subseteq Nat /\ place \in [AllCards -> Places \cup {0}] BY ReadingParts, ReadingSorts
  <2>. QED BY <2>1
<1>4. /\ Reading!After(p) \in SUBSET Reading!OnBoard /\ UpTo(p) \cap Reading!After(p) = {}
      /\ IsFiniteSet(Reading!After(p))
  BY <1>3, ReadingParts, PageIs DEF UpTo, Reading!After, Reading!OnBoard
<1>5. Cardinality(Reading!OnBoard) >= Cardinality(UpTo(p)) + Cardinality(Reading!After(p))
  <2>1. UpTo(p) \cup Reading!After(p) \in SUBSET Reading!OnBoard BY <1>2, <1>4
  <2>2. /\ IsFiniteSet(UpTo(p) \cup Reading!After(p))
        /\ Cardinality(UpTo(p) \cup Reading!After(p))
              = Cardinality(UpTo(p)) + Cardinality(Reading!After(p)) - 0
    BY <1>2, <1>4, FS_Union, FS_EmptySet
  <2>3. /\ Cardinality(UpTo(p)) \in Nat /\ Cardinality(Reading!After(p)) \in Nat
        /\ Cardinality(Reading!OnBoard) \in Nat
    BY <1>1, <1>2, <1>4, FS_CardinalityType
  <2>4. Cardinality(UpTo(p) \cup Reading!After(p)) <= Cardinality(Reading!OnBoard) BY <1>1, <2>1, FS_Subset
  <2>. QED BY <2>2, <2>3, <2>4
<1>6. ASSUME Reading!HasMore(p)
      PROVE  /\ Reading!OnPage(p) # {}
             /\ Cardinality(UpTo(Reading!LastOf(p)))
                    >= Cardinality(UpTo(p)) + Cardinality(Reading!OnPage(p))
  <2>1. /\ Reading!OnPage(p) \in SUBSET Reading!After(p) /\ IsFiniteSet(Reading!OnPage(p))
        /\ Cardinality(Reading!OnPage(p)) \in Nat /\ Cardinality(Reading!OnPage(p)) >= PageSize
    BY <1>6, ReadingParts, PageIs
  <2>2. Reading!OnPage(p) # {} BY <2>1, ReadingSorts, FS_EmptySet
  <2>3. /\ Reading!LastOf(p) \in Nat /\ Reading!LastOf(p) > p
        /\ \A c \in Reading!OnPage(p) : place[c] <= Reading!LastOf(p)
    BY <2>1, <2>2, ReadingParts, PageIs
  <2>4. UpTo(p) \cup Reading!OnPage(p) \in SUBSET UpTo(Reading!LastOf(p))
    <3>1. ASSUME NEW c \in UpTo(p) PROVE c \in UpTo(Reading!LastOf(p))
      <4>1. c \in Reading!OnBoard /\ place[c] \in Nat /\ place[c] <= p BY <1>3 DEF UpTo, Reading!OnBoard
      <4>. QED BY <2>3, <4>1 DEF UpTo
    <3>2. Reading!OnPage(p) \subseteq Reading!OnBoard BY <1>4, <2>1
    <3>3. ASSUME NEW c \in Reading!OnPage(p) PROVE c \in UpTo(Reading!LastOf(p)) BY <2>3, <3>2 DEF UpTo
    <3>. QED BY <3>1, <3>3
  <2>5. UpTo(p) \cap Reading!OnPage(p) = {} BY <1>4, <2>1
  <2>6. Cardinality(UpTo(p) \cup Reading!OnPage(p))
            = Cardinality(UpTo(p)) + Cardinality(Reading!OnPage(p)) - 0
    BY <1>2, <2>1, <2>5, FS_Union, FS_EmptySet
  <2>7. Cardinality(UpTo(p)) \in Nat BY <1>2, FS_CardinalityType
  <2>8. Cardinality(UpTo(p) \cup Reading!OnPage(p)) <= Cardinality(UpTo(Reading!LastOf(p)))
    BY <1>2, <2>4, FS_Subset
  <2>. QED BY <2>1, <2>2, <2>6, <2>7, <2>8
<1>. QED BY <1>1, <1>2, <1>5, <1>6, FS_CardinalityType

LEMMA PageTurned ==
  ASSUME ReadingInv, NEW p \in Nat, still => ListedTo(p),
         Len(listing) < MaxPages, round.todo \in AtBoard, NEW s \in {"paging", "listed"},
         listing' = Append(listing, Reading!Page(p)), cursor' \in Nat,
         UNCHANGED <<place, version, edits, shown, wait, cheap, still, whole>>, ~untrue', ~hurried',
         kept' # NULL => kept'.listing = <<kept'.etag>> /\ Cardinality(kept'.etag) < PageSize,
         round' = [round EXCEPT !.step = s],
         s = "paging" => /\ Reading!HasMore(p) /\ Len(listing) + 1 < MaxPages
                         /\ cursor' = Reading!LastOf(p),
         s = "listed" => ~Reading!HasMore(p) \/ Len(listing) + 1 = MaxPages
  PROVE  ReadingInv'
<1>. DEFINE n == Len(listing)
<1>1. n \in Nat /\ PageSize \in Nat /\ MaxPages \in Nat /\ PageSize > 0 BY ReadingParts, ReadingSorts
<1>2. /\ Reading!Page(p) \in SUBSET RowKind
      /\ \A r \in Reading!Page(p) : r.version = version[r.card]
      /\ \A c \in Reading!OnPage(p) : \E r \in Reading!Page(p) : r.card = c
  BY ReadingParts, PageIs
<1>3. /\ listing' \in Seq(SUBSET RowKind) /\ Len(listing') = n + 1
      /\ listing'[n + 1] = Reading!Page(p) /\ \A k \in 1..n : listing'[k] = listing[k]
  BY <1>2, ReadingParts
<1>4. round' \in PassKind /\ round'.step = s /\ round'.todo = round.todo BY ReadingParts DEF PassKind
<1>5. ReadingKinds'
  <2>1. \A k \in 1..Len(listing') : \A r \in listing'[k] : r.version <= version'[r.card]
    <3>. SUFFICES ASSUME NEW k \in 1..(n + 1), NEW r \in listing'[k]
                  PROVE  r.version <= version[r.card] BY <1>3
    <3>1. CASE k \in 1..n BY <1>3, <3>1, ReadingParts
    <3>2. CASE k = n + 1
      <4>1. r \in Reading!Page(p) /\ r \in RowKind BY <1>2, <1>3, <3>2
      <4>2. r.version = version[r.card] /\ r.version \in Nat BY <1>2, <4>1 DEF RowKind
      <4>. QED BY <4>2
    <3>. QED BY <1>1, <3>1, <3>2
  <2>2. Len(listing') <= MaxPages BY <1>1, <1>3
  <2>. QED BY <1>3, <1>4, <2>1, <2>2, ReadingParts DEF ReadingKinds
<1>6. PassIs'
  <2>1. listing' # <<>> BY <1>1, <1>3
  <2>. QED BY <1>1, <1>3, <1>4, <2>1 DEF PassIs
<1>7. Waits' /\ ShownSo' BY <1>4, ReadingParts, TodosAre DEF Waits, ShownSo
<1>8. ListedSo'
  <2>. SUFFICES ASSUME still PROVE ListedSo' BY DEF ListedSo
  <2>1. \A k \in 1..Len(listing') : \A r \in listing'[k] : r.version = version[r.card]
    <3>. SUFFICES ASSUME NEW k \in 1..(n + 1), NEW r \in listing'[k] PROVE r.version = version[r.card] BY <1>3
    <3>1. CASE k \in 1..n BY <1>3, <3>1 DEF ListedTo
    <3>2. CASE k = n + 1 BY <1>2, <1>3, <3>2
    <3>. QED BY <1>1, <3>1, <3>2
  <2>2. \A c \in UpTo(p) \cup Reading!OnPage(p) : OnList(c)'
    <3>1. ASSUME NEW c \in UpTo(p) PROVE OnList(c)'
      <4>1. PICK k \in 1..n : \E r \in listing[k] : r.card = c BY DEF ListedTo, OnList
      <4>2. k \in 1..(n + 1) /\ listing'[k] = listing[k] BY <1>1, <1>3
      <4>. QED BY <1>3, <4>1, <4>2 DEF OnList
    <3>2. ASSUME NEW c \in Reading!OnPage(p) PROVE OnList(c)'
      <4>1. n + 1 \in 1..Len(listing') /\ \E r \in listing'[n + 1] : r.card = c BY <1>1, <1>2, <1>3
      <4>. QED BY <4>1 DEF OnList
    <3>. QED BY <3>1, <3>2
  <2>3. \A c \in Reading!OnBoard : c \in UpTo(p) \/ c \in Reading!After(p)
    <3>1. \A c \in Reading!OnBoard : place[c] \in Nat BY ReadingParts, ReadingSorts DEF Reading!OnBoard
    <3>. QED BY <3>1 DEF UpTo, Reading!After
  <2>4. /\ PageSize * n \in Nat /\ PageSize * (n + 1) = PageSize * n + PageSize
        /\ Cardinality(UpTo(p)) \in Nat /\ Cardinality(UpTo(p)) >= PageSize * n
    BY <1>1, OneMoreTimes, NextCounted DEF ListedTo
  <2>5. /\ (Reading!OnBoard)' = Reading!OnBoard /\ Reached' = Reached
        /\ \A q : Behind' = {c \in Reading!OnBoard : place[c] <= cursor'}
    BY DEF Reading!OnBoard, Reached, Behind
  <2>. HIDE DEF n
  <2>6. CASE s = "paging"
    <3>1. /\ Cardinality(Reading!OnPage(p)) \in Nat /\ Cardinality(Reading!OnPage(p)) >= PageSize
          /\ Reading!HasMore(p) BY <2>6, ReadingParts, PageIs
    <3>2. Reading!OnPage(p) # {} BY <3>1, NextCounted
    <3>3. /\ Reading!LastOf(p) \in Nat
          /\ \A c \in Reading!After(p) : c \in Reading!OnPage(p) <=> place[c] <= Reading!LastOf(p)
      BY <3>2, ReadingParts, PageIs
    <3>4. Behind' = UpTo(Reading!LastOf(p)) BY <2>5, <2>6 DEF UpTo
    <3>5. \A c \in Behind' : OnList(c)' BY <2>2, <2>3, <3>3, <3>4 DEF UpTo
    <3>6. Cardinality(Behind') >= PageSize * (n + 1)
      <4>1. Cardinality(Behind') >= Cardinality(UpTo(p)) + Cardinality(Reading!OnPage(p))
        BY <3>1, <3>4, NextCounted
      <4>2. Cardinality(Behind') \in Nat BY <3>3, <3>4, NextCounted
      <4>. QED BY <1>1, <2>4, <3>1, <4>1, <4>2
    <3>. QED BY <1>3, <1>4, <2>1, <2>6, <3>5, <3>6 DEF ListedSo
  <2>7. CASE s = "listed"
    <3>. SUFFICES ASSUME Reached PROVE \A c \in Reading!OnBoard : OnList(c)'
      BY <1>4, <2>1, <2>5, <2>7 DEF ListedSo
    <3>1. ~Reading!HasMore(p)
      <4>. SUFFICES ASSUME Reading!HasMore(p) PROVE FALSE OBVIOUS
      <4>1. Cardinality(Reading!After(p)) > PageSize BY CountsAre DEF Reading!HasMore
      <4>2. n + 1 = MaxPages BY <2>7 DEF n
      <4>3. /\ Cardinality(Reading!OnBoard) >= Cardinality(UpTo(p)) + Cardinality(Reading!After(p))
            /\ Cardinality(Reading!OnBoard) \in Nat /\ Cardinality(Reading!After(p)) \in Nat
        BY NextCounted, ReadingParts, PageIs, FS_CardinalityType
      <4>4. Cardinality(Reading!OnBoard) <= PageSize * (n + 1) BY <4>2 DEF Reached
      <4>. QED BY <1>1, <2>4, <4>1, <4>3, <4>4
    <3>2. Reading!OnPage(p) = Reading!After(p) BY <3>1, ReadingParts, PageIs
    <3>. QED BY <2>2, <2>3, <3>2
  <2>. QED BY <2>6, <2>7
<1>. QED BY <1>5, <1>6, <1>7, <1>8, ReadingParts DEF ReadingInv

LEMMA AtTheBoard ==
  ASSUME ReadingInv, Reading!Reading
  PROVE  /\ round.step = "choosing" /\ round.todo \in AtBoard /\ listing = <<>> /\ Len(listing) = 0
         /\ ListedTo(0) /\ Reading!After(0) = Reading!OnBoard
         /\ ~(whole /\ wait = "fast")
<1>1. round.step = "choosing" /\ round.todo \in AtBoard /\ round.todo \in ToRead
  BY ReadingParts, TodosAre DEF Reading!Reading
<1>2. listing = <<>> /\ Len(listing) = 0 BY <1>1, ReadingParts DEF PassIs
<1>3. \A c \in Reading!OnBoard : place[c] \in Nat /\ place[c] > 0
  <2>1. \A c \in Reading!OnBoard : place[c] \in Places BY ReadingParts DEF Reading!OnBoard
  <2>2. \A p \in Places : p \in Nat /\ p > 0 BY ReadingSorts
  <2>. QED BY <2>1, <2>2
<1>4. UpTo(0) = {} /\ Reading!After(0) = Reading!OnBoard BY <1>3 DEF UpTo, Reading!After
<1>5. Cardinality(UpTo(0)) = 0 /\ PageSize * 0 = 0 BY <1>4, FS_EmptySet, ReadingSorts
<1>. QED BY <1>1, <1>2, <1>4, <1>5, ReadingParts DEF ListedTo, Waits

LEMMA NothingChanged == ReadingInv /\ Reading!NotChanged => ReadingInv'
<1>. SUFFICES ASSUME ReadingInv, Reading!NotChanged PROVE ReadingInv' OBVIOUS
<1>1. /\ Reading!Reading /\ kept # NULL /\ kept.etag = Reading!Page(0)
      /\ listing' = kept.listing /\ round' = [round EXCEPT !.step = "listed"]
      /\ untrue' = (untrue \/ listing' # <<Reading!BoardNow>>)
      /\ UNCHANGED <<place, version, edits, kept, cursor, shown, wait, cheap, still, whole, hurried>>
  BY DEF Reading!NotChanged, Reading!Unchanged, Reading!Goes, Reading!github
<1>2. kept.listing = <<Reading!Page(0)>> /\ Cardinality(Reading!Page(0)) < PageSize BY <1>1, ReadingParts
<1>3. Reading!OnPage(0) = Reading!OnBoard BY <1>1, <1>2, ReadingParts, PageIs, AtTheBoard
<1>4. Reading!Page(0) = Reading!BoardNow BY <1>3 DEF Reading!Page, Reading!BoardNow
<1>5. ~untrue' BY <1>1, <1>2, <1>4, ReadingParts
<1>6. Len(listing) < MaxPages /\ ~Reading!HasMore(0)
  <2>1. /\ Reading!After(0) = Reading!OnPage(0) /\ Cardinality(Reading!OnPage(0)) < PageSize
        /\ Cardinality(Reading!OnPage(0)) \in Nat
    BY <1>1, <1>2, <1>3, ReadingParts, PageIs, AtTheBoard
  <2>2. ~Reading!HasMore(0) BY <2>1, ReadingSorts, CountsAre DEF Reading!HasMore
  <2>. QED BY <1>1, <2>2, AtTheBoard, ReadingSorts
<1>7. listing' = Append(listing, Reading!Page(0)) BY <1>1, <1>2, AtTheBoard
<1>. QED BY <1>1, <1>5, <1>6, <1>7, ReadingParts, AtTheBoard, PageTurned

LEMMA FirstPageRead == ReadingInv /\ Reading!FirstPage => ReadingInv'
<1>. SUFFICES ASSUME ReadingInv, Reading!FirstPage PROVE ReadingInv' OBVIOUS
<1>1. /\ Reading!Reading /\ hurried' = (hurried \/ (whole /\ wait = "fast"))
      /\ UNCHANGED <<place, version, edits, shown, wait, cheap, still, whole, untrue>>
  BY DEF Reading!FirstPage, Reading!github
<1>2. /\ round.todo \in AtBoard /\ listing = <<>> /\ Len(listing) = 0 /\ ListedTo(0) /\ ~hurried'
      /\ Len(listing) < MaxPages /\ <<Reading!Page(0)>> = Append(listing, Reading!Page(0))
  <2>1. /\ round.todo \in AtBoard /\ listing = <<>> /\ Len(listing) = 0 /\ ListedTo(0)
        /\ ~(whole /\ wait = "fast") /\ ~hurried
    BY <1>1, AtTheBoard, ReadingParts
  <2>2. <<Reading!Page(0)>> = Append(listing, Reading!Page(0)) BY <2>1
  <2>3. Len(listing) < MaxPages BY <2>1, ReadingSorts
  <2>. QED BY <1>1, <2>1, <2>2, <2>3
<1>3. CASE Reading!HasMore(0) /\ MaxPages > 1
  <2>1. /\ listing' = <<Reading!Page(0)>> /\ cursor' = Reading!LastOf(0) /\ kept' = kept
        /\ round' = [round EXCEPT !.step = "paging"]
    BY <1>3 DEF Reading!FirstPage, Reading!Goes
  <2>2. cursor' \in Nat BY <1>3, <2>1, ReadingParts, NextCounted, PageIs
  <2>. QED BY <1>1, <1>2, <1>3, <2>1, <2>2, ReadingParts, PageTurned
<1>4. CASE ~(Reading!HasMore(0) /\ MaxPages > 1)
  <2>. DEFINE etag == IF Reading!HasMore(0) THEN NULL ELSE Reading!Page(0)
  <2>1. /\ Reading!Listed(<<Reading!Page(0)>>, etag) /\ cursor' = cursor BY <1>4 DEF Reading!FirstPage
  <2>2. etag # NULL => etag = Reading!Page(0) OBVIOUS
  <2>. HIDE DEF etag
  <2>3. /\ listing' = <<Reading!Page(0)>> /\ round' = [round EXCEPT !.step = "listed"]
        /\ kept' = IF etag # NULL /\ Cardinality(Reading!Page(0)) < PageSize
                   THEN [etag |-> etag, listing |-> <<Reading!Page(0)>>] ELSE NULL
    BY <2>1, CountsAre DEF Reading!Listed, Reading!Goes, Reading!Keeps
  <2>4. kept' # NULL => kept'.listing = <<kept'.etag>> /\ Cardinality(kept'.etag) < PageSize BY <2>2, <2>3
  <2>5. ~Reading!HasMore(0) \/ Len(listing) + 1 = MaxPages BY <1>2, <1>4, ReadingSorts
  <2>. QED BY <1>1, <1>2, <2>1, <2>3, <2>4, <2>5, ReadingParts, PageTurned
<1>. QED BY <1>3, <1>4

LEMMA NextPageRead == ReadingInv /\ Reading!NextPage => ReadingInv'
<1>. SUFFICES ASSUME ReadingInv, Reading!NextPage PROVE ReadingInv' OBVIOUS
<1>. DEFINE pages == Append(listing, Reading!Page(cursor))
<1>1. /\ round.step = "paging"
      /\ UNCHANGED <<place, version, edits, shown, wait, cheap, still, whole, untrue, hurried>>
  BY DEF Reading!NextPage, Reading!github
<1>2. /\ round.todo \in AtBoard /\ Len(listing) < MaxPages /\ cursor \in Nat /\ ~untrue' /\ ~hurried'
      /\ round \in PassKind BY <1>1, ReadingParts DEF PassIs
<1>3. still => ListedTo(cursor)
  <2>1. Behind = UpTo(cursor) BY DEF Behind, UpTo
  <2>. QED BY <1>1, <2>1, ReadingParts DEF ListedSo, ListedTo
<1>4. Len(pages) = Len(listing) + 1 /\ Len(listing) \in Nat /\ MaxPages \in Nat BY ReadingParts, ReadingSorts
<1>5. CASE Reading!HasMore(cursor) /\ Len(pages) < MaxPages
  <2>1. listing' = pages /\ cursor' = Reading!LastOf(cursor) /\ kept' = kept /\ round' = round
    BY <1>5 DEF Reading!NextPage
  <2>2. round' = [round EXCEPT !.step = "paging"] BY <1>1, <1>2, <2>1 DEF PassKind
  <2>3. cursor' \in Nat BY <1>2, <1>5, <2>1, ReadingParts, NextCounted, PageIs
  <2>. QED BY <1>1, <1>2, <1>3, <1>4, <1>5, <2>1, <2>2, <2>3, ReadingParts, PageTurned
<1>6. CASE ~(Reading!HasMore(cursor) /\ Len(pages) < MaxPages)
  <2>1. Reading!Listed(pages, NULL) /\ cursor' = 0 BY <1>6 DEF Reading!NextPage
  <2>2. listing' = pages /\ round' = [round EXCEPT !.step = "listed"] /\ kept' = NULL
    BY <2>1 DEF Reading!Listed, Reading!Goes, Reading!Keeps
  <2>3. ~Reading!HasMore(cursor) \/ Len(listing) + 1 = MaxPages BY <1>2, <1>4, <1>6
  <2>. QED BY <1>1, <1>2, <1>3, <2>1, <2>2, <2>3, PageTurned
<1>. QED BY <1>5, <1>6

\* A card that is listed is on the first page that has it.
LEMMA OnceListed ==
  ASSUME ReadingKinds
  PROVE  /\ \A r \in Reading!Once(listing) : \E k \in 1..Len(listing) : r \in listing[k]
         /\ \A c : OnList(c) => \E r \in Reading!Once(listing) : r.card = c
<1>. DEFINE first(i) ==
              {r \in listing[i] : \A j \in 1..(i - 1) : \A q \in listing[j] : q.card # r.card}
<1>1. Reading!Once(listing) = UNION {first(i) : i \in 1..Len(listing)} /\ DOMAIN listing = 1..Len(listing)
  <2>1. DOMAIN listing = 1..Len(listing) BY DEF ReadingKinds
  <2>2. Reading!Once(listing) = UNION {first(i) : i \in DOMAIN listing} BY DEF Reading!Once
  <2>. HIDE DEF first
  <2>. QED BY <2>1, <2>2
<1>2. ASSUME NEW c, OnList(c) PROVE \E r \in Reading!Once(listing) : r.card = c
  <2>. DEFINE on == {k \in 1..Len(listing) : \E r \in listing[k] : r.card = c}
  <2>1. on \subseteq Nat /\ on # {} BY <1>2 DEF OnList
  <2>2. PICK m \in on : \A k \in on : m <= k
    <3>. HIDE DEF on
    <3>. QED BY <2>1, LeastNatural
  <2>3. PICK r \in listing[m] : r.card = c OBVIOUS
  <2>4. \A j \in 1..(m - 1) : \A q \in listing[j] : q.card # r.card
    <3>. SUFFICES ASSUME NEW j \in 1..(m - 1), NEW q \in listing[j], q.card = c PROVE FALSE BY <2>3
    <3>1. m \in 1..Len(listing) /\ Len(listing) \in Nat BY DEF ReadingKinds
    <3>2. j \in 1..Len(listing) /\ ~(m <= j) BY <3>1
    <3>3. j \in on BY <3>2
    <3>. QED BY <2>2, <3>2, <3>3
  <2>5. r \in first(m) /\ m \in 1..Len(listing) BY <2>3, <2>4
  <2>. QED BY <1>1, <2>3, <2>5
<1>. QED BY <1>1, <1>2

LEMMA CardsFollowed == ReadingInv /\ Reading!Follow => ReadingInv'
<1>. SUFFICES ASSUME ReadingInv, Reading!Follow PROVE ReadingInv' OBVIOUS
<1>. DEFINE rows == Reading!Once(listing)
<1>1. /\ round.step = "listed" /\ cheap' = Reading!CostsToo(Reading!CanRecheckCheaply)
      /\ whole' = (kept = NULL)
      /\ round' = [step |-> "choosing", todo |-> Tail(round.todo)] /\ listing' = <<>>
      /\ UNCHANGED <<place, version, edits, kept, cursor, wait, untrue, hurried>>
  BY DEF Reading!Follow, Reading!github
<1>2. PICK failing \in {r.card : r \in {s \in rows : shown[s.card] # s.version}} \cup {NULL} :
         /\ shown' = [c \in AllCards |->
                IF c = failing \/ ~(\E r \in rows : r.card = c) THEN shown[c]
                ELSE (CHOOSE r \in rows : r.card = c).version]
         /\ failing = NULL => still' = still
         /\ failing # NULL => still' = FALSE BY DEF Reading!Follow
<1>3. /\ \A r \in rows : \E k \in 1..Len(listing) : r \in listing[k]
      /\ \A c : OnList(c) => \E r \in rows : r.card = c
  BY ReadingParts, OnceListed
<1>. HIDE DEF rows
<1>4. /\ \A r \in rows : r \in RowKind /\ r.version \in Nat /\ r.version <= version[r.card]
      /\ still => \A r \in rows : r.version = version[r.card]
  <2>1. ASSUME NEW r \in rows
        PROVE  /\ r \in RowKind /\ r.version \in Nat /\ r.version <= version[r.card]
               /\ still => r.version = version[r.card]
    <3>1. PICK k \in 1..Len(listing) : r \in listing[k] BY <1>3
    <3>2. r \in RowKind /\ r.version <= version[r.card] BY <3>1, ReadingParts
    <3>3. still => r.version = version[r.card] BY <3>1, ReadingParts DEF ListedSo
    <3>. QED BY <3>2, <3>3 DEF RowKind
  <2>. QED BY <2>1
<1>5. ASSUME NEW c \in AllCards
      PROVE  \/ shown'[c] = shown[c] /\ (c = failing \/ ~(\E r \in rows : r.card = c))
             \/ \E r \in rows : r.card = c /\ shown'[c] = r.version BY <1>2
<1>6. shown' \in [AllCards -> Nat \cup {NULL}]
  <2>1. \A c \in AllCards : shown'[c] \in Nat \cup {NULL} BY <1>4, <1>5, ReadingParts
  <2>2. shown' = [c \in AllCards |-> shown'[c]] BY <1>2
  <2>. QED BY <2>1, <2>2
<1>7. \A c \in AllCards : shown'[c] # NULL => shown'[c] <= version[c] BY <1>4, <1>5, ReadingParts
<1>8. round.todo \in AtBoard /\ Tail(round.todo) \in {<<"other">>, <<>>}
      /\ <<"other">> \notin ToRead /\ <<>> \notin ToRead
  BY <1>1, ReadingParts, TodosAre DEF PassIs
<1>9. round' \in PassKind /\ round'.step = "choosing" /\ round'.todo \notin ToRead BY <1>1, <1>8 DEF PassKind
<1>10. still' \in BOOLEAN /\ whole' \in BOOLEAN /\ cheap' \in BOOLEAN /\ (whole' => ~cheap')
  <2>1. still' \in BOOLEAN BY <1>2, ReadingParts
  <2>. QED BY <1>1, <2>1, ReadingParts DEF Reading!CostsToo, Reading!CanRecheckCheaply
<1>11. listing' \in Seq(SUBSET RowKind) /\ Len(listing') = 0 BY <1>1
<1>12. ReadingKinds'
  <2>1. Len(listing') <= MaxPages BY <1>11, ReadingSorts
  <2>. QED BY <1>1, <1>6, <1>7, <1>9, <1>10, <1>11, <2>1, ReadingParts DEF ReadingKinds
<1>13. PassIs' /\ Waits' BY <1>1, <1>9, <1>10 DEF PassIs, Waits
<1>14. ListedSo' BY <1>9, <1>11 DEF ListedSo
<1>15. ShownSo'
  <2>. SUFFICES ASSUME still', Reached, NEW c \in Reading!OnBoard PROVE shown'[c] = version[c]
    BY <1>1 DEF ShownSo, Reached, Reading!OnBoard
  <2>1. failing = NULL /\ still BY <1>2
  <2>2. c \in AllCards /\ c # NULL BY ReadingSorts DEF Reading!OnBoard
  <2>3. \E r \in rows : r.card = c BY <1>1, <1>3, <2>1, ReadingParts DEF ListedSo
  <2>4. PICK r \in rows : r.card = c /\ shown'[c] = r.version BY <1>5, <2>1, <2>2, <2>3
  <2>. QED BY <1>4, <2>1, <2>4
<1>. QED BY <1>1, <1>12, <1>13, <1>14, <1>15, ReadingParts DEF ReadingInv

LEMMA ReadingStep == ReadingInv /\ Reading!Next => ReadingInv'
  BY BoardEdited, PassBegins, NothingChanged, FirstPageRead, NextPageRead, CardsFollowed, OtherRead,
    ReadingFails, PassEnds DEF Reading!Next

LEMMA ReadingApart == ReadingInv /\ UNCHANGED readingAside => ReadingInv'
<1>. SUFFICES ASSUME ReadingInv, UNCHANGED readingAside PROVE ReadingInv' OBVIOUS
<1>1. UNCHANGED <<place, version, kept, round, listing, cursor, shown, wait, cheap, edits, still, whole,
                  untrue, hurried>> BY DEF readingAside
<1>2. ReadingKinds' /\ PassIs' BY <1>1, ReadingParts DEF ReadingKinds, PassIs
<1>3. ListedSo' BY <1>1, ReadingParts DEF ListedSo, OnList, Behind, Reached, Reading!OnBoard
<1>4. ShownSo' /\ Waits' BY <1>1, ReadingParts DEF ShownSo, Waits, Reached, Reading!OnBoard
<1>. QED BY <1>1, <1>2, <1>3, <1>4, ReadingParts DEF ReadingInv

----
\* Reminders.  Their other guarantees are proved in RemindersProofs, of
\* the module by itself.

LEMMA RemindInit == Init => TypeOK
  BY ReminderAssumption DEF Init, TypeOK, States, PCs

LEMMA RemindStep == TypeOK /\ Next => TypeOK'
<1>. SUFFICES ASSUME TypeOK, Next PROVE TypeOK' OBVIOUS
<1>. USE ReminderAssumption DEF TypeOK, queue, sender, history, States, PCs
<1>1. ASSUME NEW r \in Ids, CountThem(r) PROVE TypeOK' BY <1>1 DEF CountThem
<1>2. ASSUME NEW r \in Ids, Add(r) PROVE TypeOK' BY <1>2 DEF Add
<1>3. ASSUME NEW r \in Ids, AddFails(r) PROVE TypeOK' BY <1>3 DEF AddFails, Fault
<1>4. CASE Tick BY <1>4 DEF Tick
<1>5. ASSUME NEW r \in Ids, Ages(r) PROVE TypeOK' BY <1>5 DEF Ages
<1>6. ASSUME NEW s \in Senders, ClaimNext(s) PROVE TypeOK'
  <2>1. PICK r \in Eligible : /\ claimed' = [claimed EXCEPT ![r] = TRUE]
                              /\ stale' = [stale EXCEPT ![r] = FALSE]
                              /\ hand' = [hand EXCEPT ![s] = r]
    BY <1>6 DEF ClaimNext
  <2>2. r \in Ids /\ state[r] = "waiting" BY DEF Eligible, Waiting
  <2>. QED BY <1>6, <2>1, <2>2 DEF ClaimNext
<1>7. ASSUME NEW s \in Senders, Post(s) \/ PostDenied(s) \/ PostRefused(s) PROVE TypeOK'
  <2>1. pc[s] = "posting" /\ hand[s] \in Ids BY <1>7 DEF Post, PostDenied, PostRefused
  <2>2. /\ UNCHANGED <<now, state, claimed, stale, attempts, hand>>
        /\ faults' \in Nat
        /\ pc' \in [Senders -> PCs] /\ \A t \in Senders : pc'[t] # "idle" <=> pc[t] # "idle"
    BY <1>7, <2>1 DEF Post, PostDenied, PostRefused, Fault
  <2>3. /\ sent' \in [Ids -> Nat] /\ refusals' \in [Ids -> Nat] /\ denied' \subseteq Ids
    <3>1. PICK r \in Ids : r = hand[s] BY <2>1
    <3>2. /\ sent' = sent \/ sent' = [sent EXCEPT ![r] = sent[r] + 1]
          /\ refusals' = refusals \/ refusals' = [refusals EXCEPT ![r] = refusals[r] + 1]
          /\ denied' = denied \/ denied' = denied \cup {r}
      BY <1>7, <3>1 DEF Post, PostDenied, PostRefused, GoesOut
    <3>3. sent[r] + 1 \in Nat /\ refusals[r] + 1 \in Nat OBVIOUS
    <3>4. sent' \in [Ids -> Nat] BY <3>2, <3>3
    <3>5. refusals' \in [Ids -> Nat] BY <3>2, <3>3
    <3>6. denied' \subseteq Ids
      <4>1. denied \subseteq Ids /\ r \in Ids /\ (denied' = denied \/ denied' = denied \cup {r}) BY <3>2
      <4>. HIDE DEF TypeOK
      <4>. QED BY <4>1
    <3>. QED BY <3>4, <3>5, <3>6
  <2>. QED BY <2>2, <2>3
<1>8. ASSUME NEW s \in Senders, Count(s) PROVE TypeOK'
  <2>1. pc[s] = "counting" /\ hand[s] \in Ids BY <1>8 DEF Count
  <2>. QED BY <1>8, <2>1 DEF Count, Rest
<1>9. ASSUME NEW s \in Senders, Finish(s) PROVE TypeOK'
  <2>1. pc[s] = "finishing" /\ hand[s] \in Ids BY <1>9 DEF Finish
  <2>. QED BY <1>9, <2>1 DEF Finish, Rest
<1>10. ASSUME NEW s \in Senders, Die(s) PROVE TypeOK' BY <1>10 DEF Die, Rest, Fault
<1>. QED BY <1>1, <1>2, <1>3, <1>4, <1>5, <1>6, <1>7, <1>8, <1>9, <1>10 DEF Next, Command, Step, Trouble

LEMMA RemindApart == TypeOK /\ UNCHANGED vars => TypeOK'
  BY DEF TypeOK, vars, queue, sender, history

----
\* A step of one part is no step of another's.

LEMMA SignInApart == SignInInv /\ UNCHANGED signInsAside => SignInInv'
<1>. SUFFICES ASSUME SignInInv, UNCHANGED signInsAside PROVE SignInInv' OBVIOUS
<1>1. SignInKinds' BY DEF SignInInv, SignInKinds, signInsAside, SignIn!TypeOK
<1>2. NamesAreGiven' /\ TripsAreTheMembers' /\ AsGitHubSays'
  BY DEF SignInInv, NamesAreGiven, TripsAreTheMembers, AsGitHubSays, signInsAside
<1>3. SignIn!NobodyElsesAccount' /\ (Vouched => VouchedFor)'
  BY DEF SignInInv, signInsAside, SignIn!NobodyElsesAccount, SignIn!ClaimOf, Vouched, VouchedFor
<1>. QED BY <1>1, <1>2, <1>3 DEF SignInInv

LEMMA BoardsApart == BoardsInv /\ UNCHANGED boardsAside => BoardsInv'
<1>. SUFFICES ASSUME BoardsInv, UNCHANGED boardsAside PROVE BoardsInv' OBVIOUS
<1>1. /\ Boards!TypeOK /\ BoardKinds /\ \A m \in Linkers : OpenedAs(asking[m])
      /\ asking \in [Linkers -> LinkUnderWay] /\ pass \in [Boards!Servers -> PassUnderWay]
      /\ letting \in [Boards!Servers -> [step : {"idle", "read", "forget"}, by : Linkers \cup {NULL}]]
  BY DEF BoardsInv, BoardKinds, LinksAreOpened
<1>2. BoardKinds' BY <1>1 DEF BoardKinds, Boards!TypeOK, boardsAside
<1>. QED BY <1>1, <1>2, OnlyLinksUnderWay DEF boardsAside

LEMMA CardsApart == CardsInv /\ UNCHANGED cardsAside => CardsInv'
<1>. SUFFICES ASSUME CardsInv, UNCHANGED cardsAside PROVE CardsInv' OBVIOUS
<1>1. UNCHANGED <<column, label, merged, status, seen, paired, news, shut, holder, at, run, poll,
                  events, apart, owed>> BY DEF cardsAside
<1>2. CardThings' BY <1>1, CardsParts DEF CardThings
<1>3. AgreeInv' /\ LockInv' BY <1>1, CardsParts DEF AgreeInv, Tells, Half, LockInv, LockSays
<1>. QED BY <1>1, <1>2, <1>3, NobodyMoves

LEMMA DraftsApart == DraftsInv /\ UNCHANGED draftsAside => DraftsInv'
<1>. SUFFICES ASSUME DraftsInv, UNCHANGED draftsAside PROVE DraftsInv' OBVIOUS
<1>1. UNCHANGED <<card, access, cardState, stamp, pointer, thread, block, keeper, goneOnce, where,
                  found, mishaps, unshown, astray, blinks>> BY DEF draftsAside
<1>2. DraftThings' /\ DraftsAt' /\ NothingNewer' BY <1>1, DraftParts DEF DraftThings, DraftsAt, NothingNewer
<1>3. ShowsOrWill' /\ LockIsTheRows' BY <1>1, DraftParts DEF ShowsOrWill, LockIsTheRows, AtItsThread
<1>4. DeniedTwice' BY <1>1, DraftParts DEF DeniedTwice, Drafts!LetGoForAReason, Drafts!Exists
<1>. QED BY <1>2, <1>3, <1>4 DEF DraftsInv

PartsInv ==
    /\ part \in Parts
    /\ SignInInv /\ BoardsInv /\ CardsInv /\ DraftsInv /\ RedrawInv /\ ReadingInv /\ TypeOK

LEMMA PartsHold == PartsSpec => []PartsInv
<1>. USE DEF PartsInv
<1>1. PartsInit => PartsInv
  BY SignInInit, BoardsInit, CardsInit, DraftsInit, RedrawInit, ReadingInit, RemindInit DEF PartsInit
<1>. USE DEF PartsNext, Remind, MoveCards, MirrorDrafts, LinkBoards, SignPeopleIn, ReadBoards, RedrawThreads
<1>2. PartsNext => SignIn!Next \/ UNCHANGED signInsAside OBVIOUS
<1>3. PartsNext => Boards!Next \/ UNCHANGED boardsAside OBVIOUS
<1>4. PartsNext => Cards!Next \/ UNCHANGED cardsAside OBVIOUS
<1>5. PartsNext => Drafts!Next \/ UNCHANGED draftsAside OBVIOUS
<1>6. PartsNext => Redraw!Next \/ UNCHANGED redrawsAside OBVIOUS
<1>7. PartsNext => Reading!Next \/ UNCHANGED readingAside OBVIOUS
<1>8. PartsNext => Next \/ UNCHANGED vars OBVIOUS
<1>9. PartsNext => UNCHANGED part OBVIOUS
<1>10. UNCHANGED allVars =>
         /\ UNCHANGED <<part, signInsAside, boardsAside, cardsAside, draftsAside>>
         /\ UNCHANGED <<redrawsAside, readingAside, vars>> BY DEF allVars
<1>. HIDE DEF PartsNext, Remind, MoveCards, MirrorDrafts, LinkBoards, SignPeopleIn, ReadBoards, RedrawThreads
<1>11. PartsInv /\ [PartsNext]_allVars =>
         SignInInv' /\ BoardsInv' /\ CardsInv' /\ DraftsInv'
  BY <1>2, <1>3, <1>4, <1>5, <1>10, SignInStep, SignInApart, BoardsStep, BoardsApart, CardsStep, CardsApart,
    DraftsStep, DraftsApart
<1>12. PartsInv /\ [PartsNext]_allVars => RedrawInv' /\ ReadingInv' /\ TypeOK'
  BY <1>6, <1>7, <1>8, <1>10, RedrawStep, RedrawsApart, ReadingStep, ReadingApart, RemindStep, RemindApart
<1>13. PartsInv /\ [PartsNext]_allVars => (part \in Parts)' BY <1>9, <1>10
<1>. QED BY <1>1, <1>11, <1>12, <1>13, PTL DEF PartsSpec

\* Every variable of every part keeps its type, through everything its part may do.
THEOREM PartsTypeCorrect == PartsSpec => []PartsTypeOK
<1>1. PartsInv => PartsTypeOK
  <2>. SUFFICES ASSUME PartsInv PROVE PartsTypeOK OBVIOUS
  <2>1. /\ TypeOK /\ Cards!TypeOK /\ Drafts!TypeOK /\ Boards!TypeOK /\ Reading!TypeOK /\ Redraw!TypeOK
        /\ part \in Parts
    BY CardsAre, DraftsAre, BoardsAre, ReadingAre, RedrawsAre DEF PartsInv
  <2>2. SignIn!TypeOK BY DEF PartsInv, SignInInv, SignInKinds
  <2>. QED BY <2>1, <2>2 DEF PartsTypeOK, Parts
<1>. QED BY <1>1, PartsHold, PTL

\* A 304 never stands for a listing that is not the board, after a pass that nothing changed
\* or failed under every card within the pages a listing is followed for is shown as it is,
\* and a board that has no validator is read no faster than the slow clock; and a refresh
\* puts each thread back as it found it, redraws each issue in its turn, and tells only of
\* what it showed: through every order of edits, deliveries, replies, refusals and deaths.
THEOREM AlwaysReadAndShownWhole == PartsSpec => []ReadAndShownWhole
<1>1. ReadingInv /\ RedrawInv => ReadAndShownWhole BY ReadingAre, RedrawsAre DEF ReadAndShownWhole
<1>. QED BY <1>1, PartsHold, PTL DEF PartsInv

\* The board a poll reads is the one its linker opened, as that linker, and the cards kept
\* for a server are of that board: through every order of links, unlinks, transfers, renames
\* and passes.
THEOREM BoardsAlwaysAsChosen == PartsSpec => []BoardsAreAsChosen
<1>1. BoardsInv => BoardsAreAsChosen BY BoardsAre DEF BoardsAreAsChosen
<1>. QED BY <1>1, PartsHold, PTL DEF PartsInv

\* Nobody has another member's account kept as their own, and a command puts on an item whom
\* it names.  Where claims from before ids were kept are still on file, the setting that they
\* be proved again has to be on: such a claim is only a name, which may be somebody else's.
THEOREM AlwaysThemselves ==
  ASSUME Vouched PROVE PartsSpec => []EveryoneIsThemselves
<1>1. SignInInv => EveryoneIsThemselves
  BY DEF SignInInv, VouchedFor, EveryoneIsThemselves, SignIn!PutsTheRightOneOn
<1>. QED BY <1>1, PartsHold, PTL DEF PartsInv

\* Once nothing is under way, row, card and lock say one thing, unless somebody was told they
\* would not: through every interleaving of commands, polls, drags, closings, failures and
\* deaths.
THEOREM AlwaysMoved == PartsSpec => []MovedWhenQuiet
<1>1. CardsInv => MovedWhenQuiet BY CardsAre DEF MovedWhenQuiet
<1>. QED BY <1>1, PartsHold, PTL DEF PartsInv

\* Whenever the pass and the refresh rest, what the next pass would pass over is shown as the
\* card is, and locked as it is, and a thread was let go of as deleted for a reason: through
\* every interleaving of passes, refreshes, edits, failures and deaths.
THEOREM DraftsAlwaysAsTheirCards == PartsSpec => []DraftsAreAsTheirCards
<1>1. DraftsInv => DraftsAreAsTheirCards BY DraftsAre
<1>. QED BY <1>1, PartsHold, PTL DEF PartsInv
================================================================================
