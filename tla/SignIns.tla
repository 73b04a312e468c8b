------------------------------- MODULE SignIns -------------------------------
(***************************************************************************)
(* Signing in to GitHub from one server, and acting under the result.      *)
(*                                                                         *)
(*   services/verification.py, api/routes/oauth.py, services/linking.py,   *)
(*   services/people.py, db/stores/identities.py, db/stores/user_links.py  *)
(*                                                                         *)
(* A command hands a member a link.  Whoever opens it goes to Discord, and *)
(* from there to GitHub, each time with a state sealed to the browser's    *)
(* cookie; the browser that Discord says is the member's may finish.  What *)
(* GitHub answers is kept as a proof, and becomes the member's claim or    *)
(* the authorisation boards are read under.  A claim is a login with the   *)
(* account's id, and follows the account when it is renamed.               *)
(* A person has one browser, is signed in to Discord there, and to GitHub  *)
(* with any account of theirs.  Addresses travel: one person may open what *)
(* another was given.                                                      *)
(***************************************************************************)
EXTENDS Naturals, FiniteSets

CONSTANTS
    People,         \* members of the server, with a browser each
    Holds(_),       \* Holds(p): the GitHub accounts of p
    FirstName(_),   \* FirstName(a): what the account is called at first
    Names,          \* the logins there are
    Claimed,        \* the claims on file at the start, from before ids were kept
    MaxLinks,       \* bound: one-time links
    RequireProved,  \* SHANNON_REQUIRE_PROVED_LINKS
    MaxRenames,     \* bound: accounts renamed
    MaxCommands,    \* bound: /assign and the like
    NULL

Links    == 1..MaxLinks
Accounts == UNION {Holds(p) : p \in People}

SignInsAssumption ==
    /\ \A p, q \in People : p # q => Holds(p) \cap Holds(q) = {}
    /\ \A a \in Accounts : FirstName(a) \in Names
    /\ \A a, b \in Accounts : a # b => FirstName(a) # FirstName(b)
    \* uq_user_links_guild_github, uq_user_links_guild_discord
    /\ Claimed \subseteq [login : Names, id : {NULL}, member : People]
    /\ \A c, d \in Claimed : c # d => c.login # d.login /\ c.member # d.member
    /\ NULL \notin People \cup Accounts \cup Names /\ {MaxLinks, MaxRenames, MaxCommands} \subseteq Nat
    /\ RequireProved \in BOOLEAN

VARIABLES
    called,    \* GitHub: what each account is called
    roles,     \* Discord: who holds the tier the board commands ask for
    pending,   \* pending[l]: the row in identity_verifications
    trip,      \* trip[l]: the callback that spent l
    proofs,    \* proofs[p]: the account in verified_identities, or NULL
    claims,    \* user_links
    keys,      \* keys[p]: the account in board_authorizations, or NULL
    act,       \* the command that puts somebody on an item
    renames, commands,
    everNamed, \* history: what each account has been called
    stray      \* history: somebody else was put on an item, with GitHub's answer in hand

hubNames == <<called, renames, everNamed>>
signInVars == <<hubNames, roles, pending, trip, proofs, claims, keys, act, commands,
                stray>>

Unissued == [step |-> "unissued", member |-> NULL, purpose |-> NULL, bound |-> NULL]
NoTrip   == [step |-> "none", account |-> NULL]
NoAct    == [step |-> "idle", member |-> NULL, claim |-> NULL, login |-> NULL, sure |-> TRUE]

Init ==
    /\ called = [a \in Accounts |-> FirstName(a)]
    /\ roles \in {People, {}}
    /\ pending = [l \in Links |-> Unissued]
    /\ trip = [l \in Links |-> NoTrip]
    /\ proofs = [p \in People |-> NULL] /\ keys = [p \in People |-> NULL]
    /\ claims = Claimed
    /\ act = NoAct /\ renames = 0 /\ commands = 0
    /\ everNamed = {<<a, FirstName(a)>> : a \in Accounts}
    /\ stray = FALSE

(***************************************************************************)
(* GitHub frees a name the moment its account is renamed; roles come and   *)
(* go.                                                                     *)
(***************************************************************************)

RenameAccount ==
    /\ renames < MaxRenames /\ renames' = renames + 1
    /\ \E a \in Accounts, name \in Names \ {called[b] : b \in Accounts} :
          called' = [called EXCEPT ![a] = name] /\ everNamed' = everNamed \cup {<<a, name>>}
    \* What a command asked a moment ago may not be so any more.
    /\ act' = [act EXCEPT !.sure = FALSE]
    /\ UNCHANGED <<roles, pending, trip, proofs, claims, keys, commands, stray>>

TakeRoles ==
    /\ roles # {} /\ roles' = {}
    /\ UNCHANGED <<hubNames, pending, trip, proofs, claims, keys, act, commands, stray>>

(***************************************************************************)
(* The round trip.                                                         *)
(***************************************************************************)

Purposes == {"link", "register", "board"}

\* link_for(): only for whoever ran the command.
Issue(l, p) ==
    /\ pending[l].step = "unissued" /\ \A k \in 1..(l - 1) : pending[k].step # "unissued"
    /\ \E purpose \in Purposes :
          /\ purpose = "board" => p \in roles
          /\ pending' = [pending EXCEPT ![l] =
                [step |-> "open", member |-> p, purpose |-> purpose, bound |-> NULL]]
    /\ UNCHANGED <<hubNames, roles, trip, proofs, claims, keys, act, commands, stray>>

\* IdentityVerificationStore.pending()
Followable(l) == pending[l].step = "open"

\* Ten minutes pass; prune() drops what is long past them.
Expire(l) ==
    /\ Followable(l)
    /\ pending' = [pending EXCEPT ![l].step = "over"]
    /\ UNCHANGED <<hubNames, roles, trip, proofs, claims, keys, act, commands, stray>>

\* start() writes nothing, and anybody may open the link.  prove_on_discord() and bind():
\* Discord names whose browser it is.
IsTheMember(l, b) == Followable(l) /\ pending[l].member = b

ProveOnDiscord(l, b) ==
    /\ IsTheMember(l, b)
    /\ pending' = [pending EXCEPT ![l].bound = b]
    /\ UNCHANGED <<hubNames, roles, trip, proofs, claims, keys, act, commands, stray>>

\* Mutant: a state is good in any browser.
AnyBrowser(l, b) == Followable(l) /\ pending[l].bound # NULL

\* _opened() and consume(): sealed to a browser, and spent by it, in one statement.
Spendable(l, b) == Followable(l) /\ pending[l].bound = b

\* redeem(): spent first; a board link then asks Discord whether the tier is still held.
Redeem(l, b) ==
    /\ Spendable(l, b)
    /\ pending' = [pending EXCEPT ![l].step = "over"]
    /\ IF pending[l].purpose = "board" /\ pending[l].member \notin roles THEN UNCHANGED trip
       ELSE \E account \in Holds(b) :
               trip' = [trip EXCEPT ![l] = [step |-> "spent", account |-> account]]
    /\ UNCHANGED <<hubNames, roles, proofs, claims, keys, act, commands, stray>>

\* GitHub refuses, grants less than was asked, or the process dies: the state stays spent.
Fail(l) ==
    /\ trip[l].step # "none"
    /\ trip' = [trip EXCEPT ![l] = NoTrip]
    /\ UNCHANGED <<hubNames, roles, pending, proofs, claims, keys, act, commands, stray>>

\* VerifiedIdentityStore.remember(), whatever the link was for.
Remember(l) ==
    /\ trip[l].step = "spent"
    /\ proofs' = [proofs EXCEPT ![pending[l].member] = trip[l].account]
    /\ trip' = [trip EXCEPT ![l] =
          IF pending[l].purpose = "register" THEN NoTrip ELSE [@ EXCEPT !.step = "proved"]]
    /\ UNCHANGED <<hubNames, roles, pending, claims, keys, act, commands, stray>>

KeepKey(l) ==
    /\ trip[l].step = "proved" /\ pending[l].purpose = "board"
    /\ keys' = [keys EXCEPT ![pending[l].member] = trip[l].account]
    /\ trip' = [trip EXCEPT ![l] = NoTrip]
    /\ UNCHANGED <<hubNames, roles, pending, proofs, claims, act, commands, stray>>

(***************************************************************************)
(* Claims.  Both writers hold the server's advisory lock, so each is one   *)
(* step.                                                                   *)
(***************************************************************************)

Claim(login, id, member) == [login |-> login, id |-> id, member |-> member]

\* UserLinkStore.link(): clears what either half was bound to.  The name is the one GitHub
\* gave when it was asked who signed in.
Bind(l) ==
    /\ trip[l].step = "proved" /\ pending[l].purpose = "link"
    /\ \E name \in {t[2] : t \in {t \in everNamed : t[1] = trip[l].account}} :
          LET p == pending[l].member IN
          claims' = {c \in claims : c.login # name /\ c.member # p} \cup {Claim(name, trip[l].account, p)}
    /\ trip' = [trip EXCEPT ![l] = NoTrip]
    /\ UNCHANGED <<hubNames, roles, pending, proofs, keys, act, commands, stray>>

ClaimOf(p) == {c \in claims : c.member = p}

\* follow_rename(): a claim made meanwhile wins.
StillTheClaim(c) == c.member = act.member /\ c.id = act.claim.id

(***************************************************************************)
(* A command that puts the member on an item, or takes them off.           *)
(***************************************************************************)

\* account_for()
ReadClaim(p) ==
    /\ act.step = "idle" /\ commands < MaxCommands /\ commands' = commands + 1
    /\ \E c \in ClaimOf(p) :
          act' = [step |-> "claim", member |-> p, claim |-> c, login |-> c.login, sure |-> TRUE]
    /\ UNCHANGED <<hubNames, roles, pending, trip, proofs, claims, keys, stray>>

\* _as_github_names_it(): a claim with no id asks nothing; an outage leaves the claim.
AskGitHub ==
    /\ act.step = "claim"
    /\ \/ /\ act.claim.id = NULL
          /\ act' = [act EXCEPT !.step = "named"]
       \/ /\ act.claim.id # NULL
          /\ act' = [act EXCEPT !.step = IF called[act.claim.id] = act.login THEN "named" ELSE "moved",
                                !.login = called[act.claim.id], !.sure = TRUE]
       \/ /\ act.claim.id # NULL
          /\ act' = [act EXCEPT !.step = "named", !.sure = FALSE]
    /\ UNCHANGED <<hubNames, roles, pending, trip, proofs, claims, keys, commands, stray>>

\* follow_rename(): unless somebody else has the name on file.
FollowAccount ==
    /\ act.step = "moved"
    /\ LET mine == {c \in claims : StillTheClaim(c)}
           held == {c \in claims \ mine : c.login = act.login}
       IN claims' = IF held # {} THEN claims
                    ELSE (claims \ mine) \cup {[c EXCEPT !.login = act.login] : c \in mine}
    /\ act' = [act EXCEPT !.step = "named"]
    /\ UNCHANGED <<hubNames, roles, pending, trip, proofs, keys, commands, stray>>

\* LinkedAccount.proved_by()
Proved == act.claim.id # NULL /\ proofs[act.member] = act.claim.id

\* _vouched_for() and _write().
Write ==
    /\ act.step = "named"
    /\ stray' = (stray \/ ( (Proved \/ ~RequireProved) /\ act.sure
                            /\ \E a \in Accounts \ Holds(act.member) : called[a] = act.login ))
    /\ act' = NoAct
    /\ UNCHANGED <<hubNames, roles, pending, trip, proofs, claims, keys, commands>>

DropAct ==
    /\ act.step # "idle" /\ act' = NoAct
    /\ UNCHANGED <<hubNames, roles, pending, trip, proofs, claims, keys, commands, stray>>

Next ==
    \/ RenameAccount \/ TakeRoles
    \/ \E l \in Links :
          \/ Expire(l) \/ Fail(l) \/ Remember(l) \/ KeepKey(l) \/ Bind(l)
          \/ \E p \in People : Issue(l, p) \/ ProveOnDiscord(l, p) \/ Redeem(l, p)
    \/ \E p \in People : ReadClaim(p)
    \/ AskGitHub \/ FollowAccount \/ Write \/ DropAct

Spec == Init /\ [][Next]_signInVars

TypeOK ==
    /\ called \in [Accounts -> Names] /\ roles \subseteq People
    /\ pending \in [Links -> [step : {"unissued", "open", "over"}, member : People \cup {NULL},
                              purpose : Purposes \cup {NULL}, bound : People \cup {NULL}]]
    /\ trip \in [Links -> [step : {"none", "spent", "proved"}, account : Accounts \cup {NULL}]]
    /\ proofs \in [People -> Accounts \cup {NULL}] /\ keys \in [People -> Accounts \cup {NULL}]
    /\ claims \subseteq [login : Names, id : Accounts \cup {NULL}, member : People]
    /\ act.step \in {"idle", "claim", "moved", "named"} /\ act.sure \in BOOLEAN
    /\ renames \in 0..MaxRenames /\ commands \in 0..MaxCommands
    /\ everNamed \subseteq Accounts \X Names /\ stray \in BOOLEAN

(***************************************************************************)
(* What it promises.                                                       *)
(***************************************************************************)

\* What is kept for a member is an account that member holds, whoever opened the member's
\* links and in whatever order: the proof, the claim and the board's authorisation.  And a
\* claim pairs the account with a name it has had, one to a member and one to a name,
\* although a rename may be followed while the member signs in as another account.
NobodyElsesAccount ==
    /\ \A p \in People :
          /\ {proofs[p], keys[p]} \subseteq Holds(p) \cup {NULL}
          /\ \A c \in ClaimOf(p) : c.id \in Holds(p) \cup {NULL}
    /\ \A c \in claims : c.id # NULL => <<c.id, c.login>> \in everNamed
    /\ \A c, d \in claims : c # d => c.login # d.login /\ c.member # d.member

\* A command puts nobody on an item but the member it names, unless GitHub would not say
\* what the account is called or an account was renamed since it did.
PutsTheRightOneOn == ~stray
=============================================================================
