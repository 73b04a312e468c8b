------------------------------ MODULE BoardLink ------------------------------
(***************************************************************************)
(* Which board a server mirrors, and whose authorisation reads it.         *)
(*                                                                         *)
(*   commands/board.py, services/boards.py, services/board_credentials.py, *)
(*   db/stores/repositories.py, the listing in services/projects.py        *)
(*                                                                         *)
(* A board is a number under an account, and every board here has the same *)
(* number, so an account's login names its board.  A server's row keeps    *)
(* the login GitHub last gave as its repository's owner, that account's id *)
(* where one was told, and the board: under a login somebody named, or     *)
(* under none for the repository's own owner.  Commands, deliveries and    *)
(* the poller meet in the rows; none holds one while GitHub is asked.      *)
(* Logins are compared without case in the code, and have one case here.   *)
(***************************************************************************)
EXTENDS Naturals, FiniteSets

CONSTANTS
    Home, Away,  \* two servers: Home's repository may change hands
    Us, Them,    \* the accounts that own the repositories, and their first logins
    NewLogin,    \* what Us may call itself later
    Linkers,     \* members who link boards
    MaxMoves,    \* bound: transfers and renames on GitHub
    MaxOrders,     \* bound: /board link, /board unlink and /board withdraw
    NULL

Servers  == {Home, Away}
Accounts == {Us, Them}
Logins   == {Us, Them, NewLogin}

BoardLinkAssumption ==
    /\ Home # Away /\ Cardinality(Logins) = 3 /\ NULL \notin Servers \cup Logins \cup Linkers
    /\ \A a \in Accounts, m \in Linkers : <<a, m>> # NULL
    /\ {MaxMoves, MaxOrders} \subseteq Nat

VARIABLES
    login,    \* GitHub: what each account calls itself
    owned,    \* GitHub: whose account each server's repository belongs to
    said,     \* GitHub: the owners Home's deliveries have carried
    link,     \* link[s]: the server's row in repositories
    grants,   \* board_authorizations: the <<server, member>> that have a row
    wraps,    \* wraps[s]: the board the stored card ids and columns belong to
    asking,   \* asking[m]: the member's /board link
    letting,  \* letting[s]: the server's /board unlink
    pass,     \* pass[s]: the poller's pass over the server's board
    moves, orders,
    meant,    \* history: the board last linked, and by whom
    crossed   \* history: the pairings may be of a board read across a relink

hubVars  == <<login, owned, said>>
memory   == <<meant, crossed>>
linkVars == <<hubVars, link, grants, wraps, asking, letting, pass, moves, orders, memory>>

NoBoard  == [on |-> FALSE, owner |-> NULL, by |-> NULL]
Idle     == [step |-> "idle", server |-> NULL, typed |-> NULL, under |-> NULL,
             owner |-> NULL, board |-> NULL, before |-> NULL, crossed |-> FALSE]
NotPolled == [step |-> "idle", owner |-> NULL, board |-> NULL, seen |-> NULL, crossed |-> FALSE]
Settled  == [step |-> "idle", by |-> NULL]

Row(name, id, board) == [name |-> name, id |-> id, board |-> board]

Init ==
    /\ login = [a \in Accounts |-> a]
    /\ owned = [s \in Servers |-> IF s = Home THEN Us ELSE Them]
    /\ said  = {<<Us, Us>>}
    /\ \E id \in {Us, NULL} : link =
          [s \in Servers |-> IF s = Home THEN Row(Us, id, NoBoard) ELSE Row(Them, Them, NoBoard)]
    /\ grants = Servers \X Linkers
    /\ wraps = [s \in Servers |-> NULL]
    /\ asking  = [m \in Linkers |-> Idle]
    /\ letting = [s \in Servers |-> Settled]
    /\ pass    = [s \in Servers |-> NotPolled]
    /\ moves = 0 /\ orders = 0
    /\ meant   = [s \in Servers |-> NULL]
    /\ crossed = [s \in Servers |-> FALSE]

(***************************************************************************)
(* What a row says.                                                        *)
(***************************************************************************)

\* board_owner()
BoardOwner(typed, name) == IF typed # NULL THEN typed ELSE name

ReadUnder(s) == BoardOwner(link[s].board.owner, link[s].name)

\* RepositoryStore.mirroring()
Mirroring(owner) == {s \in Servers : link[s].board.on /\ ReadUnder(s) = owner}

\* BoardCredentials.reading(): exactly one server's linker, if still authorised.
ReadAs(owner) ==
    IF Cardinality(Mirroring(owner)) # 1 THEN {}
    ELSE {<<s, link[s].board.by>> : s \in Mirroring(owner)} \cap grants

\* GitHub opens the board of whoever has the login now.
Opens(owner) == {a \in Accounts : login[a] = owner}

(***************************************************************************)
(* GitHub, and the deliveries that say what happened there.                *)
(***************************************************************************)

Moves == moves < MaxMoves /\ moves' = moves + 1

Transfer ==
    /\ Moves
    /\ \E a \in Accounts \ {owned[Home]} :
          owned' = [owned EXCEPT ![Home] = a] /\ said' = said \cup {<<login[a], a>>}
    /\ UNCHANGED <<login, link, grants, wraps, asking, letting, pass, orders, memory>>

RenameAccount ==
    /\ Moves
    /\ login[Us] = Us
    /\ login' = [login EXCEPT ![Us] = NewLogin]
    /\ said' = IF owned[Home] = Us THEN said \cup {<<NewLogin, Us>>} ELSE said
    /\ UNCHANGED <<owned, link, grants, wraps, asking, letting, pass, orders, memory>>

\* _left_behind()
LeftBehind(r, name, id) ==
    /\ r.board.on /\ r.board.owner = NULL /\ r.name # name
    /\ ~ (id # NULL /\ r.id = id)

\* _leave_behind(): a move that is not proven takes the board off its linker too.
Kept(r, name, id) ==
    IF ~ LeftBehind(r, name, id) THEN r.board
    ELSE [r.board EXCEPT !.owner = r.name,
                         !.by = IF id # NULL /\ r.id # NULL THEN r.board.by ELSE NULL]

\* follow_rename() decides nothing from a row it has not read again under a lock.  A
\* delivery is late only for its own item, so any owner there has been may be told.
FollowRename ==
    \E told \in said, known \in BOOLEAN :
        LET r  == link[Home]
            id == IF known THEN told[2] ELSE NULL
        IN
        /\ r.name # told[1] \/ (known /\ r.id # id)
        /\ link' = [link EXCEPT ![Home] =
              Row(told[1],
                  IF known THEN id ELSE IF r.name = told[1] THEN r.id ELSE NULL,
                  Kept(r, told[1], id))]
        /\ UNCHANGED <<hubVars, grants, wraps, asking, letting, pass, moves, orders, memory>>

(***************************************************************************)
(* /board link.                                                            *)
(***************************************************************************)

Orders == orders < MaxOrders /\ orders' = orders + 1

Granted(m, s) == <<s, m>> \in grants

\* A board picked from one owner's list is not another's of the same number.
MovedSince(a, owner) == a.typed = NULL /\ a.under # NULL /\ owner # a.under

\* assign(): the row is read, the board is opened, and nothing is held meanwhile.
Open(m, a) ==
    LET owner == BoardOwner(a.typed, link[a.server].name) IN
    /\ ~ MovedSince(a, owner)
    /\ \E account \in Opens(owner) :
          asking' = [asking EXCEPT ![m] =
              [a EXCEPT !.step = "opened", !.owner = owner, !.board = account, !.before = link[a.server]]]

\* _sign_in_to_link(): a link to follow, which remembers whose board a number meant.
Invite(m, a) ==
    asking' = [asking EXCEPT ![m] =
        [a EXCEPT !.step = "invited",
                  !.under = IF a.typed = NULL THEN link[a.server].name ELSE NULL]]

LinkBoard(m) ==
    /\ asking[m].step = "idle"
    /\ Orders
    /\ \E s \in Servers, typed \in {NULL} \cup {login[a] : a \in Accounts} :
          LET a == [Idle EXCEPT !.server = s, !.typed = typed] IN
          (Granted(m, s) /\ Open(m, a)) \/ Invite(m, a)
    /\ UNCHANGED <<hubVars, link, grants, wraps, letting, pass, moves, memory>>

\* The browser comes back: the authorisation is kept, then the board linked.
FollowLink(m) ==
    LET a == asking[m] IN
    /\ a.step = "invited"
    /\ grants' = grants \cup {<<a.server, m>>}
    /\ Open(m, a) \/ asking' = [asking EXCEPT ![m] = Idle]
    /\ UNCHANGED <<hubVars, link, wraps, letting, pass, moves, orders, memory>>

\* One query, and nothing keeps its answer true.
CheckNobodyElses(m) ==
    LET a == asking[m] IN
    /\ a.step = "opened"
    /\ asking' = [asking EXCEPT ![m] =
          IF Mirroring(a.owner) \ {a.server} = {} THEN [a EXCEPT !.step = "checked"] ELSE Idle]
    /\ UNCHANGED <<hubVars, link, grants, wraps, letting, pass, moves, orders, memory>>

\* Mutant: another number is another board, another owner is not.
OtherNumber(a) == ~ a.before.board.on

\* The cards are of another board than the row that was read has.
OtherBoard(a) ==
    \/ ~ a.before.board.on
    \/ BoardOwner(a.before.board.owner, a.before.name) # a.owner

\* session.refresh(): the row as it is, now that this session has written it.
MovedMeanwhile(a) == BoardOwner(a.typed, link[a.server].name) # a.owner

\* Whoever is between reading s's row and writing from it has read another board.
Stirred(s, ms) == [m \in Linkers |-> IF m \in ms /\ asking[m].step \in {"opened", "checked"} /\ asking[m].server = s
                                     THEN [asking[m] EXCEPT !.crossed = TRUE] ELSE asking[m]]
StirredPass(s) == [pass EXCEPT ![s].crossed = (pass[s].step # "idle")]

\* forget_the_board(), set_board() and the question asked again, in one transaction.
CommitLink(m) ==
    LET a == asking[m]
        s == a.server
        board == [on |-> TRUE, owner |-> a.typed, by |-> m]
    IN
    /\ a.step = "checked"
    /\ IF MovedMeanwhile(a)
       THEN asking' = [asking EXCEPT ![m] = Idle] /\ UNCHANGED <<link, wraps, pass, memory>>
       ELSE /\ link'  = [link EXCEPT ![s].board = board]
            /\ wraps' = IF OtherBoard(a) THEN [wraps EXCEPT ![s] = NULL] ELSE wraps
            /\ crossed' = [crossed EXCEPT ![s] = ~OtherBoard(a) /\ (@ \/ a.crossed)]
            /\ meant' = [meant EXCEPT ![s] = <<a.board, m>>]
            /\ asking' = [Stirred(s, Linkers \ {m}) EXCEPT ![m] = Idle]
            /\ pass' = StirredPass(s)
    /\ UNCHANGED <<hubVars, grants, letting, moves, orders>>

\* A refusal of GitHub's, a link nobody follows in time, a death: nothing is written.
Abandon(m) ==
    /\ asking[m].step # "idle"
    /\ asking' = [asking EXCEPT ![m] = Idle]
    /\ UNCHANGED <<hubVars, link, grants, wraps, letting, pass, moves, orders, memory>>

(***************************************************************************)
(* /board unlink and /board withdraw.                                      *)
(***************************************************************************)

Unlink(s) ==
    /\ letting[s].step = "idle"
    /\ Orders
    /\ letting' = [letting EXCEPT ![s] = [step |-> "read", by |-> link[s].board.by]]
    /\ UNCHANGED <<hubVars, link, grants, wraps, asking, pass, moves, memory>>

CommitUnlink(s) ==
    /\ letting[s].step = "read"
    /\ link'  = [link EXCEPT ![s].board = NoBoard]
    /\ wraps' = [wraps EXCEPT ![s] = NULL]
    /\ meant' = [meant EXCEPT ![s] = NULL]
    /\ crossed' = [crossed EXCEPT ![s] = FALSE]
    /\ asking' = Stirred(s, Linkers)
    /\ pass' = StirredPass(s)
    /\ letting' = [letting EXCEPT ![s] = IF @.by = NULL THEN Settled ELSE [@ EXCEPT !.step = "forget"]]
    /\ UNCHANGED <<hubVars, grants, moves, orders>>

\* In a transaction of its own, whatever was linked since; or the process died first.
LetGo(s) ==
    /\ letting[s].step = "forget"
    /\ grants' \in {grants, grants \ {<<s, letting[s].by>>}}
    /\ letting' = [letting EXCEPT ![s] = Settled]
    /\ UNCHANGED <<hubVars, link, wraps, asking, pass, moves, orders, memory>>

Withdraw(m) ==
    /\ Orders
    /\ \E s \in Servers : <<s, m>> \in grants /\ grants' = grants \ {<<s, m>>}
    /\ UNCHANGED <<hubVars, link, wraps, asking, letting, pass, moves, memory>>

(***************************************************************************)
(* The poller's pass over one board.                                       *)
(***************************************************************************)

\* _boards() lists every board at the top of the pass.
ListBoards(s) ==
    /\ pass[s].step = "idle" /\ link[s].board.on
    /\ pass' = [pass EXCEPT ![s] = [NotPolled EXCEPT !.step = "listed", !.owner = ReadUnder(s)]]
    /\ UNCHANGED <<hubVars, link, grants, wraps, asking, letting, moves, orders, memory>>

\* list_board_items() as whoever it is read as, then _board_state().
ReadBoard(s) ==
    LET p == pass[s] IN
    /\ p.step = "listed"
    /\ \/ /\ ReadAs(p.owner) # {}
          /\ \E a \in Opens(p.owner) :
                pass' = [pass EXCEPT ![s] = [p EXCEPT !.step = "read", !.board = a, !.seen = wraps[s]]]
       \/ pass' = [pass EXCEPT ![s] = NotPolled]
    /\ UNCHANGED <<hubVars, link, grants, wraps, asking, letting, moves, orders, memory>>

\* _remember_cards(): what was seen decides whether anything is written.
Pair(s) ==
    LET p == pass[s]
        written == p.seen # p.board
    IN
    /\ p.step = "read"
    /\ wraps' = IF written THEN [wraps EXCEPT ![s] = p.board] ELSE wraps
    /\ crossed' = [crossed EXCEPT ![s] = @ \/ (written /\ p.crossed)]
    /\ pass' = [pass EXCEPT ![s] = NotPolled]
    /\ UNCHANGED <<hubVars, link, grants, asking, letting, moves, orders, meant>>

Next ==
    \/ Transfer \/ RenameAccount \/ FollowRename
    \/ \E m \in Linkers :
          \/ LinkBoard(m) \/ FollowLink(m) \/ CheckNobodyElses(m) \/ CommitLink(m) \/ Abandon(m)
          \/ Withdraw(m)
    \/ \E s \in Servers :
          \/ Unlink(s) \/ CommitUnlink(s) \/ LetGo(s)
          \/ ListBoards(s) \/ ReadBoard(s) \/ Pair(s)

Spec == Init /\ [][Next]_linkVars

TypeOK ==
    /\ login \in [Accounts -> Logins] /\ owned \in [Servers -> Accounts]
    /\ said \subseteq Logins \X Accounts
    /\ link \in [Servers -> [name : Logins, id : Accounts \cup {NULL},
                             board : [on : BOOLEAN, owner : Logins \cup {NULL}, by : Linkers \cup {NULL}]]]
    /\ grants \subseteq Servers \X Linkers
    /\ wraps \in [Servers -> Accounts \cup {NULL}]
    /\ \A m \in Linkers : asking[m].step \in {"idle", "invited", "opened", "checked"}
    /\ \A s \in Servers : letting[s].step \in {"idle", "read", "forget"} /\ pass[s].step \in {"idle", "listed", "read"}
    /\ moves \in 0..MaxMoves /\ orders \in 0..MaxOrders
    /\ meant \in [Servers -> {NULL} \cup (Accounts \X Linkers)] /\ crossed \in [Servers -> BOOLEAN]

(***************************************************************************)
(* What it promises.                                                       *)
(***************************************************************************)

Known(a) == {a} \cup {t[1] : t \in {t \in said : t[2] = a}} \cup {login[a]}

\* The board a poll may read for a server is the one its linker opened, under that
\* linker's authorisation: a repository that changes hands, or whose owner changes its
\* name, never has a stranger's board of the same number read as its own.
ReadAsChosen ==
    \A s \in Servers :
        <<s, link[s].board.by>> \in ReadAs(ReadUnder(s)) =>
            /\ link[s].board.by = meant[s][2]
            /\ IF link[s].board.owner = NULL /\ link[s].name = login[owned[s]]
               THEN owned[s] = meant[s][1]
               ELSE ReadUnder(s) \in Known(meant[s][1])

\* Card ids and columns kept for a server belong to the board it mirrors, and not to one
\* mirrored into another server as well, although two links may race past the check that
\* nobody else has the board.  Excused: a poll or a second link that ran across a relink,
\* and, for the two servers, an account that has changed its name.
CardsOfThisBoard ==
    /\ \A s \in Servers : wraps[s] # NULL /\ ~crossed[s] => meant[s] # NULL /\ wraps[s] = meant[s][1]
    /\ login[Us] = Us /\ (\A s \in Servers : ~crossed[s]) =>
          \A s, t \in Servers : s # t /\ wraps[s] # NULL => wraps[s] # wraps[t]
=============================================================================
