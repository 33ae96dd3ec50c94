---------------------------- MODULE UserListing ----------------------------
(***************************************************************************)
(* An admin reads the list of users page by page while the requests of Api *)
(* change it.  Each page is a request of its own, and its handler counts   *)
(* the rows in one statement and streams them in another.  The reader goes *)
(* on until the pages it has read cover the total the last one stated, and *)
(* asks again for a page whose answer is lost.                             *)
(***************************************************************************)
EXTENDS Api, Pagination, FiniteSets

CONSTANT AskedPerPage   \* the page size the reader asks for

ASSUME ListingAssumption == Names \subseteq Nat /\ AskedPerPage \in Int

VARIABLES
    reader,   \* the request for a page, and the rows it has counted
    walk      \* the page the reader is at, 0 before the first, and what it is owed

listingVars == <<vars, reader, walk>>

Idle == [at |-> "idle", total |-> 0]

ListingInit ==
    /\ Init
    /\ reader = Idle
    /\ walk = [page |-> 0, owed |-> {}, pushed |-> {}]

-----------------------------------------------------------------------------
(* list_users, statement by statement. *)

\* AuthUser and require_admin.
AdmitReader ==
    /\ reader.at = "idle"
    /\ \E u \in Ids : Exists(u) /\ users[u].role \in Admins
    /\ reader' = [Idle EXCEPT !.at = "admitted"]
    /\ UNCHANGED <<vars, walk>>

\* count.sql.  A reader that begins is owed all accounts there are.
CountUsers ==
    /\ reader.at = "admitted"
    /\ reader' = [at |-> "counted", total |-> Cardinality({u \in Ids : Exists(u)})]
    /\ walk' = IF walk.page = 0
               THEN [page |-> 1, owed |-> {u \in Ids : Exists(u)}, pushed |-> {}]
               ELSE walk
    /\ UNCHANGED vars

\* The position of an account in list.sql, which orders by username.
Position(u) == Cardinality({v \in Ids : Exists(v) /\ users[v].name < users[u].name})

\* list.sql, of which one page is kept.
ListUsers ==
    /\ reader.at = "counted"
    /\ reader' = Idle
    /\ LET shown == {u \in Ids : Exists(u) /\ Position(u) \in Positions(walk.page, AskedPerPage)}
           isLast == walk.page * PerPage(AskedPerPage) >= reader.total
       IN  walk' = [page |-> IF isLast THEN 0 ELSE walk.page + 1,
                    owed |-> IF isLast THEN walk.owed \ (shown \cup walk.pushed)
                                       ELSE walk.owed \ shown,
                    pushed |-> {}]
    /\ UNCHANGED vars

\* The request ends without an answer.
LosePage ==
    /\ reader.at # "idle"
    /\ reader' = Idle
    /\ walk' = [walk EXCEPT !.pushed = {}]
    /\ UNCHANGED vars

-----------------------------------------------------------------------------
(* The other requests. *)

NamesIn(table) == {table[u].name : u \in {v \in Ids : table[v] # NoRow}}

\* A name that sorts before the account's is no longer, or not yet, in the list.
LosesNameBefore(u) == \E n \in NamesIn(users) \ NamesIn(users') : n < users[u].name
GainsNameBefore(u) == \E n \in NamesIn(users') \ NamesIn(users) : n < users[u].name

\* The reader is owed the accounts that stay under their names, until one that is
\* sorted before goes; pushed are those one has come before since the rows were
\* counted.
Watch ==
    LET stay == {u \in walk.owed : /\ users'[u] # NoRow /\ users'[u].name = users[u].name
                                   /\ ~LosesNameBefore(u)}
    IN  walk' = [walk EXCEPT
                    !.owed = stay,
                    !.pushed = IF reader.at = "counted"
                               THEN (@ \cap stay) \cup {u \in stay : GainsNameBefore(u)} ELSE {}]

Other == Next /\ Watch /\ UNCHANGED reader

ListingNext == AdmitReader \/ CountUsers \/ ListUsers \/ LosePage \/ Other

ListingSpec == ListingInit /\ [][ListingNext]_listingVars

-----------------------------------------------------------------------------
(* Properties. *)

\* Count, list and the next page are separate statements (user.rs:100): whoever has
\* read all pages has been shown every account that kept its name from the first to
\* the last, unless one sorted before it went meanwhile, or came between the last
\* count and its list.
PagesCoverTheList == walk.page = 0 => walk.owed = {}
=============================================================================
