------------------------------ MODULE Listing ------------------------------
(***************************************************************************)
(* The read operation list, beside the handlers that write: what a client   *)
(* that follows the cursors to the end has seen.  The handler runs one      *)
(* SELECT for each page and changes nothing.                                *)
(***************************************************************************)
EXTENDS ServiceAccount

CONSTANTS
    IdOrder,            \* the order of service account ids
    MaxPageSize,        \* the configured max_page_size
    PageLimit           \* the limits clients ask for

ASSUME OrderAssumption ==
    /\ IdOrder \in [Account -> Nat]
    /\ \A a, b \in Account : IdOrder[a] = IdOrder[b] => a = b
    /\ MaxPageSize \in Nat \ {0}
    /\ PageLimit \subseteq Nat

VARIABLE walk           \* a client on its way through the pages of list

listVars == <<vars, walk>>

(* present: the accounts of the organization when the first page was read;  *)
(* times: how often each account was listed; after: the cursor.             *)
Walk ==
    [stage: {"none", "paging", "done"},
     organization: Organization \cup {None},
     after: Account \cup {None},
     present: SUBSET Account,
     times: [Account -> Nat]]

NoWalk ==
    [stage |-> "none", organization |-> None, after |-> None, present |-> {},
     times |-> [a \in Account |-> 0]]

ListInit ==
    /\ Init
    /\ walk = NoWalk

-----------------------------------------------------------------------------
(* parse_page_limit.                                                        *)
ValidLimit(n) == n > 0 /\ n <= MaxPageSize

(* Mutant: the account at the cursor is listed again.                       *)
BeyondOrAt(o, after) ==
    {a \in AccountsOf(o) : after = None \/ IdOrder[a] >= IdOrder[after]}

(* list_accounts' WHERE clause.                                             *)
Beyond(o, after) ==
    {a \in AccountsOf(o) : after = None \/ IdOrder[a] > IdOrder[after]}

Earlier(S, a) == {b \in S : IdOrder[b] < IdOrder[a]}

(* ORDER BY service_account_id LIMIT n.                                     *)
FirstRows(S, n) == {a \in S : Cardinality(Earlier(S, a)) < n}

(* Mutant: a full page is taken to have a successor.                        *)
FullPage(o, after, n) == Cardinality(FirstRows(Beyond(o, after), n + 1)) >= n

(* Mutant: the rows are truncated first.                                    *)
HasMoreTruncated(o, after, n) == Cardinality(FirstRows(Beyond(o, after), n)) > n

(* has_more: the extra row was there.                                       *)
HasMore(o, after, n) == Cardinality(FirstRows(Beyond(o, after), n + 1)) > n

Last(S) == CHOOSE a \in S : \A b \in S : IdOrder[b] <= IdOrder[a]

(* The rows beyond the limit are dropped before the cursor is taken.        *)
NextCursor(o, after, n) ==
    IF HasMore(o, after, n) THEN Last(FirstRows(Beyond(o, after), n)) ELSE None

(* The client gets a page and goes on with its cursor, if there is one.     *)
ListPage(o, after, present, times, n) ==
    /\ ValidLimit(n)
    /\ walk' =
          [stage |-> IF HasMore(o, after, n) THEN "paging" ELSE "done",
           organization |-> o,
           after |-> NextCursor(o, after, n),
           present |-> present,
           times |-> [a \in Account |->
               IF a \in FirstRows(Beyond(o, after), n)
               THEN times[a] + 1 ELSE times[a]]]
    /\ UNCHANGED vars

ListFirst(o, n) ==
    /\ walk.stage # "paging"
    /\ ListPage(o, None, AccountsOf(o), NoWalk.times, n)

ListNext(n) ==
    /\ walk.stage = "paging"
    /\ ListPage(walk.organization, walk.after, walk.present, walk.times, n)

-----------------------------------------------------------------------------
(* A step of the handlers.                                                  *)
Write == Next /\ UNCHANGED walk

ListingNext ==
    \/ Write
    \/ \E n \in PageLimit :
          \/ \E o \in Organization : ListFirst(o, n)
          \/ ListNext(n)

ListingSpec == ListInit /\ [][ListingNext]_listVars

-----------------------------------------------------------------------------
(* Keyset pagination is stable: whatever is created between the pages, a    *)
(* client that follows the cursors to the end has seen every account its    *)
(* organization had when it began.                                          *)
WalkComplete ==
    walk.stage = "done" => \A a \in walk.present : walk.times[a] > 0

(* ... and on the way no account twice and none of another organization.    *)
ListedOnce ==
    \A a \in Account : walk.times[a] > 0 =>
        /\ walk.times[a] = 1
        /\ accounts[a].organization = walk.organization

(* A cursor is a promise: the page it leads to is not empty, whenever it is *)
(* asked for.                                                               *)
CursorLeadsOn ==
    walk.stage = "paging" => Beyond(walk.organization, walk.after) # {}

=============================================================================
