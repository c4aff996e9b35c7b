---------------------------- MODULE MCCatalogue ----------------------------
(***************************************************************************)
(* A small instance of Catalogue and Queries for TLC. The two share no     *)
(* state, so a behaviour is one of three: two requests on the rows, three  *)
(* on reviews, each with every single statement in between, or a walk      *)
(* through a listing.                                                      *)
(***************************************************************************)
EXTENDS Catalogue, Queries, TLC

CONSTANTS p1, p2, f1, u1, u2, r1, r2, r3

Edits ==
       [op : {"patch"}, product : {p1}, set : {"active", "stock"}]
  \cup [op : {"addImage"}, product : Products, file : {f1}]
  \cup [op : {"removeImage", "setMain"}, product : {p1}, file : {f1}]
  \cup [op : {"complete", "avatar"}, user : {u1}, file : {f1}]
  \cup [op : {"profile"}, user : {u1}]

ReviewEdits == [op : ReviewOps, user : {u1}, product : {p1}, rating : Ratings]

MCBodies == Edits \cup ReviewEdits

\* A walk has rows to walk through; the other behaviours have none.
Walking == \E id \in Ids : rows[id].state # "none"

\* Two edits, on a database with no review; or three requests about reviews
\* of a product without an image.
EditsInit == /\ req \in [Requests -> Edits] /\ req[r3].op = "profile"
             /\ pc = [r \in Requests |-> IF r = r3 THEN "answered" ELSE "new"]
             /\ reviews = {}

ReviewsInit == /\ req \in [Requests -> ReviewEdits]
               /\ pc = [r \in Requests |-> "new"]
               /\ \A v \in reviews : v.user = u1 /\ v.product = p1
               /\ \A f \in Files : file[f] = None

Blank == [state |-> "none", at |-> 0, key |-> 0, matches |-> TRUE]

NoWalk == /\ listing = [table |-> "users", sortBy |-> "createdAt", dir |-> "DESC", limit |-> 1,
                        graph |-> FALSE]
          /\ rows = [id \in Ids |-> Blank]

\* The walk: three rows, two milliseconds of two microseconds each. What a
\* listing does not sort by is the same in every row, and rows not yet
\* inserted are blank. No request is under way.
WalkInit ==
  /\ QInit
  /\ \A id \in Ids :
       /\ IF ByDate THEN rows[id].key = 0 ELSE rows[id].at = 0
       /\ rows[id].state = "none" => rows[id] = Blank
       /\ listing.table = "reviews" => rows[id].matches
  /\ Walking

Idle == /\ req = [r \in Requests |-> [op |-> "profile", user |-> u1]]
        /\ pc = [r \in Requests |-> "answered"]
        /\ file = [f \in Files |-> None] /\ reviews = {}
        /\ user = [u \in Users |-> [name |-> "old", role |-> "user", avatar |-> None, deleted |-> FALSE]]

ProductsInit == product[p1] # None /\ product[p2] = None

MCInit ==
  \/ NoWalk /\ QInit /\ KInit /\ ProductsInit /\ (EditsInit \/ ReviewsInit)
  \/ Idle /\ KInit /\ ProductsInit /\ WalkInit

MCRow(r) == IF ByDate THEN r.key = 0 ELSE r.at = 0

MCWalk ==
  \/ WalkStep
  \/ \E id \in Ids : \/ \E r \in Row : MCRow(r) /\ InsertRow(id, r)
                     \/ \E k \in Keys, m \in BOOLEAN : (ByDate => k = 0) /\ UpdateRow(id, k, m)
                     \/ RemoveRow(id)

MCNext ==
  \/ Walking /\ MCWalk /\ UNCHANGED kvars
  \/ ~Walking /\ Next /\ UNCHANGED qvars

Spec == MCInit /\ [][MCNext]_<<kvars, qvars>>
=============================================================================
